---------------------------- MODULE Base58Proofs ----------------------------
(***************************************************************************)
(* base58_encode and base58_decode keep the number and the zeros in front   *)
(* of it, in every code with room for its inputs, and there is one text of  *)
(* a number with its zeros: decoding undoes encoding.  The text of an       *)
(* address fills its string.                                                *)
(***************************************************************************)
EXTENDS FormatProofs

---------------------------------------------------------------------------
(* Digits, from the last one on.                                            *)

\* The numbers that their ends show.
EndRun(b, u, s) ==
  /\ u \in [0 .. Len(s) -> Int] /\ u[0] = 0
  /\ \A i \in 1 .. Len(s) : u[i] = u[i - 1] + Power(b, i - 1) * s[Len(s) + 1 - i]

\* What such a run ends with is what the digits show.
LEMMA EndRunIs ==
  ASSUME NEW b \in Nat \ {0}, NEW s \in Seq(Int), NEW u, EndRun(b, u, s)
  PROVE  ValueIn(b, s) = u[Len(s)]
<1> DEFINE n == Len(s)
<1>1. b \in Int /\ n \in Nat /\ \A k \in 1 .. n : s[k] \in Int
  OBVIOUS
<1>2. PICK v \in [0 .. n -> Int] : ValueRun(b, v, s) /\ ValueIn(b, s) = v[n]
  BY <1>1, ValueIs
<1>3. v[0] = 0 /\ \A k \in 1 .. n : v[k] = b * v[k - 1] + s[k]
  BY <1>2 DEF ValueRun, UpTo
<1>4. /\ u \in [0 .. n -> Int] /\ u[0] = 0
      /\ \A i \in 1 .. n : u[i] = u[i - 1] + Power(b, i - 1) * s[n + 1 - i]
  BY DEF EndRun
<1> HIDE DEF n
<1> DEFINE T == {k \in Nat : k <= n => v[k] * Power(b, n - k) + u[n - k] = u[n]}
<1>5. 0 \in T
  <2>1. n - 0 = n /\ Power(b, n) \in Int /\ u[n] \in Int
    BY <1>1, <1>4, Powers
  <2> DEFINE p == Power(b, n)
             x == u[n]
  <2>2. p \in Int /\ x \in Int
    BY <2>1
  <2> HIDE DEF p, x
  <2>3. 0 * p + x = x
    BY <2>2
  <2>. QED  BY <1>3, <2>1, <2>3 DEF p, x
<1>6. ASSUME NEW k \in T  PROVE k + 1 \in T
  <2>1. k \in Nat /\ k + 1 \in Nat
    OBVIOUS
  <2>2. ASSUME k + 1 <= n
        PROVE  v[k + 1] * Power(b, n - (k + 1)) + u[n - (k + 1)] = u[n]
    <3> DEFINE i == n - k
               p == Power(b, i - 1)
               x == v[k]
               y == u[i - 1]
               d == s[k + 1]
    <3>1. /\ i \in 1 .. n /\ i - 1 \in 0 .. n /\ i - 1 \in Nat /\ (i - 1) + 1 = i
          /\ n + 1 - i = k + 1 /\ n - (k + 1) = i - 1 /\ k + 1 \in 1 .. n /\ (k + 1) - 1 = k
          /\ k \in 0 .. n /\ k <= n
      BY <1>1, <2>1, <2>2
    <3>2. v[k] * Power(b, i) + u[i] = u[n]
      BY <2>1, <3>1
    <3> HIDE DEF T, i
    <3>3. u[i] = y + p * d
      BY <1>4, <3>1
    <3>4. v[k + 1] = b * x + d
      BY <1>3, <3>1
    <3>5. Power(b, i) = b * p /\ p \in Int
      BY <1>1, <3>1, Powers
    <3>6. x \in Int /\ y \in Int /\ d \in Int
      BY <1>1, <1>2, <1>4, <3>1
    <3> HIDE DEF p, x, y, d
    <3>7. x * (b * p) + (y + p * d) = (b * x + d) * p + y
      BY <1>1, <3>5, <3>6
    <3>. QED  BY <3>1, <3>2, <3>3, <3>4, <3>5, <3>7 DEF p, x, y
  <2>. QED  BY <2>1, <2>2
<1>7. T \in SUBSET Nat
  OBVIOUS
<1>8. T = Nat
  <2> HIDE DEF T
  <2>. QED  BY <1>5, <1>6, <1>7, Induction
<1> HIDE DEF T
<1>9. v[n] * Power(b, n - n) + u[n - n] = u[n]
  <2>1. n \in T /\ n <= n
    BY <1>1, <1>8
  <2>. QED  BY <2>1 DEF T
<1>10. n - n = 0 /\ Power(b, 0) = 1 /\ v[n] \in Int
  BY <1>1, <1>2, Powers
<1>. QED  BY <1>2, <1>4, <1>9, <1>10 DEF n

\* Digits have such a run.
LEMMA EndRuns ==
  ASSUME NEW b \in Nat \ {0}, NEW s \in Seq(Int)
  PROVE  \E u : EndRun(b, u, s)
<1> DEFINE n == Len(s)
           step == [i \in Nat |-> [x \in Int |->
                      IF i \in 1 .. n THEN x + Power(b, i - 1) * s[n + 1 - i] ELSE x]]
<1>1. b \in Int /\ n \in Nat /\ \A k \in 1 .. n : s[k] \in Int
  OBVIOUS
<1> HIDE DEF n
<1>2. ASSUME NEW i \in 1 .. n, NEW x \in Int
      PROVE  x + Power(b, i - 1) * s[n + 1 - i] \in Int
  <2>1. i - 1 \in Nat /\ n + 1 - i \in 1 .. n
    BY <1>1
  <2> DEFINE p == Power(b, i - 1)
             d == s[n + 1 - i]
  <2>2. p \in Int /\ d \in Int
    BY <1>1, <2>1, Powers
  <2> HIDE DEF p, d
  <2>3. x + p * d \in Int
    BY <2>2
  <2>. QED  BY <2>3 DEF p, d
<1>3. step \in [Nat -> [Int -> Int]]
  BY <1>2
<1>4. \A i \in 1 .. n, x \in Int : step[i][x] = x + Power(b, i - 1) * s[n + 1 - i]
  BY <1>1
<1> HIDE DEF step
<1>5. PICK f \in [0 .. n -> Int] : Follows(f, n, 0, step)
  <2> DEFINE S == Int
             a == 0
  <2>0. 0 \in Int
    OBVIOUS
  <2>1. a \in S /\ step \in [Nat -> [S -> S]]
    BY <1>3, <2>0, Zenon
  <2> HIDE DEF S, a
  <2>2. \E f \in [0 .. n -> S] : Follows(f, n, a, step)
    BY <1>1, <2>1, StepsExist
  <2>. QED  BY <2>2 DEF S, a
<1>6. f[0] = 0
  <2>1. 0 \in 0 .. n
    BY <1>1
  <2>. QED  BY <1>5, <2>1 DEF Follows
<1>7. ASSUME NEW i \in 1 .. n  PROVE f[i] = f[i - 1] + Power(b, i - 1) * s[n + 1 - i]
  <2>1. i \in 0 .. n /\ i # 0 /\ i - 1 \in 0 .. n
    BY <1>1
  <2>2. f[i] = step[i][f[i - 1]] /\ f[i - 1] \in Int
    BY <1>5, <2>1 DEF Follows
  <2>. QED  BY <1>4, <2>2
<1>8. EndRun(b, f, s)
  BY <1>5, <1>6, <1>7 DEF EndRun, n
<1>. QED  BY <1>8

\* Zeros at the front are worth nothing.
LEMMA EndRunZeros ==
  ASSUME NEW b \in Nat \ {0}, NEW s \in Seq(Int), NEW u, EndRun(b, u, s),
         NEW z \in 0 .. Len(s), \A k \in 1 .. z : s[k] = 0
  PROVE  u[Len(s)] = u[Len(s) - z]
<1> DEFINE n == Len(s)
<1>1. n \in Nat /\ z \in Nat /\ z <= n /\ b \in Int
  OBVIOUS
<1>2. /\ u \in [0 .. n -> Int]
      /\ \A i \in 1 .. n : u[i] = u[i - 1] + Power(b, i - 1) * s[n + 1 - i]
  BY DEF EndRun
<1> HIDE DEF n
<1> DEFINE T == {k \in Nat : k <= z => u[n - k] = u[n]}
<1>3. 0 \in T
  <2>1. n - 0 = n
    BY <1>1
  <2>. QED  BY <2>1
<1>4. ASSUME NEW k \in T  PROVE k + 1 \in T
  <2>1. k \in Nat /\ k + 1 \in Nat
    OBVIOUS
  <2>2. ASSUME k + 1 <= z  PROVE u[n - (k + 1)] = u[n]
    <3> DEFINE i == n - k
    <3>1. /\ i \in 1 .. n /\ i - 1 \in 0 .. n /\ i - 1 \in Nat /\ i - 1 = n - (k + 1)
          /\ n + 1 - i = k + 1 /\ k + 1 \in 1 .. z /\ k <= z
      BY <1>1, <2>1, <2>2
    <3>2. u[i] = u[n]
      BY <2>1, <3>1
    <3> HIDE DEF T, i
    <3>3. u[i] = u[i - 1] + Power(b, i - 1) * s[k + 1] /\ s[k + 1] = 0
      BY <1>2, <3>1
    <3>4. u[i - 1] \in Int /\ Power(b, i - 1) \in Int
      BY <1>1, <1>2, <3>1, Powers
    <3>5. \A x, p \in Int : x + p * 0 = x
      OBVIOUS
    <3>6. u[i] = u[i - 1]
      BY <3>3, <3>4, <3>5
    <3>. QED  BY <3>1, <3>2, <3>6
  <2>. QED  BY <2>1, <2>2
<1>5. T \in SUBSET Nat
  OBVIOUS
<1>6. T = Nat
  <2> HIDE DEF T
  <2>. QED  BY <1>3, <1>4, <1>5, Induction
<1> HIDE DEF T
<1>7. z \in T /\ z <= z
  BY <1>1, <1>6
<1>8. u[n - z] = u[n]
  BY <1>7 DEF T
<1>. QED  BY <1>8 DEF n

---------------------------------------------------------------------------
(* base58_encode, a byte.                                                   *)

\* What AddByte carries.
CarryRun(c, f, b, digits, byte) ==
  /\ c \in [0 .. Len(digits) -> Nat] /\ c[0] = byte
  /\ \A i \in 1 .. Len(digits) :
       c[i] = (c[i - 1] + f * digits[Len(digits) + 1 - i]) \div b

\* The carries of the inner loop are those of such a run.
LEMMA CarryRuns ==
  ASSUME NEW f \in Nat, NEW b \in Nat \ {0}, NEW digits \in Seq(Nat), NEW byte \in Nat,
         NEW carry,
         carry = CHOOSE x : x = [i \in 0 .. Len(digits) |->
                   IF i = 0 THEN byte
                   ELSE (x[i - 1] + f * digits[Len(digits) + 1 - i]) \div b]
  PROVE  CarryRun(carry, f, b, digits, byte)
<1> DEFINE n == Len(digits)
           step == [i \in Nat |-> [x \in Nat |->
                      IF i \in 1 .. n THEN (x + f * digits[n + 1 - i]) \div b ELSE x]]
<1>1. n \in Nat /\ \A k \in 1 .. n : digits[k] \in Nat
  OBVIOUS
<1>2. carry = CHOOSE x : x = [i \in 0 .. n |->
                   IF i = 0 THEN byte ELSE (x[i - 1] + f * digits[n + 1 - i]) \div b]
  OBVIOUS
<1> HIDE DEF n
<1>3. ASSUME NEW i \in 1 .. n, NEW x \in Nat
      PROVE  (x + f * digits[n + 1 - i]) \div b \in Nat
  <2> DEFINE d == digits[n + 1 - i]
  <2>1. n + 1 - i \in 1 .. n
    BY <1>1
  <2>2. d \in Nat
    BY <1>1, <2>1
  <2> HIDE DEF d
  <2>3. x + f * d \in Nat
    BY <2>2
  <2>4. (x + f * d) \div b \in Nat
    BY <2>3, DivSplit
  <2>. QED  BY <2>4 DEF d
<1>4. step \in [Nat -> [Nat -> Nat]]
  BY <1>3
<1>5. \A i \in 1 .. n, x \in Nat : step[i][x] = (x + f * digits[n + 1 - i]) \div b
  BY <1>1
<1> HIDE DEF step
<1>6. PICK g \in [0 .. n -> Nat] : Follows(g, n, byte, step)
  <2> DEFINE S == Nat
  <2>1. byte \in S /\ step \in [Nat -> [S -> S]]
    BY <1>4, Zenon
  <2> HIDE DEF S
  <2>2. \E g \in [0 .. n -> S] : Follows(g, n, byte, step)
    BY <1>1, <2>1, StepsExist
  <2>. QED  BY <2>2 DEF S
<1>7. ASSUME NEW i \in 0 .. n
      PROVE  g[i] = IF i = 0 THEN byte ELSE (g[i - 1] + f * digits[n + 1 - i]) \div b
  <2>1. CASE i = 0
    BY <1>6, <2>1 DEF Follows
  <2>2. CASE i # 0
    <3>1. i \in 1 .. n /\ i - 1 \in 0 .. n /\ g[i - 1] \in Nat
      BY <1>1, <2>2
    <3>2. g[i] = step[i][g[i - 1]]
      BY <1>6, <2>2 DEF Follows
    <3>. QED  BY <1>5, <2>2, <3>1, <3>2
  <2>. QED  BY <2>1, <2>2
<1>8. g = [i \in 0 .. n |-> IF i = 0 THEN byte ELSE (g[i - 1] + f * digits[n + 1 - i]) \div b]
  BY SMTT(30), <1>7
<1>9. carry = [i \in 0 .. n |->
                 IF i = 0 THEN byte ELSE (carry[i - 1] + f * digits[n + 1 - i]) \div b]
  BY <1>2, <1>8
<1>10. carry[0] = byte
  <2>1. 0 \in 0 .. n
    BY <1>1
  <2>. QED  BY <1>9, <2>1
<1>11. \A i \in 1 .. n : carry[i] = (carry[i - 1] + f * digits[n + 1 - i]) \div b
  <2>. TAKE i \in 1 .. n
  <2>1. i \in 0 .. n /\ i # 0
    BY <1>1
  <2>. QED  BY <1>9, <2>1
<1>12. g[0] = byte /\ \A i \in 1 .. n : g[i] = (g[i - 1] + f * digits[n + 1 - i]) \div b
  <2>1. 0 \in 0 .. n /\ \A i \in 1 .. n : i \in 0 .. n /\ i # 0
    BY <1>1
  <2>. QED  BY <1>7, <2>1
<1>13. \A i \in 0 .. n : carry[i] = g[i]
  <2>1. Alike(carry, g, n)
    BY <1>10, <1>11, <1>12 DEF Alike
  <2>. QED  BY <1>1, <2>1, RunsAgree
<1>14. \A i \in 0 .. n : carry[i] \in Nat
  BY <1>6, <1>13
<1>15. carry \in [0 .. n -> Nat]
  <2>1. carry = [i \in 0 .. n |-> carry[i]]
    BY <1>9
  <2>. QED  BY <1>14, <2>1
<1>. QED  BY <1>10, <1>11, <1>15 DEF CarryRun, n

\* The last m digits of E are those that AddByte writes.
Rewritten(E, D, c, f, b, m) ==
  \A i \in 1 .. m : E[Len(D) + 1 - i] = (c[i - 1] + f * D[Len(D) + 1 - i]) % b

Carrying(f, b, byte, D, E, c, u, w, m) ==
  /\ f \in Nat /\ b \in Nat \ {0} /\ byte \in Nat /\ m \in 0 .. Len(D)
  /\ D \in Seq(Nat) /\ E \in Seq(Nat) /\ Len(E) = Len(D)
  /\ CarryRun(c, f, b, D, byte) /\ Rewritten(E, D, c, f, b, m)
  /\ EndRun(b, u, D) /\ EndRun(b, w, E)

\* The digits of the inner loop and its carries are the old number times the
\* first base, and the byte.
LEMMA CarriedSum ==
  ASSUME NEW f, NEW b, NEW byte, NEW D, NEW E, NEW c, NEW u, NEW w, NEW m,
         Carrying(f, b, byte, D, E, c, u, w, m)
  PROVE  \A i \in 0 .. m : w[i] + c[i] * Power(b, i) = f * u[i] + byte
<1> DEFINE n == Len(D)
<1>0. /\ f \in Nat /\ b \in Nat \ {0} /\ byte \in Nat /\ m \in 0 .. Len(D)
      /\ D \in Seq(Nat) /\ E \in Seq(Nat) /\ Len(E) = Len(D)
      /\ CarryRun(c, f, b, D, byte) /\ Rewritten(E, D, c, f, b, m)
      /\ EndRun(b, u, D) /\ EndRun(b, w, E)
  BY DEF Carrying
<1>1. n \in Nat /\ m \in Nat /\ m <= n /\ b \in Int /\ b \in Nat \ {0}
      /\ f \in Nat /\ byte \in Nat /\ \A k \in 1 .. n : D[k] \in Nat
  BY <1>0
<1>2. /\ u \in [0 .. n -> Int] /\ u[0] = 0
      /\ \A i \in 1 .. n : u[i] = u[i - 1] + Power(b, i - 1) * D[n + 1 - i]
  BY <1>0 DEF EndRun
<1>3. /\ w \in [0 .. n -> Int] /\ w[0] = 0
      /\ \A i \in 1 .. n : w[i] = w[i - 1] + Power(b, i - 1) * E[n + 1 - i]
  BY <1>0 DEF EndRun
<1>4. /\ c \in [0 .. n -> Nat] /\ c[0] = byte
      /\ \A i \in 1 .. n : c[i] = (c[i - 1] + f * D[n + 1 - i]) \div b
  BY <1>0 DEF CarryRun
<1>5. \A i \in 1 .. m : E[n + 1 - i] = (c[i - 1] + f * D[n + 1 - i]) % b
  BY <1>0 DEF Rewritten
<1> HIDE DEF n
<1> DEFINE T == {i \in Nat : i <= m => w[i] + c[i] * Power(b, i) = f * u[i] + byte}
<1>6. 0 \in T
  <2>1. Power(b, 0) = 1 /\ byte \in Nat /\ f \in Nat
    BY <1>1, Powers
  <2>2. 0 + byte * 1 = f * 0 + byte
    BY <2>1
  <2>. QED  BY <1>2, <1>3, <1>4, <2>1, <2>2
<1>7. ASSUME NEW k \in T  PROVE k + 1 \in T
  <2>1. k \in Nat /\ k + 1 \in Nat
    OBVIOUS
  <2>2. ASSUME k + 1 <= m
        PROVE  w[k + 1] + c[k + 1] * Power(b, k + 1) = f * u[k + 1] + byte
    <3> DEFINE i == k + 1
               p == Power(b, k)
               d == D[n + 1 - i]
               x == c[k] + f * d
               q == x \div b
               r == x % b
               y == w[k]
               z == u[k]
               e == c[k]
    <3>1. /\ i \in 1 .. n /\ i \in 1 .. m /\ i - 1 = k /\ k \in 0 .. n /\ k <= m
          /\ n + 1 - i \in 1 .. n
      BY <1>1, <2>1, <2>2
    <3>2. y + e * p = f * z + byte
      BY <2>1, <3>1
    <3> HIDE DEF T, i
    <3>3. u[i] = z + p * d
      BY <1>2, <3>1
    <3>4. w[i] = y + p * r
      BY <1>3, <1>5, <3>1
    <3>5. c[i] = q
      BY <1>4, <3>1
    <3>6. Power(b, i) = b * p /\ p \in Int
      BY <1>1, <2>1, Powers DEF i
    <3>7. y \in Int /\ z \in Int /\ e \in Nat /\ d \in Nat
      BY <1>1, <1>2, <1>3, <1>4, <3>1
    <3>8. x = e + f * d
      OBVIOUS
    <3> HIDE DEF p, d, y, z, e, x
    <3>9. x \in Nat
      <4>1. \A g, h \in Nat : g * h \in Nat
        OBVIOUS
      <4>0. f \in Nat
        BY <1>1
      <4> DEFINE g == f * d
      <4>2. g \in Nat
        BY <3>7, <4>0, <4>1
      <4>3. x = e + g
        BY <3>8
      <4> HIDE DEF g
      <4>4. e \in Nat
        BY <3>7
      <4>. QED  BY <4>2, <4>3, <4>4
    <3>10. q \in Nat /\ r \in Int /\ x = b * q + r
      <4>1. q \in Nat /\ r \in 0 .. b - 1 /\ x = b * q + r
        BY <1>1, <3>9, DivSplit
      <4>. QED  BY <4>1
    <3> HIDE DEF q, r
    <3>11. (y + p * r) + q * (b * p) = y + p * (b * q + r)
      BY <1>1, <3>6, <3>7, <3>10
    <3>12. y + p * (e + f * d) = (y + e * p) + p * (f * d)
      BY <1>1, <3>6, <3>7
    <3>13. (f * z + byte) + p * (f * d) = f * (z + p * d) + byte
      BY <1>1, <3>6, <3>7
    <3>14. w[i] + c[i] * Power(b, i) = f * u[i] + byte
      BY <3>2, <3>3, <3>4, <3>5, <3>6, <3>8, <3>10, <3>11, <3>12, <3>13
    <3>. QED  BY <3>14 DEF i
  <2>. QED  BY <2>1, <2>2
<1>8. T \in SUBSET Nat
  OBVIOUS
<1>9. T = Nat
  <2> HIDE DEF T
  <2>. QED  BY <1>6, <1>7, <1>8, Induction
<1> HIDE DEF T
<1>10. \A i \in 0 .. m : i \in T /\ i <= m
  BY <1>1, <1>9
<1>. QED  BY <1>10 DEF T

\* The ends of natural numbers show natural numbers.
LEMMA EndRunNat ==
  ASSUME NEW b \in Nat \ {0}, NEW s \in Seq(Nat), NEW u, EndRun(b, u, s)
  PROVE  \A i \in 0 .. Len(s) : u[i] \in Nat
<1> DEFINE n == Len(s)
<1>1. n \in Nat /\ \A k \in 1 .. n : s[k] \in Nat
  OBVIOUS
<1>2. u[0] = 0 /\ \A i \in 1 .. n : u[i] = u[i - 1] + Power(b, i - 1) * s[n + 1 - i]
  BY DEF EndRun
<1> HIDE DEF n
<1> DEFINE T == {i \in Nat : i <= n => u[i] \in Nat}
<1>3. 0 \in T
  BY <1>2
<1>4. ASSUME NEW k \in T  PROVE k + 1 \in T
  <2>1. k \in Nat /\ k + 1 \in Nat
    OBVIOUS
  <2>2. ASSUME k + 1 <= n  PROVE u[k + 1] \in Nat
    <3>1. k + 1 \in 1 .. n /\ (k + 1) - 1 = k /\ n + 1 - (k + 1) \in 1 .. n /\ k <= n
      BY <1>1, <2>1, <2>2
    <3>2. u[k] \in Nat
      BY <2>1, <3>1
    <3> DEFINE d == s[n + 1 - (k + 1)]
               p == Power(b, k)
               x == u[k]
    <3>3. u[k + 1] = x + p * d
      BY <1>2, <3>1
    <3> HIDE DEF T
    <3>4. d \in Nat /\ p \in Nat
      BY <1>1, <2>1, <3>1, PowersPositive
    <3> HIDE DEF d, p, x
    <3>5. x + p * d \in Nat
      BY <3>2, <3>4 DEF x
    <3>. QED  BY <3>3, <3>5
  <2>. QED  BY <2>1, <2>2
<1>5. T \in SUBSET Nat
  OBVIOUS
<1>6. T = Nat
  <2> HIDE DEF T
  <2>. QED  BY <1>3, <1>4, <1>5, Induction
<1> HIDE DEF T
<1>7. \A i \in 0 .. n : i \in T /\ i <= n
  BY <1>1, <1>6
<1>8. \A i \in 0 .. n : u[i] \in Nat
  BY <1>7 DEF T
<1>. QED  BY <1>8 DEF n

Addable(code, f, b, D, byte, stop, total) ==
  /\ f \in Nat /\ b \in Nat \ {0} /\ code.from = f /\ code.to = b /\ byte \in Nat
  /\ D \in Seq(Byte(b)) /\ stop \in 1 .. Len(D) - 1 /\ \A k \in 1 .. stop : D[k] = 0
  /\ total \in Nat /\ total = f * ValueIn(b, D) + byte /\ total < Power(b, Len(D))

\* A byte more is the value times the base and the byte, in as few digits as hold it.
LEMMA AddByteIs ==
  ASSUME NEW code, NEW f, NEW b, NEW D, NEW byte, NEW stop, NEW total,
         Addable(code, f, b, D, byte, stop, total)
  PROVE  \E E \in Seq(Byte(b)), next \in 0 .. stop - 1 :
           /\ AddByte(code, D, byte, stop) = [buffer |-> E, stop |-> next]
           /\ Len(E) = Len(D) /\ ValueIn(b, E) = total
           /\ \A k \in 1 .. next : E[k] = 0
           /\ next = stop - 1 \/ Power(b, Len(D) - next - 1) <= total
<1> DEFINE n == Len(D)
           c == CHOOSE carry : carry = [i \in 0 .. n |->
                  IF i = 0 THEN byte ELSE (carry[i - 1] + f * D[n + 1 - i]) \div b]
           ends == {j \in 0 .. n - 1 : Carried(j, stop, c[n - j])}
           kept == IF ends = {} THEN 0 ELSE Max(ends)
           tail == [k \in 1 .. n - kept |-> (c[n - kept - k] + f * D[kept + k]) % b]
           E == SubSeq(D, 1, kept) \o tail
<1>0. /\ f \in Nat /\ b \in Nat \ {0} /\ code.from = f /\ code.to = b /\ byte \in Nat
      /\ D \in Seq(Byte(b)) /\ stop \in 1 .. Len(D) - 1 /\ \A k \in 1 .. stop : D[k] = 0
      /\ total \in Nat /\ total = f * ValueIn(b, D) + byte /\ total < Power(b, Len(D))
  BY DEF Addable
<1> USE <1>0
<1>1. AddByte(code, D, byte, stop) = [buffer |-> E, stop |-> IF ends = {} THEN -1 ELSE kept]
  BY <1>0 DEF AddByte
<1> HIDE DEF ends, kept, tail, E
<1>2. /\ n \in Nat /\ b \in Int /\ stop \in 1 .. n - 1 /\ D \in Seq(Nat) /\ D \in Seq(Int)
      /\ (\A k \in 1 .. n : D[k] \in Nat) /\ b \in Nat \ {0} /\ f \in Nat /\ byte \in Nat
  <2>1. b \in Int
    BY <1>0
  <2>2. D \in Seq(Int) /\ n \in Nat /\ \A k \in 1 .. n : D[k] \in 0 .. b - 1
    BY <1>0, <2>1, BytesInt
  <2>3. D \in [1 .. n -> Nat]
    BY SMTT(30), <2>2
  <2>. QED  BY SMTT(30), <1>0, <2>1, <2>2, <2>3
<1>3. CarryRun(c, f, b, D, byte)
  <2>1. c = CHOOSE carry : carry = [i \in 0 .. Len(D) |->
              IF i = 0 THEN byte ELSE (carry[i - 1] + f * D[Len(D) + 1 - i]) \div b]
    OBVIOUS
  <2> HIDE DEF c
  <2>. QED  BY <1>2, <2>1, CarryRuns
<1> HIDE DEF c
<1>4. c \in [0 .. n -> Nat] /\ c[0] = byte
  BY <1>3 DEF CarryRun
<1>5. PICK u : EndRun(b, u, D)
  BY <1>2, EndRuns
<1>6. ValueIn(b, D) = u[n]
  BY <1>2, <1>5, EndRunIs
<1>7. total = f * u[n] + byte /\ total \in Nat /\ total < Power(b, n)
  BY <1>0, <1>6
<1> HIDE DEF n
\* What is carried, is carried of the number.
<1>8. ASSUME NEW i \in 0 .. n, c[i] # 0, u[i] = u[n]
      PROVE  Power(b, i) <= total
  <2> DEFINE F == [k \in 1 .. n |-> (c[n - k] + f * D[k]) % b]
  <2>1. F \in Seq(Nat) /\ Len(F) = n /\ \A j \in 1 .. n : F[n + 1 - j] = (c[j - 1] + f * D[n + 1 - j]) % b
    <3>1. \A k \in 1 .. n : (c[n - k] + f * D[k]) % b \in Nat
      <4>. TAKE k \in 1 .. n
      <4> DEFINE x == c[n - k]
                 d == D[k]
      <4>1. n - k \in 0 .. n
        BY <1>2
      <4>2. x \in Nat /\ d \in Nat
        BY <1>2, <1>4, <4>1
      <4> HIDE DEF x, d
      <4>3. x + f * d \in Nat
        BY <4>2
      <4>4. \A y \in Nat : y % b \in Nat
        BY DivSplit
      <4>5. (x + f * d) % b \in Nat
        BY <4>3, <4>4
      <4>. QED  BY <4>5 DEF x, d
    <3>2. F \in [1 .. n -> Nat]
      BY <3>1
    <3>3. \A j \in 1 .. n : n + 1 - j \in 1 .. n /\ n - (n + 1 - j) = j - 1
      BY <1>2
    <3>. QED  BY SMTT(30), <1>2, <3>2, <3>3
  <2> HIDE DEF F
  <2>2. F \in Seq(Int)
    <3>1. F \in [1 .. n -> Nat]
      BY SMTT(30), <2>1
    <3>2. F \in [1 .. n -> Int]
      BY <3>1
    <3>. QED  BY <1>2, <3>2
  <2>3. PICK w : EndRun(b, w, F)
    BY <2>2, EndRuns
  <2>4. w[i] + c[i] * Power(b, i) = f * u[i] + byte
    <3>1. n \in 0 .. Len(D) /\ Len(F) = Len(D)
      BY <1>2, <2>1 DEF n
    <3>2. Rewritten(F, D, c, f, b, n)
      BY <2>1 DEF n, Rewritten
    <3>3. \A j \in 0 .. n : w[j] + c[j] * Power(b, j) = f * u[j] + byte
      <4>1. Carrying(f, b, byte, D, F, c, u, w, n)
        BY <1>2, <1>3, <1>5, <2>1, <2>3, <3>1, <3>2 DEF Carrying
      <4>. QED  BY <4>1, CarriedSum
    <3>. QED  BY <3>3
  <2>5. w[i] \in Nat /\ c[i] \in Nat \ {0} /\ Power(b, i) \in Nat
    <3>1. w[i] \in Nat
      BY <2>1, <2>3, EndRunNat
    <3>2. i \in Nat
      BY <1>2
    <3>. QED  BY <1>4, <1>8, <3>1, <3>2, PowersPositive
  <2> DEFINE p == Power(b, i)
             e == c[i]
             x == w[i]
  <2>6. x + e * p = total
    BY <1>7, <1>8, <2>4
  <2>7. x \in Nat /\ e \in Nat \ {0} /\ p \in Nat
    BY <2>5
  <2> HIDE DEF p, e, x
  <2>8. e * p >= p
    <3>1. e - 1 \in Nat
      BY <2>7
    <3>2. (e - 1) * p >= 0 /\ (e - 1) * p = e * p - p /\ e * p \in Int
      BY <2>7, <3>1
    <3>. QED  BY <2>7, <3>2
  <2>9. e * p \in Int
    BY <2>7
  <2>10. p <= total
    BY SMTT(30), <1>7, <2>6, <2>7, <2>8, <2>9
  <2>. QED  BY <2>10 DEF p
<1>9. \A j \in 0 .. stop : u[n - j] = u[n]
  <2>. TAKE j \in 0 .. stop
  <2>1. j \in 0 .. Len(D) /\ \A k \in 1 .. j : D[k] = 0
    BY <1>2 DEF n
  <2>2. u[Len(D)] = u[Len(D) - j]
    BY <1>2, <1>5, <2>1, EndRunZeros
  <2>. QED  BY <2>2 DEF n
<1>10. 0 \in ends
  <2>1. c[n] = 0
    <3>1. n \in 0 .. n
      BY <1>2
    <3>2. Power(b, n) \in Nat
      BY <1>2, PowersPositive
    <3>. QED  BY <1>7, <1>8, <3>1, <3>2
  <2>2. n - 0 = n /\ 0 \in 0 .. n - 1 /\ 0 <= stop - 1
    BY <1>2
  <2>. QED  BY <2>1, <2>2 DEF Carried, ends
<1>11. kept \in ends /\ \A j \in ends : j <= kept
  <2>1. ends \in SUBSET (0 .. n)
    BY <1>2 DEF ends
  <2>2. kept = Max(ends) /\ ends # {}
    BY <1>10 DEF kept
  <2>. QED  BY <1>2, <2>1, <2>2, GreatestNumber
<1>12. kept \in 0 .. stop - 1 /\ c[n - kept] = 0
  <2>1. \A j \in ends : j \in 0 .. n - 1 /\ c[n - j] = 0 /\ j <= stop - 1
    <3>1. ~(stop <= 0)
      BY <1>2
    <3>. QED  BY <3>1 DEF Carried, ends
  <2>. QED  BY <1>2, <1>11, <2>1
<1>13. kept = stop - 1 \/ Power(b, n - kept - 1) <= total
  <2>1. ASSUME kept # stop - 1  PROVE Power(b, n - kept - 1) <= total
    <3> DEFINE j == kept + 1
    <3>1. j \in 0 .. n - 1 /\ j <= stop - 1 /\ j \in 0 .. stop /\ n - j \in 0 .. n /\ n - j = n - kept - 1
          /\ ~(j <= kept)
      BY <1>2, <1>12, <2>1
    <3> HIDE DEF j
    <3>2. j \notin ends
      BY <1>11, <3>1
    <3>3. c[n - j] # 0
      BY <3>1, <3>2 DEF Carried, ends
    <3>4. Power(b, n - j) <= total
      BY <1>8, <1>9, <3>1, <3>3
    <3>. QED  BY <3>1, <3>4
  <2>. QED  BY <2>1
<1>14. AddByte(code, D, byte, stop) = [buffer |-> E, stop |-> kept]
  <2>1. ends # {}
    BY <1>10
  <2>. QED  BY <1>1, <2>1
<1>15. tail \in Seq(Byte(b)) /\ Len(tail) = n - kept
  <2>1. \A k \in 1 .. n - kept : (c[n - kept - k] + f * D[kept + k]) % b \in Byte(b)
    <3>. TAKE k \in 1 .. n - kept
    <3> DEFINE x == c[n - kept - k]
               d == D[kept + k]
    <3>1. n - kept - k \in 0 .. n /\ kept + k \in 1 .. n
      BY <1>2, <1>12
    <3>2. x \in Nat /\ d \in Nat
      BY <1>2, <1>4, <3>1
    <3> HIDE DEF x, d
    <3>3. x + f * d \in Nat
      BY <3>2
    <3>4. \A y \in Nat : y % b \in Byte(b)
      BY DivSplit DEF Byte
    <3>5. (x + f * d) % b \in Byte(b)
      BY <3>3, <3>4
    <3>. QED  BY <3>5 DEF x, d
  <2>2. n - kept \in Nat
    BY <1>2, <1>12
  <2>3. tail \in [1 .. n - kept -> Byte(b)]
    BY <2>1 DEF tail
  <2>. QED  BY <2>2, <2>3
<1>16. \A k \in 1 .. n - kept : tail[k] = (c[n - kept - k] + f * D[kept + k]) % b
  BY DEF tail
<1>17. /\ E \in Seq(Byte(b)) /\ Len(E) = n
       /\ \A k \in 1 .. kept : E[k] = D[k]
       /\ \A k \in 1 .. n - kept : E[kept + k] = tail[k]
  <2> DEFINE front == SubSeq(D, 1, kept)
  <2>1. /\ front \in Seq(Byte(b)) /\ Len(front) = kept
        /\ \A k \in 1 .. kept : D[k] = front[k]
    <3>1. kept \in 0 .. Len(D)
      BY <1>2, <1>12 DEF n
    <3>. QED  BY <3>1, PartsJoined DEF Joined
  <2>2. E \in Seq(Byte(b)) /\ Joined(E, front, tail)
    BY <1>15, <2>1, JoinedAre DEF E
  <2> HIDE DEF front
  <2>3. kept + (n - kept) = n
    BY <1>2, <1>12
  <2>4. Len(E) = n
    BY <1>15, <2>1, <2>2, <2>3 DEF Joined
  <2>5. \A k \in 1 .. kept : E[k] = D[k]
    BY <2>1, <2>2 DEF Joined
  <2>6. \A k \in 1 .. n - kept : E[kept + k] = tail[k]
    BY <1>15, <2>1, <2>2 DEF Joined
  <2>. QED  BY <2>2, <2>4, <2>5, <2>6
<1>18. \A i \in 1 .. n - kept : E[n + 1 - i] = (c[i - 1] + f * D[n + 1 - i]) % b
  <2>. TAKE i \in 1 .. n - kept
  <2> DEFINE k == n - kept + 1 - i
  <2>1. k \in 1 .. n - kept /\ kept + k = n + 1 - i /\ n - kept - k = i - 1
    BY <1>2, <1>12
  <2> HIDE DEF k
  <2>. QED  BY SMTT(30), <1>16, <1>17, <2>1
<1>20. \A k \in 1 .. kept : E[k] = 0
  <2>1. \A k \in 1 .. kept : k \in 1 .. stop
    BY <1>2, <1>12
  <2>. QED  BY <1>17, <2>1
<1>19. ValueIn(b, E) = total
  <2>1. E \in Seq(Int) /\ E \in Seq(Nat)
    <3>1. E \in Seq(Int) /\ \A k \in 1 .. Len(E) : E[k] \in 0 .. b - 1
      BY <1>2, <1>17, BytesInt
    <3>2. E \in [1 .. n -> Nat]
      BY <1>17, <3>1
    <3>. QED  BY SMTT(30), <1>2, <3>1, <3>2
  <2>2. PICK w : EndRun(b, w, E)
    BY <2>1, EndRuns
  <2> DEFINE m == n - kept
  <2>3. w[m] + c[m] * Power(b, m) = f * u[m] + byte
    <3>1. m \in 0 .. Len(D) /\ Len(E) = Len(D) /\ m \in 0 .. m
      BY <1>2, <1>12, <1>17 DEF n
    <3>2. Rewritten(E, D, c, f, b, m)
      BY <1>18 DEF n, Rewritten
    <3> HIDE DEF m
    <3>3. \A j \in 0 .. m : w[j] + c[j] * Power(b, j) = f * u[j] + byte
      <4>1. Carrying(f, b, byte, D, E, c, u, w, m)
        BY <1>2, <1>3, <1>5, <2>1, <2>2, <3>1, <3>2 DEF Carrying
      <4>. QED  BY <4>1, CarriedSum
    <3>. QED  BY <3>1, <3>3
  <2>4. u[m] = u[n]
    BY <1>9, <1>12, <1>2
  <2>5. w[Len(E)] = w[Len(E) - kept]
    <3>1. kept \in 0 .. Len(E)
      BY <1>2, <1>12, <1>17
    <3>. QED  BY <1>20, <2>1, <2>2, <3>1, EndRunZeros
  <2>6. ValueIn(b, E) = w[n]
    BY <1>17, <2>1, <2>2, EndRunIs
  <2>7. w[n] = w[m] /\ w[m] \in Nat
    <3>1. m \in 0 .. Len(E)
      BY <1>2, <1>12, <1>17
    <3>. QED  BY <1>17, <2>1, <2>2, <2>5, <3>1, EndRunNat
  <2>8. m \in Nat /\ Power(b, m) \in Nat
    <3>1. m \in Nat
      BY <1>2, <1>12
    <3>. QED  BY <3>1, PowersPositive
  <2> HIDE DEF m
  <2> DEFINE x == w[m]
             p == Power(b, m)
  <2>9. x \in Nat /\ p \in Nat /\ x + 0 * p = total
    BY <1>7, <1>12, <2>3, <2>4, <2>7, <2>8 DEF m
  <2> HIDE DEF x, p
  <2>10. x = total
    BY <2>9
  <2>. QED  BY <2>6, <2>7, <2>10 DEF x
<1>21. Len(D) = n
  BY DEF n
<1> HIDE DEF n
<1>. QED  BY <1>12, <1>13, <1>14, <1>17, <1>19, <1>20, <1>21

---------------------------------------------------------------------------
(* Zeros in front.                                                          *)

\* LeadingZeros counts the zeros in front, and no more of them.
LEMMA LeadingZerosAre ==
  ASSUME NEW s \in Seq(Int)
  PROVE  /\ LeadingZeros(s) \in 0 .. Len(s) /\ \A k \in 1 .. LeadingZeros(s) : s[k] = 0
         /\ LeadingZeros(s) < Len(s) => s[LeadingZeros(s) + 1] # 0
<1> DEFINE n == Len(s)
           others == {k \in DOMAIN s : s[k] # 0}
<1>1. n \in Nat /\ DOMAIN s = 1 .. n
  BY LenProperties
<1>2. LeadingZeros(s) = IF others = {} THEN n ELSE Min(others) - 1
  BY DEF LeadingZeros
<1>3. others \in SUBSET Nat /\ \A k \in others : k \in 1 .. n /\ s[k] # 0
  BY <1>1
<1>4. \A k \in 1 .. n : k \notin others => s[k] = 0
  BY <1>1
<1> HIDE DEF others, n
<1>5. CASE others = {}
  <2>1. LeadingZeros(s) = n
    BY <1>2, <1>5
  <2>2. \A k \in 1 .. n : s[k] = 0
    BY <1>4, <1>5
  <2>3. n \in 0 .. n /\ ~(n < n)
    BY <1>1
  <2>. QED  BY <2>1, <2>2, <2>3 DEF n
<1>6. CASE others # {}
  <2> DEFINE m == Min(others)
  <2>1. m \in others /\ \A y \in others : m <= y
    <3>1. \E x \in others : \A y \in others : x <= y
      BY <1>3, <1>6, LeastNumber
    <3>. QED  BY <3>1, Zenon DEF Min
  <2>2. LeadingZeros(s) = m - 1
    BY <1>2, <1>6
  <2> HIDE DEF m
  <2>3. m \in 1 .. n /\ s[m] # 0
    BY <1>3, <2>1
  <2>4. \A k \in 1 .. m - 1 : k \in 1 .. n /\ k \in Nat /\ ~(m <= k)
    BY <1>1, <2>3
  <2>5. \A k \in 1 .. m - 1 : s[k] = 0
    BY <1>4, <2>1, <2>4
  <2>6. m - 1 \in 0 .. n /\ (m - 1) + 1 = m
    BY <1>1, <2>3
  <2>. QED  BY <2>2, <2>3, <2>5, <2>6 DEF n
<1>. QED  BY <1>5, <1>6

\* Without a zero in front.
Bare(t) == Len(t) > 0 => t[1] # 0

\* Without its zeros a text shows the same number.
LEMMA Stripped ==
  ASSUME NEW b \in Nat \ {0}, NEW s \in Seq(Byte(b)),
         NEW t, t = SubSeq(s, LeadingZeros(s) + 1, Len(s))
  PROVE  /\ t \in Seq(Byte(b)) /\ Len(t) = Len(s) - LeadingZeros(s) /\ Bare(t)
         /\ ValueIn(b, t) = ValueIn(b, s)
         /\ \E front \in Seq(Byte(b)) :
              /\ Joined(s, front, t) /\ Len(front) = LeadingZeros(s)
              /\ \A k \in 1 .. Len(front) : front[k] = 0
<1> DEFINE z == LeadingZeros(s)
           front == SubSeq(s, 1, z)
           n == Len(s)
<1>1. b \in Int /\ s \in Seq(Int) /\ n \in Nat
  BY BytesInt
<1>2. z \in 0 .. n /\ (\A k \in 1 .. z : s[k] = 0) /\ (z < n => s[z + 1] # 0)
  BY <1>1, LeadingZerosAre
<1>3. t = SubSeq(s, z + 1, n)
  OBVIOUS
<1> HIDE DEF z
<1>4. /\ front \in Seq(Byte(b)) /\ Len(front) = z /\ t \in Seq(Byte(b))
      /\ Len(t) = n - z /\ Joined(s, front, t)
  <2> DEFINE u == SubSeq(s, z + 1, n)
  <2>1. z \in 0 .. Len(s)
    BY <1>2
  <2>2. /\ front \in Seq(Byte(b)) /\ Len(front) = z /\ u \in Seq(Byte(b))
        /\ Len(u) = n - z /\ Joined(s, front, u)
    BY <2>1, PartsJoined
  <2>3. t = u
    BY <1>3
  <2> HIDE DEF u, front, n
  <2>. QED  BY <2>2, <2>3
<1> HIDE DEF front
<1>5. \A k \in 1 .. Len(front) : front[k] = 0
  BY <1>2, <1>4 DEF Joined
<1>6. Bare(t)
  <2>1. SUFFICES ASSUME Len(t) > 0  PROVE t[1] # 0
    BY DEF Bare
  <2>2. z < n /\ 1 \in 1 .. Len(t)
    <3> DEFINE l == Len(t)
    <3> HIDE DEF n
    <3>1. l > 0 /\ n \in Nat /\ z \in Nat /\ l = n - z
      BY <1>1, <1>2, <1>4, <2>1
    <3> HIDE DEF l
    <3>2. z < n /\ 1 \in 1 .. l
      BY <3>1
    <3>. QED  BY <3>2 DEF l
  <2>3. t[1] = s[z + 1]
    BY <1>4, <2>2 DEF Joined
  <2>. QED  BY <1>2, <2>2, <2>3
<1>7. ValueIn(b, t) = ValueIn(b, s)
  <2>1. front \in Seq(Int) /\ t \in Seq(Int)
    BY <1>1, <1>4, BytesInt
  <2>2. ValueIn(b, s) = ValueIn(b, front) * Power(b, Len(t)) + ValueIn(b, t)
    BY ZenonT(60), <1>1, <1>4, <2>1, ValueJoined
  <2>3. ValueIn(b, front) = 0
    BY <1>1, <1>5, <2>1, ValueZeros
  <2> DEFINE p == Power(b, Len(t))
             v == ValueIn(b, t)
  <2>4. p \in Int /\ v \in Int
    <3>1. Len(t) \in Nat
      BY <1>4
    <3>2. v \in Int
      BY <1>1, <2>1, ValueInt
    <3>. QED  BY <1>1, <3>1, <3>2, Powers
  <2> HIDE DEF p, v
  <2>5. 0 * p + v = v
    BY <2>4
  <2>. QED  BY <2>2, <2>3, <2>5 DEF p, v
<1> HIDE DEF n
<1>8. Len(t) = Len(s) - LeadingZeros(s)
  BY <1>4 DEF z, n
<1>. QED  BY <1>4, <1>5, <1>6, <1>7, <1>8 DEF z

\* The length of digits is that of their number.
LEMMA ValueLeast ==
  ASSUME NEW b \in Nat \ {0}, NEW t \in Seq(Byte(b)), Bare(t), Len(t) > 0
  PROVE  Power(b, Len(t) - 1) <= ValueIn(b, t)
<1> DEFINE m == Len(t)
           i == m - 1
           s == SubSeq(t, 1, 1)
           u == SubSeq(t, 1 + 1, m)
<1>1. b \in Int /\ t \in Seq(Int) /\ m \in Nat /\ \A k \in 1 .. m : t[k] \in 0 .. b - 1
  BY BytesInt
<1>2. /\ s \in Seq(Byte(b)) /\ Len(s) = 1 /\ u \in Seq(Byte(b))
      /\ Len(u) = i /\ Joined(t, s, u)
  <2>1. 1 \in 0 .. Len(t)
    BY <1>1
  <2>. QED  BY ZenonT(60), <2>1, PartsJoined
<1> HIDE DEF s, u
<1>3. s = <<t[1]>> /\ t[1] \in Nat \ {0}
  <2>1. s[1] = t[1] /\ t[1] # 0
    BY <1>2 DEF Joined, Bare
  <2>2. t[1] \in 0 .. b - 1
    BY <1>1
  <2>3. s \in [1 .. 1 -> Byte(b)]
    BY <1>2, LenProperties
  <2>4. s = <<s[1]>>
    BY <2>3
  <2>. QED  BY <2>1, <2>2, <2>4
<1>4. ValueIn(b, t) = t[1] * Power(b, i) + ValueIn(b, u)
  <2>1. s \in Seq(Int) /\ u \in Seq(Int)
    BY <1>1, <1>2, BytesInt
  <2>2. ValueIn(b, t) = ValueIn(b, s) * Power(b, Len(u)) + ValueIn(b, u)
    BY <1>1, <1>2, <2>1, ValueJoined
  <2>3. t[1] \in Int
    BY <1>3
  <2>4. ValueIn(b, s) = t[1]
    BY <1>1, <1>3, <2>3, ValueOne
  <2>. QED  BY <1>2, <2>2, <2>4
<1>5. ValueIn(b, u) \in Nat
  BY <1>2, ValueRange
<1>6. i \in Nat
  BY <1>1
<1>7. Power(b, i) \in Nat
  BY <1>6, PowersPositive
<1> DEFINE p == Power(b, i)
           d == t[1]
           v == ValueIn(b, u)
<1>8. d \in Nat \ {0} /\ p \in Nat /\ v \in Nat
  BY <1>3, <1>5, <1>7
<1> HIDE DEF i, p, d, v
<1>9. p <= d * p + v
  <2>1. d - 1 \in Nat
    BY <1>8
  <2>2. (d - 1) * p >= 0 /\ (d - 1) * p = d * p - p /\ d * p \in Int
    BY <1>8, <2>1
  <2>. QED  BY <1>8, <2>2
<1>. QED  BY <1>4, <1>9 DEF p, d, v, i

\* No text of a number is shorter than the one without zeros.
LEMMA BareLength ==
  ASSUME NEW b \in Nat \ {0}, NEW s \in Seq(Byte(b)), NEW t \in Seq(Byte(b)),
         Bare(t), ValueIn(b, s) = ValueIn(b, t)
  PROVE  Len(t) <= Len(s)
<1> DEFINE m == Len(s)
           n == Len(t)
<1>1. m \in Nat /\ n \in Nat
  BY BytesInt
<1>2. SUFFICES ASSUME n > m  PROVE FALSE
  BY <1>1
<1> DEFINE i == n - 1
<1>3. i \in Nat /\ m <= i /\ n > 0
  BY <1>1, <1>2
<1>4. Power(b, i) <= ValueIn(b, t)
  BY <1>3, ValueLeast
<1>5. ValueIn(b, s) \in Nat /\ ValueIn(b, s) < Power(b, m)
  BY ValueRange
<1> HIDE DEF i, m, n
<1>6. Power(b, m) <= Power(b, i)
  BY <1>1, <1>3, PowersGrow
<1>7. Power(b, m) \in Nat /\ Power(b, i) \in Nat
  BY <1>1, <1>3, PowersPositive
<1>. QED  BY <1>4, <1>5, <1>6, <1>7

\* A number has one text without a zero in front.
LEMMA BareUnique ==
  ASSUME NEW b \in Nat \ {0}, NEW s \in Seq(Byte(b)), NEW t \in Seq(Byte(b)),
         Bare(s), Bare(t), ValueIn(b, s) = ValueIn(b, t)
  PROVE  s = t
<1> DEFINE n == Len(s)
<1>1. /\ b \in Int /\ s \in Seq(Int) /\ n \in Nat /\ t \in Seq(Int)
      /\ \A k \in 1 .. n : s[k] \in 0 .. b - 1
      /\ \A k \in 1 .. Len(t) : t[k] \in 0 .. b - 1
  BY BytesInt
<1>2. Len(t) = n
  <2>1. Len(t) <= Len(s) /\ Len(s) <= Len(t)
    BY BareLength
  <2>2. Len(t) \in Nat
    OBVIOUS
  <2>. QED  BY <1>1, <2>1, <2>2
<1>3. PICK v \in [0 .. n -> Int] : ValueRun(b, v, s) /\ ValueIn(b, s) = v[n]
  BY <1>1, ValueIs
<1>4. PICK w \in [0 .. n -> Int] : ValueRun(b, w, t) /\ ValueIn(b, t) = w[n]
  BY <1>1, <1>2, ValueIs
<1>5. \A k \in 1 .. n : v[k] = b * v[k - 1] + s[k] /\ w[k] = b * w[k - 1] + t[k]
  BY <1>2, <1>3, <1>4 DEF ValueRun, UpTo
<1>6. v[n] = w[n] /\ \A k \in 1 .. n : t[k] \in 0 .. b - 1
  BY <1>1, <1>2, <1>3, <1>4
<1>7. s \in [1 .. n -> Int] /\ t \in [1 .. n -> Int]
  BY <1>1, <1>2
<1> HIDE DEF n
<1>8. ASSUME NEW k \in 1 .. n, v[k] = w[k]
      PROVE  v[k - 1] = w[k - 1] /\ s[k] = t[k]
  <2> DEFINE x == v[k - 1]
             y == w[k - 1]
             d == s[k]
             e == t[k]
  <2>1. k - 1 \in 0 .. n
    BY <1>1
  <2>2. x \in Int /\ y \in Int /\ d \in 0 .. b - 1 /\ e \in 0 .. b - 1 /\ b * x + d = b * y + e
    BY <1>1, <1>3, <1>4, <1>5, <1>6, <1>8, <2>1
  <2> HIDE DEF x, y, d, e
  <2>3. /\ x < y => b * x + b <= b * y
        /\ y < x => b * y + b <= b * x
        /\ b * x \in Int /\ b * y \in Int
    BY <2>2, Products
  <2>4. x = y
    BY <2>2, <2>3
  <2>5. d = e
    BY <2>2, <2>3, <2>4
  <2>. QED  BY <2>4, <2>5 DEF x, y, d, e
<1> DEFINE T == {j \in Nat : j <= n => v[n - j] = w[n - j]}
<1>9. 0 \in T
  <2>1. n - 0 = n
    BY <1>1
  <2>. QED  BY <1>6, <2>1
<1>10. ASSUME NEW j \in T  PROVE j + 1 \in T
  <2>1. j \in Nat /\ j + 1 \in Nat
    OBVIOUS
  <2>2. ASSUME j + 1 <= n  PROVE v[n - (j + 1)] = w[n - (j + 1)]
    <3> DEFINE k == n - j
    <3>1. k \in 1 .. n /\ k - 1 = n - (j + 1) /\ j <= n
      BY <1>1, <2>1, <2>2
    <3>2. v[k] = w[k]
      BY <2>1, <3>1
    <3> HIDE DEF k, T
    <3>3. v[k - 1] = w[k - 1]
      BY <1>8, <3>1, <3>2
    <3>. QED  BY <3>1, <3>3
  <2>. QED  BY <2>1, <2>2
<1>11. T \in SUBSET Nat
  OBVIOUS
<1>12. T = Nat
  <2> HIDE DEF T
  <2>. QED  BY <1>9, <1>10, <1>11, Induction
<1>13. ASSUME NEW k \in 1 .. n  PROVE s[k] = t[k]
  <2> DEFINE j == n - k
  <2>1. j \in Nat /\ j <= n /\ n - j = k
    BY <1>1
  <2> HIDE DEF j
  <2>2. v[n - j] = w[n - j]
    <3>1. j \in T
      <4> HIDE DEF T
      <4>. QED  BY <1>12, <2>1
    <3>. QED  BY <2>1, <3>1
  <2>. QED  BY <1>8, <2>1, <2>2
<1> HIDE DEF T
<1>14. s = [k \in 1 .. n |-> s[k]] /\ t = [k \in 1 .. n |-> t[k]]
  BY <1>7
<1>. QED  BY <1>13, <1>14

\* The front that is kept and the rest that is the same.
LEMMA JoinedUnique ==
  ASSUME NEW S, NEW u \in Seq(S), NEW v \in Seq(S), NEW s, NEW t, Joined(u, s, t), Joined(v, s, t),
         Len(s) \in Nat, Len(t) \in Nat
  PROVE  u = v
<1> DEFINE m == Len(s)
           n == Len(t)
<1>1. m \in Nat /\ n \in Nat
  OBVIOUS
<1>2. /\ Len(u) = m + n /\ Len(v) = m + n
      /\ \A i \in 1 .. m : u[i] = s[i] /\ v[i] = s[i]
      /\ \A j \in 1 .. n : u[m + j] = t[j] /\ v[m + j] = t[j]
  BY DEF Joined
<1> HIDE DEF m, n
<1>3. ASSUME NEW k \in 1 .. m + n  PROVE u[k] = v[k]
  <2>1. CASE k <= m
    <3>1. k \in 1 .. m
      BY <1>1, <2>1
    <3>. QED  BY <1>2, <3>1
  <2>2. CASE ~(k <= m)
    <3> DEFINE j == k - m
    <3>1. j \in 1 .. n /\ m + j = k
      BY <1>1, <2>2
    <3> HIDE DEF j
    <3>. QED  BY <1>2, <3>1
  <2>. QED  BY <2>1, <2>2
<1>4. u \in [1 .. m + n -> S] /\ v \in [1 .. m + n -> S]
  BY <1>2, LenProperties
<1>5. u = [k \in 1 .. m + n |-> u[k]] /\ v = [k \in 1 .. m + n |-> v[k]]
  BY <1>4
<1>. QED  BY <1>3, <1>5

\* The powers of a base grow ...
LEMMA PowersStrict ==
  ASSUME NEW b \in Nat \ {0, 1}, NEW m \in Nat, NEW n \in Nat, m < n
  PROVE  Power(b, m) < Power(b, n)
<1> DEFINE p == Power(b, m)
           q == Power(b, n)
<1>1. b \in Nat \ {0} /\ b \in Int /\ m + 1 \in Nat /\ m + 1 <= n
  OBVIOUS
<1>2. p \in Nat \ {0} /\ Power(b, m + 1) = b * p
  BY <1>1, Powers, PowersPositive
<1>3. Power(b, m + 1) <= q
  BY <1>1, PowersGrow
<1>4. q \in Nat
  BY <1>1, PowersPositive
<1> HIDE DEF p, q
<1>5. p < b * p /\ b * p \in Nat
  <2>1. b - 2 \in Nat
    OBVIOUS
  <2>2. (b - 2) * p >= 0 /\ (b - 2) * p = b * p - 2 * p /\ b * p \in Nat
    BY <1>2, <2>1
  <2>. QED  BY <1>2, <2>2
<1>6. p < q
  BY <1>2, <1>3, <1>4, <1>5
<1>. QED  BY <1>6 DEF p, q

\* ... and so do those of greater bases.
LEMMA BasesGrow ==
  ASSUME NEW a \in Nat \ {0}, NEW b \in Nat \ {0}, a <= b
  PROVE  \A n \in Nat : Power(a, n) <= Power(b, n)
<1> DEFINE T == {n \in Nat : Power(a, n) <= Power(b, n)}
<1>1. a \in Int /\ b \in Int
  OBVIOUS
<1>2. 0 \in T
  <2>1. Power(a, 0) = 1 /\ Power(b, 0) = 1
    BY <1>1, Powers
  <2>. QED  BY <2>1
<1>3. ASSUME NEW n \in T  PROVE n + 1 \in T
  <2> DEFINE p == Power(a, n)
             q == Power(b, n)
  <2>1. n \in Nat /\ n + 1 \in Nat /\ p <= q
    OBVIOUS
  <2> HIDE DEF T
  <2>2. p \in Nat /\ q \in Nat /\ Power(a, n + 1) = a * p /\ Power(b, n + 1) = b * q
    BY <1>1, <2>1, Powers, PowersPositive
  <2> HIDE DEF p, q
  <2>3. a * p <= b * q
    <3>1. b - a \in Nat /\ q - p \in Nat
      BY <2>1, <2>2
    <3>2. (b - a) * p >= 0 /\ b * (q - p) >= 0
      BY <2>2, <3>1
    <3>3. (b - a) * p = b * p - a * p /\ b * (q - p) = b * q - b * p
      BY <1>1, <2>2
    <3>4. a * p \in Int /\ b * p \in Int /\ b * q \in Int
      BY <1>1, <2>2
    <3>. QED  BY <3>2, <3>3, <3>4
  <2>. QED  BY <2>1, <2>2, <2>3 DEF T
<1>4. T \in SUBSET Nat
  OBVIOUS
<1> HIDE DEF T
<1>5. T = Nat
  BY <1>2, <1>3, <1>4, Induction
<1>. QED  BY <1>5 DEF T

\* The room grows with every digit.
LEMMA RoomGrows ==
  ASSUME NEW num \in Nat, NEW den \in Nat \ {0}, den <= num, NEW k \in Nat, NEW n \in Nat, k < n
  PROVE  (k * num) \div den + 1 <= (n * num) \div den
<1> DEFINE x == k * num
           y == n * num
           q == x \div den
           r == x % den
           u == y \div den
           t == y % den
<1>1. x \in Nat /\ y \in Nat
  BY Products
<1>2. x + num <= y
  <2>1. num * k + num <= num * n
    BY Products
  <2>2. num * k = x /\ num * n = y
    OBVIOUS
  <2>. QED  BY <2>1, <2>2
<1> HIDE DEF x, y
<1>3. /\ q \in Nat /\ r \in 0 .. den - 1 /\ x = den * q + r
      /\ u \in Nat /\ t \in 0 .. den - 1 /\ y = den * u + t
  BY <1>1, DivSplit
<1> HIDE DEF q, r, u, t
<1>4. /\ u < q + 1 => den * u + den <= den * (q + 1)
      /\ den * (q + 1) = den * q + den /\ den * u \in Int /\ den * q \in Int
  BY <1>3, Products
<1>5. ~(u < q + 1)
  BY <1>1, <1>2, <1>3, <1>4
<1>6. q + 1 <= u
  BY <1>3, <1>5
<1>. QED  BY <1>6 DEF q, u, x, y

---------------------------------------------------------------------------
(* base58_encode, the loop.                                                 *)

\* A text of zeros.
LEMMA ZerosAre ==
  ASSUME NEW b \in Nat \ {0}, NEW n \in Nat, NEW s, s = [k \in 1 .. n |-> 0]
  PROVE  s \in Seq(Byte(b)) /\ Len(s) = n /\ \A k \in 1 .. n : s[k] = 0
<1> DEFINE B == Byte(b)
<1>1. 0 \in B
  BY DEF Byte
<1>2. s \in [1 .. n -> B]
  BY <1>1
<1> HIDE DEF B
<1>3. s \in Seq(B) /\ Len(s) = n
  BY <1>2
<1>. QED  BY <1>3 DEF B

\* The number in the buffer, in as many digits as there is room for.
Holds(x, b, size, room, value) ==
  /\ x \in [buffer : Seq(Byte(b)), stop : Nat]
  /\ Len(x.buffer) = size /\ x.stop \in 0 .. size - 1 /\ size - x.stop <= room
  /\ \A k \in 1 .. x.stop : x.buffer[k] = 0
  /\ ValueIn(b, x.buffer) = value

\* A byte more: the buffer shows f times the number it showed, and the byte.
LEMMA HoldsNext ==
  ASSUME NEW code, NEW f \in Nat, NEW b \in Nat \ {0}, code.from = f, code.to = b,
         NEW size \in Nat, NEW m \in Nat, NEW m2 \in Nat, m + 1 <= m2, m2 <= size,
         NEW x, NEW value \in Nat, Holds(x, b, size, m, value), NEW byte \in Nat,
         NEW total \in Nat, total = f * value + byte, total < Power(b, m2)
  PROVE  Holds(AddByte(code, x.buffer, byte, x.stop), b, size, m2, total)
<1> DEFINE D == x.buffer
           stop == x.stop
<1>1. /\ D \in Seq(Byte(b)) /\ Len(D) = size /\ stop \in 0 .. size - 1 /\ size - stop <= m
      /\ \A k \in 1 .. stop : D[k] = 0
      /\ ValueIn(b, D) = value
  BY DEF Holds
<1> HIDE DEF D, stop
<1>2. Power(b, m2) \in Nat /\ Power(b, size) \in Nat /\ Power(b, m2) <= Power(b, size)
  BY PowersPositive, PowersGrow
<1>3. total < Power(b, size)
  BY <1>2
<1>4. stop \in 1 .. size - 1
  BY <1>1
<1>5. PICK E \in Seq(Byte(b)), next \in 0 .. stop - 1 :
        /\ AddByte(code, D, byte, stop) = [buffer |-> E, stop |-> next]
        /\ Len(E) = Len(D) /\ ValueIn(b, E) = total
        /\ \A k \in 1 .. next : E[k] = 0
        /\ next = stop - 1 \/ Power(b, Len(D) - next - 1) <= total
  <2>1. Addable(code, f, b, D, byte, stop, total)
    BY <1>1, <1>3, <1>4 DEF Addable
  <2>. QED  BY <2>1, AddByteIs
<1> DEFINE y == [buffer |-> E, stop |-> next]
<1>6. y.buffer = E /\ y.stop = next /\ y \in [buffer : Seq(Byte(b)), stop : Nat]
  <2>1. next \in Nat
    BY <1>4
  <2>. QED  BY <2>1
<1>7. size - next <= m2
  <2>1. CASE next = stop - 1
    BY <1>1, <1>4, <2>1
  <2>2. CASE Power(b, size - next - 1) <= total
    <3> DEFINE i == size - next - 1
    <3>1. i \in Nat /\ next \in Nat
      BY <1>1, <1>4
    <3>2. Power(b, i) \in Nat /\ Power(b, i) <= total
      BY <2>2, <3>1, PowersPositive
    <3>3. m2 <= i => Power(b, m2) <= Power(b, i)
      BY <3>1, PowersGrow
    <3> DEFINE p == Power(b, i)
               q == Power(b, m2)
    <3>4. p \in Nat /\ p <= total /\ q \in Nat /\ total < q /\ (m2 <= i => q <= p)
      BY <1>2, <3>2, <3>3
    <3> HIDE DEF p, q
    <3>5. ~(m2 <= i)
      BY <3>4
    <3>. QED  BY <3>1, <3>5
  <2>. QED  BY <1>1, <1>5, <2>1, <2>2
<1>8. next \in 0 .. size - 1
  BY <1>4
<1>9. Holds(y, b, size, m2, total)
  <2> HIDE DEF y
  <2>. QED  BY <1>1, <1>5, <1>6, <1>7, <1>8 DEF Holds
<1>. QED  BY <1>5, <1>9 DEF D, stop

\* What Encode computes of the bytes w behind z zeros.
Encoding(code, in, z, w, size, after) ==
  /\ z \in Nat /\ w \in Seq(Byte(code.from)) /\ Len(w) <= code.maxEnc
  /\ \A k \in 1 .. Len(w) : in[z + k] = w[k]
  /\ size = Size(code, Len(w))
  /\ after = CHOOSE x : x = [k \in 0 .. Len(w) |->
       IF k = 0 THEN [buffer |-> [i \in 1 .. size |-> 0], stop |-> size - 1]
       ELSE AddByte(code, x[k - 1].buffer, in[z + k], x[k - 1].stop)]

\* Behind the last byte the buffer shows the number of the input.
LEMMA HoldsLast ==
  ASSUME NEW code, Roomy(code), NEW in, NEW z, NEW w, NEW size, NEW after,
         Encoding(code, in, z, w, size, after)
  PROVE  Holds(after[Len(w)], code.to, size, size, ValueIn(code.from, w))
<1> DEFINE f == code.from
           b == code.to
           n == Len(w)
           zero == [buffer |-> [i \in 1 .. size |-> 0], stop |-> size - 1]
           S == [buffer : Seq(Byte(b)), stop : Nat]
           next(k, x) == AddByte(code, x.buffer, in[z + k], x.stop)
           step == [k \in Nat |-> [x \in S |-> IF next(k, x) \in S THEN next(k, x) ELSE x]]
<1>0. /\ z \in Nat /\ w \in Seq(Byte(code.from)) /\ Len(w) <= code.maxEnc
      /\ \A k \in 1 .. Len(w) : in[z + k] = w[k]
      /\ size = Size(code, Len(w))
      /\ after = CHOOSE x : x = [k \in 0 .. Len(w) |->
           IF k = 0 THEN [buffer |-> [i \in 1 .. size |-> 0], stop |-> size - 1]
           ELSE AddByte(code, x[k - 1].buffer, in[z + k], x[k - 1].stop)]
  BY DEF Encoding
<1> USE <1>0
<1>1. /\ b \in Nat \ {0, 1} /\ b \in Nat \ {0} /\ b \in Int
      /\ f \in Nat \ {0} /\ f \in Int /\ b <= f
      /\ \A k \in 0 .. code.maxEnc : Power(f, k) <= Power(b, Size(code, k))
  BY DEF Roomy
<1>2. n \in Nat /\ w \in Seq(Int) /\ \A k \in 1 .. n : w[k] \in Nat
  <2>1. w \in Seq(Int) /\ n \in Nat /\ \A k \in 1 .. n : w[k] \in 0 .. f - 1
    BY <1>1, BytesInt
  <2>. QED  BY <1>1, <2>1
<1>3. \A k \in Nat : Size(code, k) \in Nat \ {0}
  <2>. TAKE k \in Nat
  <2>1. code.num \in Nat /\ code.den \in Nat \ {0}
    BY DEF Roomy
  <2>2. k * code.num \in Nat
    BY <2>1
  <2>3. (k * code.num) \div code.den \in Nat
    BY <2>1, <2>2, DivSplit
  <2>. QED  BY <2>3 DEF Size
<1>4. \A k \in 1 .. n : Size(code, k - 1) + 1 <= Size(code, k) /\ Size(code, k) <= size
  <2>. TAKE k \in 1 .. n
  <2> DEFINE num == code.num
             den == code.den
             g(j) == (j * num) \div den
  <2>1. num \in Nat /\ den \in Nat \ {0} /\ den <= num
    BY DEF Roomy
  <2>2. \A j : Size(code, j) = g(j) + 1
    BY DEF Size
  <2>3. k - 1 \in Nat /\ k \in Nat /\ k - 1 < k
    BY <1>2
  <2> HIDE DEF num, den
  <2>4. g(k - 1) + 1 <= g(k)
    BY <2>1, <2>3, RoomGrows
  <2>5. k < n => g(k) + 1 <= g(n)
    BY <1>2, <2>1, <2>3, RoomGrows
  <2>6. size = Size(code, n)
    OBVIOUS
  <2> HIDE DEF g, n
  <2>7. g(k - 1) + 1 \in Nat /\ g(k) + 1 \in Nat /\ g(n) + 1 \in Nat
    BY <1>2, <1>3, <2>2, <2>3
  <2>8. k = n \/ k < n
    BY <1>2
  <2> DEFINE x == g(k - 1) + 1
             y == g(k) + 1
             v == g(n) + 1
  <2>9. x + 1 <= y /\ (k < n => y + 1 <= v) /\ (k = n => y = v) /\ x \in Nat /\ y \in Nat /\ v \in Nat
    <3>1. g(k) = (g(k) + 1) - 1 /\ g(n) = (g(n) + 1) - 1
      <4>1. \A j \in Nat : g(j) \in Int
        <5>. TAKE j \in Nat
        <5>1. j * num \in Nat
          BY <2>1
        <5>. QED  BY <2>1, <5>1, DivSplit DEF g
      <4>. QED  BY <1>2, <2>3, <4>1
    <3>. QED  BY <2>4, <2>5, <2>7, <3>1
  <2> HIDE DEF x, y, v
  <2>10. x + 1 <= y /\ y <= v
    BY <2>8, <2>9
  <2>. QED  BY <2>2, <2>6, <2>10 DEF x, y, v
<1>5. PICK v \in [0 .. n -> Int] : ValueRun(f, v, w) /\ ValueIn(f, w) = v[n]
  BY <1>1, <1>2, ValueIs
<1>6. v[0] = 0 /\ \A k \in 1 .. n : v[k] = f * v[k - 1] + w[k]
  BY <1>5 DEF ValueRun, UpTo
<1>7. \A k \in 0 .. n : v[k] \in Nat /\ v[k] < Power(f, k)
  <2>1. \A k \in 0 .. n : v[k] \in 0 .. Power(f, k) - 1
    BY <1>1, <1>5, RunRange
  <2>. TAKE k \in 0 .. n
  <2>2. k \in Nat
    BY <1>2
  <2>3. Power(f, k) \in Nat
    BY <1>1, <2>2, PowersPositive
  <2>. QED  BY <2>1, <2>3
<1>8. size \in Nat \ {0} /\ size = Size(code, n)
  BY <1>2, <1>3
<1>9. n <= code.maxEnc
  OBVIOUS
<1>10. \A k \in 1 .. n : in[z + k] = w[k]
  OBVIOUS
<1>11. after = CHOOSE x : x = [k \in 0 .. n |->
           IF k = 0 THEN zero
           ELSE AddByte(code, x[k - 1].buffer, in[z + k], x[k - 1].stop)]
  OBVIOUS
<1> HIDE DEF f, b, n
<1>12. Holds(zero, b, size, Size(code, 0), 0)
  <2> DEFINE D == [i \in 1 .. size |-> 0]
             stop == size - 1
  <2>1. size \in Nat /\ D = [k \in 1 .. size |-> 0]
    BY <1>8
  <2>2. D \in Seq(Byte(b)) /\ Len(D) = size
    <3> HIDE DEF D
    <3>. QED  BY <1>1, <2>1, ZerosAre
  <2>3. \A k \in 1 .. size : D[k] = 0
    OBVIOUS
  <2>4. stop \in 0 .. size - 1 /\ stop \in Nat /\ size - stop = 1 /\ \A k \in 1 .. stop : k \in 1 .. size
    BY <1>8
  <2>5. 1 <= Size(code, 0)
    BY <1>3
  <2> HIDE DEF D, stop
  <2>6. ValueIn(b, D) = 0
    <3>1. D \in Seq(Int)
      BY <1>1, <2>2, BytesInt
    <3>. QED  BY <1>1, <2>2, <2>3, <3>1, ValueZeros
  <2>7. zero = [buffer |-> D, stop |-> stop]
    BY DEF D, stop
  <2> HIDE DEF zero
  <2>8. zero \in S /\ zero.buffer = D /\ zero.stop = stop
    BY <2>2, <2>4, <2>7
  <2>. QED  BY <2>2, <2>3, <2>4, <2>5, <2>6, <2>8 DEF Holds
<1>13. PICK g \in [0 .. n -> S] : Follows(g, n, zero, step)
  <2>1. zero \in S
    BY <1>12 DEF Holds
  <2>2. step \in [Nat -> [S -> S]]
    <3> HIDE DEF S, next
    <3>. QED  OBVIOUS
  <2> HIDE DEF S, zero, step
  <2>. QED  BY <1>2, <2>1, <2>2, StepsExist
<1>14. g[0] = zero /\ \A k \in 1 .. n : next(k, g[k - 1]) \in S => g[k] = next(k, g[k - 1])
  <2> HIDE DEF zero, S, next
  <2>1. g[0] = zero
    <3>1. 0 \in 0 .. n
      BY <1>2
    <3>. QED  BY <1>13, <3>1, Zenon DEF Follows
  <2>2. ASSUME NEW k \in 1 .. n, next(k, g[k - 1]) \in S  PROVE g[k] = next(k, g[k - 1])
    <3>1. k \in 0 .. n /\ k # 0 /\ k \in Nat /\ k - 1 \in 0 .. n
      BY <1>2
    <3>2. g[k] = step[k][g[k - 1]] /\ g[k - 1] \in S
      BY <1>13, <3>1 DEF Follows
    <3>. QED  BY <2>2, <3>1, <3>2
  <2>. QED  BY <2>1, <2>2
<1> HIDE DEF step, zero
<1> DEFINE So(k) == Holds(g[k], b, size, Size(code, k), v[k])
           T == {k \in Nat : k <= n => So(k)}
<1>15. ASSUME NEW k \in 1 .. n, So(k - 1)  PROVE So(k) /\ g[k] = next(k, g[k - 1])
  <2> DEFINE x == g[k - 1]
             m == Size(code, k - 1)
             m2 == Size(code, k)
             value == v[k - 1]
             byte == in[z + k]
             total == v[k]
  <2>1. k - 1 \in Nat /\ k \in Nat /\ k - 1 \in 0 .. n /\ k \in 0 .. n /\ k \in 0 .. code.maxEnc
    <3>1. code.maxEnc \in Nat
      BY DEF Roomy
    <3>. QED  BY <1>2, <1>9, <3>1
  <2>2. m \in Nat /\ m2 \in Nat /\ m + 1 <= m2 /\ m2 <= size /\ size \in Nat
    BY <1>3, <1>4, <1>8, <2>1
  <2>3. value \in Nat /\ total \in Nat /\ total = f * value + byte /\ byte \in Nat
    BY <1>2, <1>6, <1>7, <1>10, <2>1
  <2>4. total < Power(b, m2)
    <3>1. total < Power(f, k) /\ Power(f, k) <= Power(b, m2)
      BY <1>1, <1>7, <2>1
    <3>2. Power(f, k) \in Nat /\ Power(b, m2) \in Nat
      BY <1>1, <2>1, <2>2, PowersPositive
    <3>. QED  BY <2>3, <3>1, <3>2
  <2>5. Holds(x, b, size, m, value)
    BY <1>15
  <2>6. code.from = f /\ code.to = b /\ f \in Nat
    BY <1>1 DEF f, b
  <2> HIDE DEF x, m, m2, value, byte, total
  <2>7. Holds(AddByte(code, x.buffer, byte, x.stop), b, size, m2, total)
    BY <1>1, <2>2, <2>3, <2>4, <2>5, <2>6, HoldsNext
  <2>8. next(k, x) = AddByte(code, x.buffer, byte, x.stop)
    BY DEF byte
  <2> HIDE DEF next
  <2>9. next(k, x) \in S
    BY <2>7, <2>8 DEF Holds
  <2> HIDE DEF S
  <2>10. g[k] = next(k, x)
    BY <1>14, <2>9 DEF x
  <2>. QED  BY <2>7, <2>8, <2>10 DEF x, m2, total
<1> HIDE DEF S, next
<1>16. 0 \in T
  BY <1>6, <1>12, <1>14
<1>17. ASSUME NEW k \in T  PROVE k + 1 \in T
  <2>1. k \in Nat /\ k + 1 \in Nat
    OBVIOUS
  <2>2. ASSUME k + 1 <= n  PROVE So(k + 1)
    <3>1. k <= n /\ k + 1 \in 1 .. n /\ (k + 1) - 1 = k
      BY <1>2, <2>1, <2>2
    <3>2. So(k)
      BY <2>1, <3>1
    <3> HIDE DEF So, T
    <3>. QED  BY <1>15, <3>1, <3>2
  <2> HIDE DEF So
  <2>. QED  BY <2>1, <2>2
<1>18. T \in SUBSET Nat
  OBVIOUS
<1>19. T = Nat
  <2> HIDE DEF T
  <2>. QED  BY <1>16, <1>17, <1>18, Induction
<1>20. \A k \in 0 .. n : So(k)
  <2>. TAKE k \in 0 .. n
  <2>1. k \in T /\ k <= n
    <3> HIDE DEF T
    <3>. QED  BY <1>2, <1>19
  <2> HIDE DEF So
  <2>. QED  BY <2>1
<1> HIDE DEF T
<1>21. \A k \in 1 .. n : g[k] = next(k, g[k - 1])
  <2>. TAKE k \in 1 .. n
  <2>1. k - 1 \in 0 .. n
    BY <1>2
  <2> HIDE DEF So
  <2>. QED  BY <1>15, <1>20, <2>1
<1>22. g = [k \in 0 .. n |-> IF k = 0 THEN zero ELSE next(k, g[k - 1])]
  <2>1. \A k \in 0 .. n : g[k] = IF k = 0 THEN zero ELSE next(k, g[k - 1])
    <3>1. \A k \in 0 .. n : k # 0 => k \in 1 .. n
      BY SMTT(30), <1>2
    <3>. QED  BY <1>14, <1>21, <3>1
  <2>. QED  BY <1>13, <2>1
<1>23. after = [k \in 0 .. n |-> IF k = 0 THEN zero ELSE next(k, after[k - 1])]
  <2>1. after = CHOOSE x : x = [k \in 0 .. n |->
                  IF k = 0 THEN zero ELSE next(k, x[k - 1])]
    BY <1>11 DEF next
  <2>. QED  BY <1>22, <2>1
<1>24. after[0] = zero /\ \A k \in 1 .. n : after[k] = next(k, after[k - 1])
  <2>1. 0 \in 0 .. n /\ \A k \in 1 .. n : k \in 0 .. n /\ k # 0
    BY <1>2
  <2>. QED  BY <1>23, <2>1
<1>25. after[n] = g[n]
  <2>1. Alike(after, g, n)
    BY <1>14, <1>21, <1>24 DEF Alike
  <2>2. \A k \in 0 .. n : after[k] = g[k]
    BY <1>2, <2>1, RunsAgree
  <2>3. n \in 0 .. n
    BY <1>2
  <2>. QED  BY <2>2, <2>3, Zenon
<1>26. So(n)
  <2>1. n \in 0 .. n
    BY <1>2
  <2> HIDE DEF So
  <2>. QED  BY <1>20, <2>1
<1>. QED  BY <1>5, <1>8, <1>25, <1>26 DEF f, b, n

\* Zeros in front of digits.
Zeroed(z, t) == [k \in 1 .. z |-> 0] \o t

\* They are the zeros in front of the text, and add nothing to its number.
LEMMA ZerosInFront ==
  ASSUME NEW b \in Nat \ {0}, NEW z \in Nat, NEW t \in Seq(Byte(b)), Bare(t)
  PROVE  /\ Zeroed(z, t) \in Seq(Byte(b)) /\ Len(Zeroed(z, t)) = z + Len(t)
         /\ LeadingZeros(Zeroed(z, t)) = z /\ ValueIn(b, Zeroed(z, t)) = ValueIn(b, t)
<1> DEFINE u == Zeroed(z, t)
           s == [k \in 1 .. z |-> 0]
           n == Len(t)
<1>1. /\ s \in Seq(Byte(b)) /\ Len(s) = z /\ \A k \in 1 .. z : s[k] = 0
  <2>1. s = [k \in 1 .. z |-> 0]
    OBVIOUS
  <2> HIDE DEF s
  <2>. QED  BY <2>1, ZerosAre
<1>2. u = s \o t
  BY DEF Zeroed
<1>3. b \in Int /\ n \in Nat /\ t \in Seq(Int) /\ s \in Seq(Int)
  <2> HIDE DEF s
  <2>. QED  BY <1>1, BytesInt
<1> HIDE DEF s, u
<1>4. u \in Seq(Byte(b)) /\ Joined(u, s, t)
  BY <1>1, <1>2, JoinedAre
<1>5. u \in Seq(Int) /\ Len(u) = z + n
  BY <1>1, <1>3, <1>4, BytesInt DEF Joined
<1>6. \A k \in 1 .. z : u[k] = 0
  BY <1>1, <1>4 DEF Joined
<1>7. n > 0 => u[z + 1] # 0
  <2>1. ASSUME n > 0  PROVE u[z + 1] # 0
    <3>1. 1 \in 1 .. n
      BY <1>3, <2>1
    <3>2. u[z + 1] = t[1]
      BY <1>1, <1>4, <3>1 DEF Joined
    <3>. QED  BY <2>1, <3>2 DEF Bare
  <2>. QED  BY <2>1
<1> DEFINE y == LeadingZeros(u)
           l == Len(u)
<1>8. y \in 0 .. l /\ (\A k \in 1 .. y : u[k] = 0) /\ (y < l => u[y + 1] # 0) /\ l = z + n
  BY <1>5, LeadingZerosAre
<1> HIDE DEF y, l, n
<1>9. y = z
  <2>1. CASE y < z
    <3>1. y + 1 \in 1 .. z /\ y < l
      BY <1>3, <1>8, <2>1
    <3>. QED  BY <1>6, <1>8, <3>1
  <2>2. CASE z < y
    <3>1. z + 1 \in 1 .. y /\ n > 0
      BY <1>3, <1>8, <2>2
    <3>. QED  BY <1>7, <1>8, <3>1
  <2>. QED  BY <1>8, <2>1, <2>2
<1>10. ValueIn(b, u) = ValueIn(b, t)
  <2>1. ValueIn(b, u) = ValueIn(b, s) * Power(b, Len(t)) + ValueIn(b, t)
    BY <1>3, <1>4, <1>5, ValueJoined
  <2>2. ValueIn(b, s) = 0
    BY <1>1, <1>3, ValueZeros
  <2> DEFINE p == Power(b, Len(t))
             v == ValueIn(b, t)
  <2>3. p \in Int /\ v \in Int
    <3>1. Len(t) \in Nat
      BY <1>3 DEF n
    <3>2. v \in Int
      BY <1>3, ValueInt
    <3>. QED  BY <1>3, <3>1, <3>2, Powers
  <2> HIDE DEF p, v
  <2>4. 0 * p + v = v
    BY <2>3
  <2>. QED  BY <2>1, <2>2, <2>4 DEF p, v
<1>. QED  BY <1>4, <1>8, <1>9, <1>10 DEF u, y, l, n

\* A number and its zeros have one text.
LEMMA TextUnique ==
  ASSUME NEW b \in Nat \ {0}, NEW s \in Seq(Byte(b)), NEW t \in Seq(Byte(b)),
         LeadingZeros(s) = LeadingZeros(t), ValueIn(b, s) = ValueIn(b, t)
  PROVE  s = t
<1> DEFINE u == SubSeq(s, LeadingZeros(s) + 1, Len(s))
           v == SubSeq(t, LeadingZeros(t) + 1, Len(t))
<1>1. /\ u \in Seq(Byte(b)) /\ Bare(u) /\ ValueIn(b, u) = ValueIn(b, s)
      /\ \E x \in Seq(Byte(b)) : /\ Joined(s, x, u) /\ Len(x) = LeadingZeros(s)
                                 /\ \A k \in 1 .. Len(x) : x[k] = 0
  BY Stripped
<1>2. /\ v \in Seq(Byte(b)) /\ Bare(v) /\ ValueIn(b, v) = ValueIn(b, t)
      /\ \E x \in Seq(Byte(b)) : /\ Joined(t, x, v) /\ Len(x) = LeadingZeros(t)
                                 /\ \A k \in 1 .. Len(x) : x[k] = 0
  BY ZenonT(60), Stripped
<1> HIDE DEF u, v
<1>3. u = v
  BY <1>1, <1>2, BareUnique
<1>4. PICK x \in Seq(Byte(b)) : /\ Joined(s, x, u) /\ Len(x) = LeadingZeros(s)
                                /\ \A k \in 1 .. Len(x) : x[k] = 0
  BY <1>1
<1>5. PICK y \in Seq(Byte(b)) : /\ Joined(t, y, v) /\ Len(y) = LeadingZeros(t)
                                /\ \A k \in 1 .. Len(y) : y[k] = 0
  BY <1>2
<1>6. x = y
  <2> DEFINE n == Len(x)
  <2>1. x \in [1 .. n -> Byte(b)] /\ y \in [1 .. n -> Byte(b)]
    BY <1>4, <1>5, LenProperties
  <2>2. \A k \in 1 .. n : x[k] = y[k]
    BY <1>4, <1>5
  <2> HIDE DEF n
  <2>3. x = [k \in 1 .. n |-> x[k]] /\ y = [k \in 1 .. n |-> y[k]]
    BY <2>1
  <2>. QED  BY <2>2, <2>3
<1>7. Len(x) \in Nat /\ Len(u) \in Nat
  BY <1>1, LenProperties
<1>. QED  BY <1>3, <1>4, <1>5, <1>6, <1>7, JoinedUnique

\* The text of a number in the second base is not longer than what Decode takes.
LEMMA TextFits ==
  ASSUME NEW b \in Nat \ {0, 1}, NEW f \in Nat, b <= f,
         NEW z \in Nat, NEW n \in Nat, NEW maxEnc \in Nat, NEW maxDec \in Nat,
         z + n <= maxEnc, Power(f, maxEnc) <= Power(b, maxDec),
         NEW t \in Seq(Byte(b)), Bare(t), ValueIn(b, t) < Power(f, n)
  PROVE  z + Len(t) <= maxDec
<1> DEFINE l == Len(t)
           v == ValueIn(b, t)
<1>1. l \in Nat /\ b \in Nat \ {0} /\ f \in Nat \ {0} /\ b \in Int /\ f \in Int
  OBVIOUS
<1>2. v \in Nat /\ (l > 0 => Power(b, l - 1) <= v)
  <2>1. v \in Nat
    BY <1>1, ValueRange
  <2>2. l > 0 => Power(b, l - 1) <= v
    BY <1>1, ValueLeast
  <2>. QED  BY <2>1, <2>2
<1> HIDE DEF l, v
<1>3. SUFFICES ASSUME z + l > maxDec  PROVE FALSE
  BY <1>1 DEF l
<1>4. Power(f, z + n) <= Power(f, maxEnc)
  <2>1. z + n \in Nat
    OBVIOUS
  <2>. QED  BY <1>1, <2>1, PowersGrow
<1> DEFINE g == Power(f, z)
           h == Power(f, n)
           c == Power(b, z)
<1>5. /\ g \in Nat \ {0} /\ h \in Nat \ {0} /\ c \in Nat \ {0} /\ c <= g
      /\ Power(f, z + n) = g * h /\ v < h
  <2>1. g \in Nat \ {0} /\ h \in Nat \ {0} /\ c \in Nat \ {0}
    BY <1>1, PowersPositive
  <2>2. c <= g
    BY <1>1, BasesGrow
  <2>3. Power(f, z + n) = g * h
    BY <1>1, PowerSum
  <2>. QED  BY <2>1, <2>2, <2>3 DEF v
<1>6. Power(f, maxEnc) \in Nat /\ Power(b, maxDec) \in Nat
  BY <1>1, PowersPositive
<1> HIDE DEF g, h, c
<1>7. CASE l = 0
  <2>1. Power(b, maxDec) < Power(b, z)
    <3>1. maxDec < z
      BY <1>3, <1>7
    <3>. QED  BY <3>1, PowersStrict
  <2>2. Power(b, z) = c
    BY DEF c
  <2>3. g <= g * h
    <3>1. h - 1 \in Nat
      BY <1>5
    <3>2. (h - 1) * g >= 0 /\ (h - 1) * g = g * h - g /\ g * h \in Int
      BY <1>5, <3>1
    <3>. QED  BY <1>5, <3>2
  <2> DEFINE x == g * h
             y == Power(b, maxDec)
             w == Power(f, maxEnc)
  <2>4. x \in Int /\ y \in Int /\ w \in Int /\ x <= w /\ w <= y /\ y < c /\ c <= g /\ g <= x
    <3>1. x \in Int
      BY <1>5
    <3>. QED  BY <1>4, <1>5, <1>6, <2>1, <2>2, <2>3, <3>1
  <2> HIDE DEF x, y, w
  <2>. QED  BY <1>5, <2>4
<1>8. CASE l > 0
  <2> DEFINE i == l - 1
             q == Power(b, i)
  <2>1. i \in Nat /\ maxDec <= z + i /\ z + i \in Nat
    BY <1>1, <1>3, <1>8
  <2>2. q <= v
    BY <1>2, <1>8
  <2> HIDE DEF i
  <2>3. Power(b, maxDec) <= Power(b, z + i)
    BY <1>1, <2>1, PowersGrow
  <2>4. Power(b, z + i) = c * q
    BY <1>1, <2>1, PowerSum DEF c
  <2>5. q \in Nat
    BY <1>1, <2>1, PowersPositive
  <2> HIDE DEF q
  <2>6. c * q < g * h
    <3>1. g - c \in Nat /\ h - q \in Nat \ {0}
      BY <1>2, <1>5, <2>2, <2>5
    <3>2. (g - c) * q >= 0 /\ g * (h - q) > 0
      <4> DEFINE d == g - c
                 e == h - q
      <4>1. d \in Nat /\ e \in Nat \ {0}
        BY <3>1
      <4> HIDE DEF d, e
      <4>2. d * q >= 0 /\ g * e > 0
        BY <1>5, <2>5, <4>1
      <4>. QED  BY <4>2 DEF d, e
    <3>3. (g - c) * q = g * q - c * q /\ g * (h - q) = g * h - g * q
      BY <1>5, <2>5
    <3>4. g * q \in Int /\ c * q \in Int /\ g * h \in Int
      BY <1>5, <2>5
    <3>. QED  BY <3>2, <3>3, <3>4
  <2> DEFINE x == g * h
             y == Power(b, maxDec)
             w == Power(f, maxEnc)
             s == c * q
  <2>7. x \in Int /\ y \in Int /\ w \in Int /\ s \in Int /\ x <= w /\ w <= y /\ y <= s /\ s < x
    <3>1. x \in Int /\ s \in Int
      BY <1>5, <2>5
    <3>. QED  BY <1>4, <1>5, <1>6, <2>3, <2>4, <2>6, <3>1
  <2> HIDE DEF x, y, w, s
  <2>. QED  BY <2>7
<1>. QED  BY <1>1, <1>7, <1>8

\* base58_encode: the same number behind as many zeros.
LEMMA EncodeIs ==
  ASSUME NEW code, Roomy(code), NEW in \in Seq(Byte(code.from)), Len(in) <= code.maxEnc
  PROVE  \E out \in Seq(Byte(code.to)) :
           /\ \A room \in Nat :
                Len(out) <= room => Encode(code, in, room) = [ok |-> TRUE, out |-> out]
           /\ Len(out) <= code.maxDec
           /\ LeadingZeros(out) = LeadingZeros(in)
           /\ ValueIn(code.to, out) = ValueIn(code.from, in)
<1> DEFINE f == code.from
           b == code.to
           z == LeadingZeros(in)
           n == Len(in) - z
           size == Size(code, n)
           after == CHOOSE after : after = [k \in 0 .. n |->
             IF k = 0 THEN [buffer |-> [i \in 1 .. size |-> 0], stop |-> size - 1]
             ELSE AddByte(code, after[k - 1].buffer, in[z + k], after[k - 1].stop)]
           buffer58 == after[n].buffer
           j == LeadingZeros(buffer58)
           t == SubSeq(buffer58, j + 1, size)
           out == [k \in 1 .. z |-> 0] \o t
           w == SubSeq(in, z + 1, Len(in))
<1>1. \A room : Encode(code, in, room) =
                   IF Len(in) > code.maxEnc \/ room < z + size - j THEN NoText
                   ELSE [ok |-> TRUE, out |-> out]
  BY DEF Encode
<1>2. /\ b \in Nat \ {0, 1} /\ b \in Nat \ {0} /\ f \in Nat \ {0} /\ b <= f
      /\ code.maxEnc \in Nat /\ code.maxDec \in Nat
      /\ Power(f, code.maxEnc) <= Power(b, code.maxDec)
  BY DEF Roomy
<1>3. in \in Seq(Byte(f)) /\ in \in Seq(Int) /\ Len(in) \in Nat
  <2>1. f \in Int
    BY <1>2
  <2>. QED  BY <2>1, BytesInt
<1>4. z \in 0 .. Len(in)
  BY <1>3, LeadingZerosAre
<1> HIDE DEF after, buffer58, j, t, out, w
<1>5. /\ w \in Seq(Byte(f)) /\ Len(w) = n /\ ValueIn(f, w) = ValueIn(f, in)
      /\ \A k \in 1 .. n : in[z + k] = w[k]
  <2>1. /\ w \in Seq(Byte(f)) /\ Len(w) = Len(in) - LeadingZeros(in)
        /\ ValueIn(f, w) = ValueIn(f, in)
        /\ \E front \in Seq(Byte(f)) :
              /\ Joined(in, front, w) /\ Len(front) = LeadingZeros(in)
              /\ \A k \in 1 .. Len(front) : front[k] = 0
    BY <1>2, <1>3, Stripped DEF w
  <2>. QED  BY <2>1 DEF Joined
<1>6. after = CHOOSE x : x = [k \in 0 .. Len(w) |->
             IF k = 0 THEN [buffer |-> [i \in 1 .. size |-> 0], stop |-> size - 1]
             ELSE AddByte(code, x[k - 1].buffer, in[z + k], x[k - 1].stop)]
  BY <1>5 DEF after
<1>7. n \in Nat /\ z \in Nat /\ z + n = Len(in) /\ n <= code.maxEnc
  BY <1>2, <1>3, <1>4
<1> HIDE DEF z, n
<1>8. size = Size(code, Len(w))
  BY <1>5
<1> HIDE DEF size, f, b
<1>9. Holds(after[Len(w)], b, size, size, ValueIn(f, w))
  <2>1. Encoding(code, in, z, w, size, after)
    BY <1>5, <1>6, <1>7, <1>8 DEF f, Encoding
  <2>2. Holds(after[Len(w)], code.to, size, size, ValueIn(code.from, w))
    BY <2>1, HoldsLast
  <2>. QED  BY <2>2 DEF f, b
<1>10. buffer58 \in Seq(Byte(b)) /\ Len(buffer58) = size /\ ValueIn(b, buffer58) = ValueIn(f, w)
  BY <1>5, <1>9 DEF Holds, buffer58
<1>11. t \in Seq(Byte(b)) /\ Len(t) = size - j /\ Bare(t) /\ ValueIn(b, t) = ValueIn(b, buffer58)
  <2>1. t = SubSeq(buffer58, LeadingZeros(buffer58) + 1, Len(buffer58))
    BY <1>10 DEF t, j
  <2>. QED  BY <1>2, <1>10, <2>1, Stripped DEF j
<1>12. /\ out \in Seq(Byte(b)) /\ Len(out) = z + Len(t)
       /\ LeadingZeros(out) = z /\ ValueIn(b, out) = ValueIn(b, t)
  <2>1. out = Zeroed(z, t)
    BY DEF out, Zeroed
  <2>. QED  BY <1>2, <1>7, <1>11, <2>1, ZerosInFront
<1>13. z + Len(t) <= code.maxDec
  <2>1. ValueIn(f, w) < Power(f, n)
    BY <1>2, <1>5, ValueRange
  <2>2. ValueIn(b, t) < Power(f, n)
    BY <1>10, <1>11, <2>1
  <2>3. z + n <= code.maxEnc /\ f \in Nat
    BY <1>2, <1>7
  <2>. QED  BY <1>2, <1>7, <1>11, <2>2, <2>3, TextFits
<1>14. ASSUME NEW room \in Nat, Len(out) <= room
       PROVE  ~(Len(in) > code.maxEnc \/ room < z + size - j)
  <2>1. size \in Nat /\ j \in Nat
    <3>1. buffer58 \in Seq(Int) /\ Len(buffer58) \in Nat
      BY <1>2, <1>10, BytesInt
    <3>2. j \in 0 .. Len(buffer58)
      BY <3>1, LeadingZerosAre DEF j
    <3>. QED  BY <1>10, <3>1, <3>2
  <2>2. z + size - j = z + Len(t)
    BY <1>7, <1>11, <2>1
  <2>3. Len(in) <= code.maxEnc
    OBVIOUS
  <2> DEFINE l == z + Len(t)
             m == Len(in)
  <2>4. l \in Nat /\ m \in Nat /\ l <= room /\ m <= code.maxEnc
    BY <1>3, <1>7, <1>11, <1>12, <1>14, <2>3, LenProperties
  <2> HIDE DEF l, m
  <2>5. ~(m > code.maxEnc) /\ ~(room < l)
    BY <1>2, <2>4
  <2>. QED  BY <2>2, <2>5 DEF l, m
<1>15. \A room \in Nat :
         Len(out) <= room => Encode(code, in, room) = [ok |-> TRUE, out |-> out]
  BY <1>1, <1>14
<1>16. Len(out) <= code.maxDec
  BY <1>12, <1>13
<1>17. LeadingZeros(out) = LeadingZeros(in) /\ ValueIn(b, out) = ValueIn(f, in)
  BY <1>5, <1>10, <1>11, <1>12 DEF z
<1>. QED  BY <1>12, <1>15, <1>16, <1>17 DEF f, b

---------------------------------------------------------------------------
(* base58_decode, a division.                                               *)

\* The remainders, and the digits of the quotient E.
DivideRun(r, f, b, tmp, E, k) ==
  /\ r \in [0 .. Len(tmp) -> Nat] /\ \A i \in 0 .. k - 1 : r[i] = 0
  /\ \A i \in 1 .. k - 1 : E[i] = tmp[i]
  /\ \A i \in k .. Len(tmp) :
       E[i] = (r[i - 1] * b + tmp[i]) \div f /\ r[i] = (r[i - 1] * b + tmp[i]) % f

Remains(rem, f, b, tmp, k) ==
  rem = CHOOSE x : x = [i \in k - 1 .. Len(tmp) |->
          IF i = k - 1 THEN 0 ELSE (x[i - 1] * b + tmp[i]) % f]

Remainders(r, rem, f, b, tmp, k) ==
  /\ r \in [0 .. Len(tmp) -> Nat] /\ \A i \in 0 .. k - 1 : r[i] = 0
  /\ \A i \in k .. Len(tmp) : r[i] = (r[i - 1] * b + tmp[i]) % f
  /\ \A i \in k - 1 .. Len(tmp) : rem[i] = r[i]

\* The remainders that DivideFrom computes are those of such a run.
LEMMA RemainderRuns ==
  ASSUME NEW f \in Nat \ {0}, NEW b \in Nat, NEW tmp \in Seq(Nat), NEW k \in 1 .. Len(tmp),
         NEW rem, Remains(rem, f, b, tmp, k)
  PROVE  \E r : Remainders(r, rem, f, b, tmp, k)
<1> DEFINE n == Len(tmp)
           step == [i \in Nat |-> [x \in Nat |-> IF i \in k .. n THEN (x * b + tmp[i]) % f ELSE 0]]
<1>1. n \in Nat /\ k \in 1 .. n /\ \A i \in 1 .. n : tmp[i] \in Nat
  OBVIOUS
<1>2. rem = CHOOSE x : x = [i \in k - 1 .. n |->
              IF i = k - 1 THEN 0 ELSE (x[i - 1] * b + tmp[i]) % f]
  BY DEF Remains
<1> HIDE DEF n
<1>3. ASSUME NEW i \in k .. n, NEW x \in Nat  PROVE (x * b + tmp[i]) % f \in Nat
  <2> DEFINE d == tmp[i]
  <2>1. d \in Nat
    BY <1>1
  <2> HIDE DEF d
  <2>2. x * b + d \in Nat
    BY <2>1
  <2>3. \A y \in Nat : y % f \in Nat
    BY DivSplit
  <2>4. (x * b + d) % f \in Nat
    BY <2>2, <2>3
  <2>. QED  BY <2>4 DEF d
<1>4. step \in [Nat -> [Nat -> Nat]]
  BY <1>3
<1>5. /\ \A i \in k .. n, x \in Nat : step[i][x] = (x * b + tmp[i]) % f
      /\ \A i \in 0 .. k - 1, x \in Nat : step[i][x] = 0
  BY <1>1
<1> HIDE DEF step
<1>6. PICK r \in [0 .. n -> Nat] : Follows(r, n, 0, step)
  <2> DEFINE S == Nat
             a == 0
  <2>1. a \in S /\ step \in [Nat -> [S -> S]]
    BY <1>4, Zenon
  <2> HIDE DEF S, a
  <2>2. \E r \in [0 .. n -> S] : Follows(r, n, a, step)
    BY <1>1, <2>1, StepsExist
  <2>. QED  BY <2>2 DEF S, a
<1>7. \A i \in 0 .. k - 1 : r[i] = 0
  <2>. TAKE i \in 0 .. k - 1
  <2>1. CASE i = 0
    BY <1>1, <1>6, <2>1 DEF Follows
  <2>2. CASE i # 0
    <3>1. i \in 0 .. n /\ i - 1 \in 0 .. n /\ r[i - 1] \in Nat
      BY <1>1, <2>2
    <3>2. r[i] = step[i][r[i - 1]]
      BY <1>6, <2>2, <3>1 DEF Follows
    <3>. QED  BY <1>5, <3>1, <3>2
  <2>. QED  BY <2>1, <2>2
<1>8. \A i \in k .. n : r[i] = (r[i - 1] * b + tmp[i]) % f
  <2>. TAKE i \in k .. n
  <2>1. i \in 0 .. n /\ i # 0 /\ i - 1 \in 0 .. n /\ r[i - 1] \in Nat
    BY <1>1
  <2>2. r[i] = step[i][r[i - 1]]
    BY <1>6, <2>1 DEF Follows
  <2>. QED  BY <1>5, <2>1, <2>2
<1> DEFINE q == [i \in k - 1 .. n |-> r[i]]
<1>9. q = [i \in k - 1 .. n |-> IF i = k - 1 THEN 0 ELSE (q[i - 1] * b + tmp[i]) % f]
  <2>1. \A i \in k - 1 .. n : q[i] = IF i = k - 1 THEN 0 ELSE (q[i - 1] * b + tmp[i]) % f
    <3>. TAKE i \in k - 1 .. n
    <3>1. CASE i = k - 1
      <4>1. i \in 0 .. k - 1 /\ q[i] = r[i]
        BY <1>1, <3>1
      <4> HIDE DEF q
      <4>. QED  BY <1>7, <3>1, <4>1
    <3>2. CASE i # k - 1
      <4>1. i \in k .. n /\ i - 1 \in k - 1 .. n /\ q[i] = r[i]
        BY <1>1, <3>2
      <4>2. q[i - 1] = r[i - 1]
        BY SMTT(30), <4>1
      <4> HIDE DEF q
      <4>. QED  BY <1>8, <3>2, <4>1, <4>2
    <3>. QED  BY <3>1, <3>2
  <2>. QED  BY <2>1
<1>10. rem = [i \in k - 1 .. n |-> IF i = k - 1 THEN 0 ELSE (rem[i - 1] * b + tmp[i]) % f]
  <2> HIDE DEF q
  <2>. QED  BY <1>2, <1>9
<1> DEFINE m == n - (k - 1)
           v == [i \in 0 .. m |-> rem[(k - 1) + i]]
           w == [i \in 0 .. m |-> r[(k - 1) + i]]
<1>11. m \in Nat
  BY <1>1
<1>12. Alike(v, w, m)
  <2>1. v[0] = rem[k - 1] /\ w[0] = r[k - 1]
    <3>1. 0 \in 0 .. m /\ (k - 1) + 0 = k - 1
      BY <1>1, <1>11
    <3> HIDE DEF m
    <3>. QED  BY <3>1
  <2>2. rem[k - 1] = 0 /\ r[k - 1] = 0
    <3>1. k - 1 \in k - 1 .. n /\ k - 1 \in 0 .. k - 1
      BY <1>1
    <3>2. rem[k - 1] = 0
      BY <1>10, <3>1
    <3>. QED  BY <1>7, <3>1, <3>2
  <2>3. ASSUME NEW i \in 1 .. m, v[i - 1] = w[i - 1]  PROVE v[i] = w[i]
    <3> DEFINE j == (k - 1) + i
    <3>1. /\ j \in k .. n /\ j \in k - 1 .. n /\ j # k - 1 /\ (k - 1) + (i - 1) = j - 1
          /\ i \in 0 .. m /\ i - 1 \in 0 .. m
      BY <1>1, <1>11
    <3>2. v[i] = rem[j] /\ w[i] = r[j] /\ v[i - 1] = rem[j - 1] /\ w[i - 1] = r[j - 1]
      <4>1. v[i] = rem[j] /\ w[i] = r[j]
        BY <3>1
      <4>2. v[i - 1] = rem[(k - 1) + (i - 1)] /\ w[i - 1] = r[(k - 1) + (i - 1)]
        BY <3>1
      <4>. QED  BY <3>1, <4>1, <4>2
    <3> HIDE DEF j, v, w
    <3>3. rem[j] = (rem[j - 1] * b + tmp[j]) % f
      BY <1>10, <3>1
    <3>4. r[j] = (r[j - 1] * b + tmp[j]) % f
      BY <1>8, <3>1
    <3>. QED  BY <2>3, <3>2, <3>3, <3>4
  <2> HIDE DEF v, w
  <2>. QED  BY <2>1, <2>2, <2>3 DEF Alike
<1>13. \A i \in 0 .. m : v[i] = w[i]
  <2> HIDE DEF v, w, m
  <2>. QED  BY <1>11, <1>12, RunsAgree
<1>14. \A i \in k - 1 .. n : rem[i] = r[i]
  <2>. TAKE i \in k - 1 .. n
  <2> DEFINE j == i - (k - 1)
  <2>1. j \in 0 .. m /\ (k - 1) + j = i
    BY <1>1
  <2>2. v[j] = rem[(k - 1) + j] /\ w[j] = r[(k - 1) + j]
    <3> HIDE DEF j, m
    <3>. QED  BY <2>1
  <2> HIDE DEF j, v, w
  <2>. QED  BY <1>13, <2>1, <2>2
<1> HIDE DEF v, w, m, q
<1>15. Remainders(r, rem, f, b, tmp, k)
  BY <1>6, <1>7, <1>8, <1>14 DEF Remainders, n
<1>. QED  BY <1>15

\* DivideFrom leaves the digits of such a run, and its last remainder.
LEMMA DivideFromIs ==
  ASSUME NEW code, NEW f \in Nat \ {0}, NEW b \in Nat, code.from = f, code.to = b,
         NEW tmp \in Seq(Nat), NEW k \in 1 .. Len(tmp)
  PROVE  \E E, r :
           /\ E \in Seq(Nat)
           /\ DivideFrom(code, tmp, k) = [tmp |-> E, rem |-> r[Len(tmp)]]
           /\ Len(E) = Len(tmp) /\ DivideRun(r, f, b, tmp, E, k)
<1> DEFINE n == Len(tmp)
           rem == CHOOSE rem : rem = [i \in k - 1 .. n |->
                    IF i = k - 1 THEN 0 ELSE (rem[i - 1] * b + tmp[i]) % f]
           m == n + 1 - k
           tail == [i \in 1 .. m |-> (rem[k + i - 2] * b + tmp[k + i - 1]) \div f]
           E == SubSeq(tmp, 1, k - 1) \o tail
<1>1. DivideFrom(code, tmp, k) = [tmp |-> E, rem |-> rem[n]]
  BY DEF DivideFrom
<1>2. \E r : Remainders(r, rem, f, b, tmp, k)
  <2>1. Remains(rem, f, b, tmp, k)
    BY DEF Remains
  <2> HIDE DEF rem, tail, E
  <2>. QED  BY <2>1, RemainderRuns
<1> HIDE DEF rem, tail, E
<1>3. PICK r : /\ r \in [0 .. n -> Nat]
               /\ \A i \in 0 .. k - 1 : r[i] = 0
               /\ \A i \in k .. n : r[i] = (r[i - 1] * b + tmp[i]) % f
               /\ \A i \in k - 1 .. n : rem[i] = r[i]
  BY <1>2 DEF Remainders
<1>4. n \in Nat /\ k \in 1 .. n /\ k - 1 \in 0 .. n /\ \A i \in 1 .. n : tmp[i] \in Nat
  OBVIOUS
<1> DEFINE front == SubSeq(tmp, 1, k - 1)
<1>5. /\ front \in Seq(Nat) /\ Len(front) = k - 1
      /\ \A i \in 1 .. k - 1 : tmp[i] = front[i]
  <2> DEFINE j == k - 1
  <2>1. j \in 0 .. Len(tmp)
    BY <1>4
  <2> HIDE DEF j
  <2>2. /\ SubSeq(tmp, 1, j) \in Seq(Nat) /\ Len(SubSeq(tmp, 1, j)) = j
        /\ Joined(tmp, SubSeq(tmp, 1, j), SubSeq(tmp, j + 1, Len(tmp)))
    BY SMTT(30), <2>1, PartsJoined
  <2>3. front = SubSeq(tmp, 1, j)
    BY DEF j
  <2> HIDE DEF front
  <2>. QED  BY <2>2, <2>3 DEF Joined, j
<1> HIDE DEF n
<1>6. m \in Nat /\ (k - 1) + m = n
  BY <1>4
<1>7. ASSUME NEW i \in 1 .. m
      PROVE  /\ tail[i] = (r[k + i - 2] * b + tmp[k + i - 1]) \div f /\ tail[i] \in Nat
  <2>1. k + i - 2 \in k - 1 .. n /\ k + i - 2 \in 0 .. n /\ k + i - 1 \in 1 .. n
    BY <1>4, <1>6
  <2> DEFINE x == r[k + i - 2]
             d == tmp[k + i - 1]
  <2>2. x \in Nat /\ d \in Nat /\ rem[k + i - 2] = x
    BY <1>3, <1>4, <2>1
  <2> HIDE DEF m
  <2>3. tail[i] = (rem[k + i - 2] * b + d) \div f
    BY DEF tail
  <2> HIDE DEF x, d
  <2>4. tail[i] = (x * b + d) \div f
    BY <2>2, <2>3
  <2>5. x * b + d \in Nat
    <3>1. \A g, h \in Nat : g * b + h \in Nat
      OBVIOUS
    <3>. QED  BY <2>2, <3>1
  <2>6. \A y \in Nat : y \div f \in Nat
    BY DivSplit
  <2>7. (x * b + d) \div f \in Nat
    BY <2>5, <2>6
  <2>. QED  BY <2>4, <2>7 DEF x, d
<1>8. tail \in Seq(Nat) /\ Len(tail) = m
  <2>1. tail \in [1 .. m -> Nat]
    <3>1. tail = [i \in 1 .. m |-> tail[i]]
      BY DEF tail
    <3> HIDE DEF m
    <3>. QED  BY <1>7, <3>1
  <2> HIDE DEF m
  <2>. QED  BY <1>6, <2>1
<1> HIDE DEF front
<1>9. E \in Seq(Nat) /\ Joined(E, front, tail)
  BY <1>5, <1>8, JoinedAre DEF E, front
<1>10. Len(E) = n
  BY <1>5, <1>6, <1>8, <1>9 DEF Joined
<1>11. \A i \in 1 .. k - 1 : E[i] = tmp[i]
  BY <1>5, <1>9 DEF Joined
<1>12. ASSUME NEW i \in k .. n
       PROVE  E[i] = (r[i - 1] * b + tmp[i]) \div f
  <2> DEFINE j == i - (k - 1)
  <2>1. j \in 1 .. m /\ (k - 1) + j = i /\ k + j - 2 = i - 1 /\ k + j - 1 = i
    BY <1>4
  <2> HIDE DEF j, m
  <2>2. E[i] = tail[j]
    BY <1>5, <1>8, <1>9, <2>1 DEF Joined
  <2>. QED  BY <1>7, <2>1, <2>2
<1>13. DivideRun(r, f, b, tmp, E, k)
  BY <1>3, <1>11, <1>12 DEF DivideRun, n
<1>14. rem[n] = r[n]
  <2>1. n \in k - 1 .. n
    BY <1>4
  <2>. QED  BY <1>3, <2>1
<1>15. DivideFrom(code, tmp, k) = [tmp |-> E, rem |-> r[n]]
  BY <1>1, <1>14
<1>. QED  BY <1>9, <1>10, <1>13, <1>15 DEF n

\* A digit of the quotient is one of the second base, and what remains one of the first.
LEMMA QuotientDigit ==
  ASSUME NEW f \in Nat \ {0}, NEW b \in Nat \ {0}, NEW x \in 0 .. f - 1, NEW d \in 0 .. b - 1
  PROVE  /\ (x * b + d) \div f \in 0 .. b - 1 /\ (x * b + d) % f \in 0 .. f - 1
         /\ x * b + d = f * ((x * b + d) \div f) + ((x * b + d) % f)
<1> DEFINE y == x * b + d
           q == y \div f
           r == y % f
<1>1. y \in Nat
  BY Products
<1>2. y < f * b
  <2>1. b * x + b <= b * f
    BY Products
  <2>2. b * x \in Int /\ b * f \in Int /\ x * b = b * x /\ f * b = b * f
    OBVIOUS
  <2>. QED  BY <2>1, <2>2
<1> HIDE DEF y
<1>3. q \in Nat /\ r \in 0 .. f - 1 /\ y = f * q + r
  BY <1>1, DivSplit
<1> HIDE DEF q, r
<1>4. /\ f * q \in Int /\ f * b \in Int
      /\ b < q => f * b + f <= f * q
      /\ b = q => f * b = f * q
  BY <1>3, Products
<1>5. ~(b < q) /\ b # q
  BY <1>1, <1>2, <1>3, <1>4
<1>6. q \in 0 .. b - 1
  BY <1>3, <1>5
<1>. QED  BY <1>3, <1>6 DEF q, r, y

DividedFrom(r, f, b, tmp, E, k) ==
  /\ f \in Nat \ {0} /\ b \in Nat \ {0} /\ b <= f
  /\ tmp \in Seq(Byte(b)) /\ k \in 1 .. Len(tmp) /\ \A i \in 1 .. k - 1 : tmp[i] = 0
  /\ E \in Seq(Nat) /\ Len(E) = Len(tmp) /\ DivideRun(r, f, b, tmp, E, k)

\* Those digits are the quotient by the first base, one digit shorter.
LEMMA DivideValue ==
  ASSUME NEW r, NEW f, NEW b, NEW tmp, NEW E, NEW k, DividedFrom(r, f, b, tmp, E, k)
  PROVE  /\ E \in Seq(Byte(b)) /\ r[Len(tmp)] \in Byte(f) /\ \A i \in 1 .. k : E[i] = 0
         /\ ValueIn(b, tmp) = f * ValueIn(b, E) + r[Len(tmp)]
<1> DEFINE n == Len(tmp)
<1>0. /\ f \in Nat \ {0} /\ b \in Nat \ {0} /\ b <= f
      /\ tmp \in Seq(Byte(b)) /\ k \in 1 .. Len(tmp) /\ (\A i \in 1 .. k - 1 : tmp[i] = 0)
      /\ E \in Seq(Nat) /\ Len(E) = Len(tmp) /\ DivideRun(r, f, b, tmp, E, k)
  BY DEF DividedFrom
<1> USE <1>0
<1>1. /\ n \in Nat /\ k \in 1 .. n /\ tmp \in Seq(Int) /\ b \in Int
      /\ \A i \in 1 .. n : tmp[i] \in 0 .. b - 1
  BY BytesInt
<1>2. /\ r \in [0 .. n -> Nat] /\ (\A i \in 0 .. k - 1 : r[i] = 0)
      /\ \A i \in 1 .. k - 1 : E[i] = tmp[i]
      /\ \A i \in k .. n :
           E[i] = (r[i - 1] * b + tmp[i]) \div f /\ r[i] = (r[i - 1] * b + tmp[i]) % f
  BY DEF DivideRun
<1>3. Len(E) = n
  OBVIOUS
<1> HIDE DEF n
<1>4. ASSUME NEW i \in 1 .. n, r[i - 1] \in 0 .. f - 1
      PROVE  E[i] \in 0 .. b - 1 /\ r[i] \in 0 .. f - 1 /\ r[i - 1] * b + tmp[i] = f * E[i] + r[i]
  <2>1. CASE i < k
    <3>1. i \in 0 .. k - 1 /\ i - 1 \in 0 .. k - 1 /\ i \in 1 .. k - 1
      BY <1>1, <2>1
    <3>2. r[i] = 0 /\ r[i - 1] = 0 /\ E[i] = 0 /\ tmp[i] = 0
      BY <1>2, <3>1
    <3>3. 0 * b + 0 = f * 0 + 0 /\ 0 \in 0 .. b - 1 /\ 0 \in 0 .. f - 1
      OBVIOUS
    <3>. QED  BY <3>2, <3>3
  <2>2. CASE ~(i < k)
    <3>1. i \in k .. n
      BY <1>1, <2>2
    <3> DEFINE x == r[i - 1]
               d == tmp[i]
    <3>2. x \in 0 .. f - 1 /\ d \in 0 .. b - 1
      BY <1>1, <1>4
    <3>3. E[i] = (x * b + d) \div f /\ r[i] = (x * b + d) % f
      BY <1>2, <3>1
    <3> HIDE DEF x, d
    <3>4. /\ (x * b + d) \div f \in 0 .. b - 1 /\ (x * b + d) % f \in 0 .. f - 1
          /\ x * b + d = f * ((x * b + d) \div f) + ((x * b + d) % f)
      BY <3>2, QuotientDigit
    <3>5. E[i] \in 0 .. b - 1 /\ r[i] \in 0 .. f - 1 /\ x * b + d = f * E[i] + r[i]
      BY <3>3, <3>4, Zenon
    <3>. QED  BY <3>5 DEF x, d
  <2>. QED  BY <2>1, <2>2
<1> DEFINE T == {i \in Nat : i <= n => r[i] \in 0 .. f - 1}
<1>5. 0 \in T
  BY <1>1, <1>2
<1>6. ASSUME NEW i \in T  PROVE i + 1 \in T
  <2>1. i \in Nat /\ i + 1 \in Nat
    OBVIOUS
  <2>2. ASSUME i + 1 <= n  PROVE r[i + 1] \in 0 .. f - 1
    <3>1. i <= n /\ i + 1 \in 1 .. n /\ (i + 1) - 1 = i
      BY <1>1, <2>1, <2>2
    <3>2. r[i] \in 0 .. f - 1
      BY <2>1, <3>1
    <3> HIDE DEF T
    <3>. QED  BY <1>4, <3>1, <3>2
  <2>. QED  BY <2>1, <2>2
<1>7. T \in SUBSET Nat
  OBVIOUS
<1>8. T = Nat
  <2> HIDE DEF T
  <2>. QED  BY <1>5, <1>6, <1>7, Induction
<1> HIDE DEF T
<1>9. \A i \in 0 .. n : r[i] \in 0 .. f - 1
  <2>1. \A i \in 0 .. n : i \in T /\ i <= n
    BY <1>1, <1>8
  <2>. QED  BY <2>1 DEF T
<1>10. \A i \in 1 .. n : E[i] \in 0 .. b - 1 /\ r[i - 1] * b + tmp[i] = f * E[i] + r[i]
  <2>. TAKE i \in 1 .. n
  <2>1. i - 1 \in 0 .. n
    BY <1>1
  <2>. QED  BY <1>4, <1>9, <2>1
<1>11. E \in Seq(Byte(b))
  <2> DEFINE B == Byte(b)
  <2>1. \A i \in 1 .. n : E[i] \in B
    BY <1>10 DEF Byte
  <2>2. E \in [1 .. n -> Nat]
    BY <1>3
  <2> HIDE DEF B
  <2>3. E \in [1 .. n -> B]
    BY <2>1, <2>2
  <2>4. E \in Seq(B)
    BY <1>1, <2>3
  <2>. QED  BY <2>4 DEF B
<1>12. \A i \in 1 .. k : E[i] = 0
  <2>1. \A i \in 1 .. k - 1 : E[i] = 0
    BY <1>2
  <2>2. E[k] = 0
    <3> DEFINE d == tmp[k]
    <3>1. k \in k .. n /\ k - 1 \in 0 .. k - 1
      BY <1>1
    <3>2. r[k - 1] = 0 /\ d \in Nat /\ d < f
      <4>1. d \in 0 .. b - 1
        BY <1>1
      <4>2. r[k - 1] = 0
        BY <1>2, <3>1
      <4>. QED  BY <4>1, <4>2
    <3>3. E[k] = (0 * b + d) \div f
      BY <1>2, <3>1, <3>2
    <3> HIDE DEF d
    <3>4. 0 * b + d = f * 0 + d /\ d \in 0 .. f - 1 /\ 0 \in Nat
      BY <3>2
    <3>5. (f * 0 + d) \div f = 0
      BY <3>4, DivUnique
    <3>. QED  BY <3>3, <3>4, <3>5
  <2>3. \A i \in 1 .. k : i = k \/ i \in 1 .. k - 1
    BY <1>1
  <2>. QED  BY <2>1, <2>2, <2>3
<1>13. E \in Seq(Int)
  BY <1>1, <1>11, BytesInt
<1>14. PICK v \in [0 .. n -> Int] : ValueRun(b, v, tmp) /\ ValueIn(b, tmp) = v[n]
  BY <1>1, ValueIs DEF n
<1>15. PICK w \in [0 .. n -> Int] : ValueRun(b, w, E) /\ ValueIn(b, E) = w[n]
  BY <1>1, <1>3, <1>13, ValueIs
<1>16. /\ v[0] = 0 /\ \A i \in 1 .. n : v[i] = b * v[i - 1] + tmp[i]
       /\ w[0] = 0 /\ \A i \in 1 .. n : w[i] = b * w[i - 1] + E[i]
  BY <1>3, <1>14, <1>15 DEF ValueRun, UpTo, n
<1> DEFINE U == {i \in Nat : i <= n => v[i] = f * w[i] + r[i]}
<1>17. 0 \in U
  <2>1. r[0] = 0
    BY <1>1, <1>2
  <2>. QED  BY <1>16, <2>1
<1>18. ASSUME NEW i \in U  PROVE i + 1 \in U
  <2>1. i \in Nat /\ i + 1 \in Nat
    OBVIOUS
  <2>2. ASSUME i + 1 <= n  PROVE v[i + 1] = f * w[i + 1] + r[i + 1]
    <3>1. i <= n /\ i + 1 \in 1 .. n /\ (i + 1) - 1 = i /\ i \in 0 .. n /\ i + 1 \in 0 .. n
      BY <1>1, <2>1, <2>2
    <3>2. v[i] = f * w[i] + r[i]
      BY <2>1, <3>1
    <3> HIDE DEF U
    <3> DEFINE x == r[i]
               y == w[i]
               d == tmp[i + 1]
               e == E[i + 1]
               z == r[i + 1]
    <3>3. x * b + d = f * e + z
      BY <1>10, <3>1
    <3>4. v[i + 1] = b * (f * y + x) + d /\ w[i + 1] = b * y + e
      BY <1>16, <3>1, <3>2
    <3>5. x \in Nat /\ y \in Int /\ d \in Int /\ e \in Int /\ z \in Nat
      <4>1. x \in Nat /\ z \in Nat
        BY <1>2, <3>1
      <4>2. y \in Int
        BY <1>15, <3>1
      <4>3. d \in 0 .. b - 1 /\ e \in 0 .. b - 1
        BY <1>1, <1>10, <3>1
      <4>. QED  BY <4>1, <4>2, <4>3
    <3> HIDE DEF x, y, d, e, z
    <3>6. b * (f * y + x) + d = f * (b * y) + (x * b + d)
      BY <3>5
    <3>7. f * (b * y) + (f * e + z) = f * (b * y + e) + z
      BY <3>5
    <3>8. v[i + 1] = f * (b * y + e) + z
      BY <3>3, <3>4, <3>6, <3>7
    <3>. QED  BY <3>4, <3>8 DEF z
  <2>. QED  BY <2>1, <2>2
<1>19. U \in SUBSET Nat
  OBVIOUS
<1>20. U = Nat
  <2> HIDE DEF U
  <2>. QED  BY <1>17, <1>18, <1>19, Induction
<1> HIDE DEF U
<1>21. v[n] = f * w[n] + r[n]
  <2>1. n \in U /\ n <= n
    BY <1>1, <1>20
  <2>. QED  BY <2>1 DEF U
<1>22. r[n] \in Byte(f)
  <2>1. n \in 0 .. n
    BY <1>1
  <2>. QED  BY <1>9, <2>1 DEF Byte
<1>. QED  BY <1>11, <1>12, <1>14, <1>15, <1>21, <1>22 DEF n

---------------------------------------------------------------------------
(* base58_decode, the loop.                                                 *)

\* The number is what is left of it and the digits written.
Decoding(s, f, b, n, value) ==
  /\ s.at \in 1 .. n + 1 /\ s.tmp \in Seq(Byte(b)) /\ Len(s.tmp) = n
  /\ \A i \in 1 .. s.at - 1 : s.tmp[i] = 0
  /\ s.out \in Seq(Byte(f))
  /\ ValueIn(b, s.tmp) * Power(f, Len(s.out)) + ValueIn(f, s.out) = value

Decoded(x, f, value) == x \in Seq(Byte(f)) /\ ValueIn(f, x) = value

\* Another digit, and one less of the number in the second base.
LEMMA DecodingNext ==
  ASSUME NEW code, NEW f \in Nat \ {0}, NEW b \in Nat \ {0}, b <= f, code.from = f, code.to = b,
         NEW n \in Nat, NEW s, NEW value, Decoding(s, f, b, n, value), s.at <= n,
         NEW d, d = DivideFrom(code, s.tmp, s.at)
  PROVE  /\ d.tmp[s.at] = 0
         /\ Decoding([at |-> s.at + 1, tmp |-> d.tmp, out |-> <<d.rem>> \o s.out], f, b, n, value)
<1> DEFINE at == s.at
           tmp == s.tmp
           out == s.out
           l == Len(out)
<1>1. /\ at \in 1 .. n + 1 /\ tmp \in Seq(Byte(b)) /\ Len(tmp) = n
      /\ (\A i \in 1 .. at - 1 : tmp[i] = 0) /\ out \in Seq(Byte(f))
      /\ ValueIn(b, tmp) * Power(f, l) + ValueIn(f, out) = value
  BY DEF Decoding
<1>2. at <= n /\ d = DivideFrom(code, tmp, at)
  OBVIOUS
<1> HIDE DEF at, tmp, out
<1>3. at \in 1 .. n /\ b \in Int /\ f \in Int /\ l \in Nat /\ out \in Seq(Int)
  <2>1. b \in Int /\ f \in Int /\ at \in 1 .. n
    BY <1>1, <1>2
  <2>. QED  BY <1>1, <2>1, BytesInt
<1>4. tmp \in Seq(Nat)
  <2>1. Len(tmp) \in Nat /\ \A i \in 1 .. Len(tmp) : tmp[i] \in 0 .. b - 1
    BY <1>1, <1>3, BytesInt
  <2>2. tmp \in [1 .. n -> Byte(b)]
    BY <1>1, LenProperties
  <2>3. tmp \in [1 .. n -> Nat]
    BY <1>1, <2>1, <2>2
  <2>. QED  BY <2>3
<1>5. PICK E, r :
           /\ E \in Seq(Nat)
           /\ DivideFrom(code, tmp, at) = [tmp |-> E, rem |-> r[Len(tmp)]]
           /\ Len(E) = Len(tmp) /\ DivideRun(r, f, b, tmp, E, at)
  <2>1. at \in 1 .. Len(tmp) /\ b \in Nat
    BY <1>1, <1>3
  <2>. QED  BY <1>4, <2>1, DivideFromIs
<1> DEFINE e == r[n]
<1>6. d.tmp = E /\ d.rem = e
  BY <1>1, <1>2, <1>5
<1>7. /\ E \in Seq(Byte(b)) /\ e \in Byte(f) /\ \A i \in 1 .. at : E[i] = 0
      /\ ValueIn(b, tmp) = f * ValueIn(b, E) + e
  <2>1. at \in 1 .. Len(tmp)
    BY <1>1, <1>3
  <2>2. /\ E \in Seq(Byte(b)) /\ r[Len(tmp)] \in Byte(f) /\ \A i \in 1 .. at : E[i] = 0
        /\ ValueIn(b, tmp) = f * ValueIn(b, E) + r[Len(tmp)]
    <3>1. DividedFrom(r, f, b, tmp, E, at)
      BY <1>1, <1>3, <1>5, <2>1 DEF DividedFrom
    <3>. QED  BY <3>1, DivideValue
  <2>. QED  BY <1>1, <2>2
<1> HIDE DEF e
<1>8. E[at] = 0
  BY <1>3, <1>7
<1> DEFINE one == <<e>>
           u == one \o out
<1>9. one \in Seq(Byte(f)) /\ Len(one) = 1 /\ one \in Seq(Int) /\ e \in Int
  <2>1. one \in Seq(Byte(f)) /\ Len(one) = 1
    BY <1>7
  <2>2. e \in Int
    BY <1>7 DEF Byte
  <2>. QED  BY <2>1, <2>2
<1>10. ValueIn(f, one) = e
  BY <1>3, <1>9, ValueOne
<1> HIDE DEF one
<1>11. u \in Seq(Byte(f)) /\ Joined(u, one, out)
  BY <1>1, <1>9, JoinedAre
<1>12. u \in Seq(Int) /\ Len(u) = l + 1
  BY <1>3, <1>9, <1>11, BytesInt DEF Joined
<1>13. ValueIn(f, u) = e * Power(f, l) + ValueIn(f, out)
  <2> HIDE DEF u
  <2>1. ValueIn(f, u) = ValueIn(f, one) * Power(f, Len(out)) + ValueIn(f, out)
    BY <1>3, <1>9, <1>11, <1>12, ValueJoined
  <2>. QED  BY <1>10, <2>1
<1> DEFINE p == Power(f, l)
           x == ValueIn(b, E)
           y == ValueIn(f, out)
<1>14. Power(f, l + 1) = f * p /\ p \in Int
  BY <1>3, Powers
<1>15. x \in Int /\ y \in Int
  <2>1. E \in Seq(Int)
    BY <1>3, <1>7, BytesInt
  <2>. QED  BY <1>3, <2>1, ValueInt
<1>16. value = (f * x + e) * p + y
  BY <1>1, <1>7
<1> HIDE DEF p, x, y, l, u
<1>17. x * (f * p) + (e * p + y) = value
  <2>1. x * (f * p) + (e * p + y) = (f * x + e) * p + y
    BY <1>9, <1>14, <1>15
  <2>. QED  BY <1>16, <2>1
<1>18. ValueIn(b, E) * Power(f, Len(u)) + ValueIn(f, u) = value
  BY <1>12, <1>13, <1>14, <1>17 DEF p, x, y
<1> DEFINE t == [at |-> at + 1, tmp |-> E, out |-> u]
<1>19. Decoding(t, f, b, n, value)
  <2>1. t.at = at + 1 /\ t.tmp = E /\ t.out = u
    OBVIOUS
  <2>2. at + 1 \in 1 .. n + 1 /\ (at + 1) - 1 = at
    BY <1>3
  <2> HIDE DEF t
  <2>. QED  BY <1>1, <1>5, <1>7, <1>11, <1>18, <2>1, <2>2 DEF Decoding
<1>20. [at |-> s.at + 1, tmp |-> d.tmp, out |-> <<d.rem>> \o s.out] = t
  BY <1>6 DEF at, out, u, one
<1> HIDE DEF t
<1>. QED  BY <1>6, <1>8, <1>19, <1>20 DEF at

\* When nothing is left of the number, the digits written show it.
LEMMA DecodingLast ==
  ASSUME NEW f \in Nat \ {0}, NEW b \in Nat \ {0}, NEW n \in Nat, NEW s, NEW value,
         Decoding(s, f, b, n, value), s.at > n
  PROVE  Decoded(s.out, f, value)
<1> DEFINE tmp == s.tmp
           out == s.out
           l == Len(out)
<1>1. /\ s.at \in 1 .. n + 1 /\ tmp \in Seq(Byte(b)) /\ Len(tmp) = n
      /\ (\A i \in 1 .. s.at - 1 : tmp[i] = 0) /\ out \in Seq(Byte(f))
      /\ ValueIn(b, tmp) * Power(f, l) + ValueIn(f, out) = value
  BY DEF Decoding
<1> HIDE DEF tmp, out
<1>2. s.at = n + 1 /\ s.at - 1 = n
  BY <1>1
<1>3. b \in Int /\ f \in Int /\ l \in Nat /\ out \in Seq(Int) /\ tmp \in Seq(Int)
  <2>1. b \in Int /\ f \in Int
    OBVIOUS
  <2>. QED  BY <1>1, <2>1, BytesInt
<1>4. ValueIn(b, tmp) = 0
  <2>1. \A i \in 1 .. Len(tmp) : tmp[i] = 0
    BY <1>1, <1>2
  <2>. QED  BY <1>3, <2>1, ValueZeros
<1> DEFINE p == Power(f, l)
           y == ValueIn(f, out)
<1>5. p \in Int /\ y \in Int
  BY <1>3, Powers, ValueInt
<1>6. 0 * p + y = value
  BY <1>1, <1>4
<1> HIDE DEF p, y
<1>7. y = value
  BY <1>5, <1>6
<1>. QED  BY <1>1, <1>7 DEF y, out, Decoded

\* What Decode computes of a text of n characters from the digit at on.
DecodeLoop(loop, code, in) ==
  loop = CHOOSE x : x =
    [s \in [at : 1 .. Len(in) + 1, tmp : [DOMAIN in -> Nat], out : Seq(Nat)] |->
       IF s.at > Len(in) THEN s.out
       ELSE x[[at |-> IF DivideFrom(code, s.tmp, s.at).tmp[s.at] = 0 THEN s.at + 1 ELSE s.at,
               tmp |-> DivideFrom(code, s.tmp, s.at).tmp,
               out |-> <<DivideFrom(code, s.tmp, s.at).rem>> \o s.out]]]

\* The loop ends, with the digits of the number.
LEMMA DecodeLoops ==
  ASSUME NEW code, NEW f \in Nat \ {0}, NEW b \in Nat \ {0}, b <= f, code.from = f, code.to = b,
         NEW in \in Seq(Byte(b)), NEW loop, DecodeLoop(loop, code, in),
         NEW value, NEW s0, s0 \in [at : 1 .. Len(in) + 1, tmp : [DOMAIN in -> Nat], out : Seq(Nat)],
         Decoding(s0, f, b, Len(in), value)
  PROVE  Decoded(loop[s0], f, value)
<1> DEFINE n == Len(in)
           S == [at : 1 .. n + 1, tmp : [1 .. n -> Nat], out : Seq(Nat)]
           d(s) == DivideFrom(code, s.tmp, s.at)
           next(s) == [at |-> IF d(s).tmp[s.at] = 0 THEN s.at + 1 ELSE s.at,
                       tmp |-> d(s).tmp, out |-> <<d(s).rem>> \o s.out]
           G == {s \in S : s.at <= n}
           step == [s \in S |-> IF s \in G THEN next(s) ELSE s]
           last == [s \in S |-> s.out]
<1>1. n \in Nat /\ DOMAIN in = 1 .. n
  BY LenProperties
<1>2. s0 \in S
  BY <1>1
<1>3. loop = CHOOSE x : x = [s \in S |-> IF s.at > n THEN s.out ELSE x[next(s)]]
  BY <1>1 DEF DecodeLoop
<1>4. Decoding(s0, f, b, n, value)
  OBVIOUS
<1> HIDE DEF n
<1>5. ASSUME NEW s \in G  PROVE next(s) \in S
  <2>1. s.at \in 1 .. n /\ s.tmp \in Seq(Nat) /\ Len(s.tmp) = n /\ s.out \in Seq(Nat)
    <3>1. s.at \in 1 .. n + 1 /\ s.at <= n /\ s.tmp \in [1 .. n -> Nat] /\ s.out \in Seq(Nat)
      OBVIOUS
    <3> HIDE DEF S, G
    <3>2. s.tmp \in Seq(Nat) /\ Len(s.tmp) = n
      <4> DEFINE t == s.tmp
      <4>1. t \in [1 .. n -> Nat]
        BY <3>1
      <4> HIDE DEF t
      <4>2. t \in Seq(Nat) /\ Len(t) = n
        BY <1>1, <4>1
      <4>. QED  BY <4>2 DEF t
    <3>. QED  BY <1>1, <3>1, <3>2
  <2> DEFINE t == s.tmp
             k == s.at
  <2> HIDE DEF t, k, S, G
  <2>2. PICK E, r :
           /\ E \in Seq(Nat)
           /\ DivideFrom(code, t, k) = [tmp |-> E, rem |-> r[Len(t)]]
           /\ Len(E) = Len(t) /\ DivideRun(r, f, b, t, E, k)
    <3>1. t \in Seq(Nat) /\ k \in 1 .. Len(t) /\ b \in Nat
      BY <2>1 DEF t, k
    <3>. QED  BY <3>1, DivideFromIs
  <2>3. r[n] \in Nat /\ Len(E) = n /\ d(s).tmp = E /\ d(s).rem = r[n]
    <3>1. Len(t) = n
      BY <2>1 DEF t
    <3>2. r \in [0 .. n -> Nat]
      BY <2>2, <3>1 DEF DivideRun
    <3>3. n \in 0 .. n
      BY <1>1
    <3>4. d(s) = [tmp |-> E, rem |-> r[n]]
      BY <2>2, <3>1 DEF t, k
    <3> HIDE DEF d
    <3>. QED  BY <2>2, <3>1, <3>2, <3>3, <3>4
  <2>4. E \in [1 .. n -> Nat]
    BY <2>2, <2>3, LenProperties
  <2>5. <<r[n]>> \o s.out \in Seq(Nat)
    <3> DEFINE e == r[n]
               one == <<e>>
               out == s.out
    <3>1. one \in Seq(Nat)
      BY <2>3
    <3>2. out \in Seq(Nat)
      BY <2>1
    <3> HIDE DEF one, out
    <3>3. one \o out \in Seq(Nat)
      BY <3>1, <3>2, JoinedAre
    <3>. QED  BY <3>3 DEF one, out, e
  <2> DEFINE i == IF d(s).tmp[s.at] = 0 THEN s.at + 1 ELSE s.at
  <2>6. i \in 1 .. n + 1
    BY SMTT(30), <1>1, <2>1
  <2>7. next(s) = [at |-> i, tmp |-> E, out |-> <<r[n]>> \o s.out]
    BY <2>3
  <2> HIDE DEF i, next
  <2>. QED  BY <2>4, <2>5, <2>6, <2>7 DEF S
<1>6. loop = [s \in S |-> IF s.at > n THEN s.out ELSE loop[next(s)]]
  <2>1. step \in [S -> S]
    <3> HIDE DEF S, next
    <3>. QED  BY <1>5
  <2>2. \A s \in S :
          /\ s.at > n => s \notin G /\ last[s] = s.out
          /\ ~(s.at > n) => s \in G /\ step[s] = next(s)
    <3>1. \A s \in S : s.at > n => s \notin G
      BY <1>1
    <3>2. \A s \in S : ~(s.at > n) => s \in G
      BY <1>1
    <3> HIDE DEF S, next, G
    <3>. QED  BY <3>1, <3>2
  <2> HIDE DEF step, last, G, S, next
  <2>3. PICK g : Loops(g, S, G, step, last)
    BY <2>1, LoopExists
  <2>4. g = [s \in S |-> IF s.at > n THEN s.out ELSE g[next(s)]]
    BY <2>2, <2>3 DEF Loops
  <2>. QED  BY <1>3, <2>4
<1>7. \A s \in S : loop[s] = IF s.at > n THEN s.out ELSE loop[next(s)]
  <2> HIDE DEF S, next
  <2>. QED  BY <1>6, ZenonT(60)
<1> DEFINE T == {j \in Nat : \A s \in S : s.at + j = n + 1 /\ Decoding(s, f, b, n, value)
                                           => Decoded(loop[s], f, value)}
<1>8. 0 \in T
  <2>1. ASSUME NEW s \in S, s.at + 0 = n + 1, Decoding(s, f, b, n, value)
        PROVE  Decoded(loop[s], f, value)
    <3>1. s.at \in Nat
      OBVIOUS
    <3> HIDE DEF S, next
    <3>2. s.at > n
      BY <1>1, <2>1, <3>1
    <3>3. loop[s] = s.out
      BY <1>7, <3>2
    <3>4. Decoded(s.out, f, value)
      BY <1>1, <2>1, <3>2, DecodingLast
    <3>. QED  BY <3>3, <3>4
  <2> HIDE DEF S
  <2>. QED  BY <2>1
<1>9. ASSUME NEW j \in T  PROVE j + 1 \in T
  <2>0. j \in Nat /\ j + 1 \in Nat
    OBVIOUS
  <2>1. ASSUME NEW s \in S, s.at + (j + 1) = n + 1, Decoding(s, f, b, n, value)
        PROVE  Decoded(loop[s], f, value)
    <3>1. s.at \in Nat
      OBVIOUS
    <3>2. s.at <= n /\ ~(s.at > n)
      BY SMTT(30), <1>1, <2>0, <2>1, <3>1
    <3>3. next(s) \in S
      <4>1. s \in G
        BY <3>2
      <4> HIDE DEF G, S, next
      <4>. QED  BY <1>5, <4>1
    <3>4. loop[s] = loop[next(s)]
      <4> HIDE DEF S, next, T
      <4>. QED  BY <1>7, <3>2
    <3> DEFINE x == [at |-> s.at + 1, tmp |-> d(s).tmp, out |-> <<d(s).rem>> \o s.out]
    <3>5. d(s).tmp[s.at] = 0 /\ Decoding(x, f, b, n, value)
      <4> DEFINE e == d(s)
      <4>1. e = DivideFrom(code, s.tmp, s.at)
        OBVIOUS
      <4> HIDE DEF e, S, T
      <4>2. /\ e.tmp[s.at] = 0
            /\ Decoding([at |-> s.at + 1, tmp |-> e.tmp, out |-> <<e.rem>> \o s.out], f, b, n, value)
        BY ZenonT(60), <1>1, <2>1, <3>2, <4>1, DecodingNext
      <4>. QED  BY <4>2 DEF e
    <3>6. next(s) = x
      BY <3>5
    <3>7. x.at + j = n + 1
      <4>1. x.at = s.at + 1
        OBVIOUS
      <4> HIDE DEF x
      <4>. QED  BY <1>1, <2>0, <2>1, <3>1, <4>1
    <3>8. \A y \in S : y.at + j = n + 1 /\ Decoding(y, f, b, n, value) => Decoded(loop[y], f, value)
      OBVIOUS
    <3> HIDE DEF S, T, next, x
    <3>. QED  BY <3>3, <3>4, <3>5, <3>6, <3>7, <3>8
  <2> HIDE DEF S
  <2>. QED  BY <2>0, <2>1
<1>10. T \in SUBSET Nat
  OBVIOUS
<1>11. T = Nat
  <2> HIDE DEF T
  <2>. QED  BY <1>8, <1>9, <1>10, Induction
<1>12. PICK j \in Nat : s0.at + j = n + 1
  <2>1. s0.at \in 1 .. n + 1
    BY <1>2
  <2>2. (n + 1) - s0.at \in Nat /\ s0.at + ((n + 1) - s0.at) = n + 1
    BY <1>1, <2>1
  <2>. QED  BY <2>2
<1>13. j \in T
  <2> HIDE DEF T
  <2>. QED  BY <1>11
<1>. QED  BY <1>2, <1>4, <1>12, <1>13

---------------------------------------------------------------------------
(* The round trip.                                                          *)

Decodable(code, f, b, in) ==
  /\ f \in Nat \ {0} /\ b \in Nat \ {0} /\ b <= f /\ code.from = f /\ code.to = b
  /\ in \in Seq(Byte(b)) /\ 2 <= Len(in) /\ Len(in) <= code.maxDec /\ code.maxDec \in Nat

Decodes(code, f, b, in, room) ==
  \E out \in Seq(Byte(f)) :
    /\ Len(out) <= room => Decode(code, in, room) = [ok |-> TRUE, out |-> out]
    /\ LeadingZeros(out) = LeadingZeros(in)
    /\ ValueIn(f, out) = ValueIn(b, in)

\* base58_decode: the same number behind as many zeros.
LEMMA DecodeIs ==
  ASSUME NEW code, NEW f, NEW b, NEW in, Decodable(code, f, b, in), NEW room \in Nat
  PROVE  Decodes(code, f, b, in, room)
<1> DEFINE z == LeadingZeros(in)
           n == Len(in)
           S == [at : 1 .. Len(in) + 1, tmp : [DOMAIN in -> Nat], out : Seq(Nat)]
           d(s) == DivideFrom(code, s.tmp, s.at)
           loop == CHOOSE loop : loop =
             [s \in S |->
                IF s.at > Len(in) THEN s.out
                ELSE loop[[at |-> IF d(s).tmp[s.at] = 0 THEN s.at + 1 ELSE s.at,
                           tmp |-> d(s).tmp, out |-> <<d(s).rem>> \o s.out]]]
           s0 == [at |-> z + 1, tmp |-> in, out |-> <<>>]
           computed == loop[s0]
           t == SubSeq(computed, LeadingZeros(computed) + 1, Len(computed))
           out == [k \in 1 .. z |-> 0] \o t
           bad == \E k \in DOMAIN in : in[k] \notin Byte(code.to)
<1>0. /\ f \in Nat \ {0} /\ b \in Nat \ {0} /\ b <= f /\ code.from = f /\ code.to = b
      /\ in \in Seq(Byte(b)) /\ 2 <= Len(in) /\ Len(in) <= code.maxDec /\ code.maxDec \in Nat
  BY DEF Decodable
<1> USE <1>0
<1>1. Decode(code, in, room) =
        IF Len(in) > code.maxDec \/ Len(in) < 2 \/ room < Len(out) \/ bad
        THEN NoText ELSE [ok |-> TRUE, out |-> out]
  BY DEF Decode
<1>2. DecodeLoop(loop, code, in)
  BY DEF DecodeLoop
<1> HIDE DEF loop, out, t, bad, z, n
<1>3. f \in Int /\ b \in Int /\ in \in Seq(Int) /\ n \in Nat /\ \A k \in 1 .. n : in[k] \in 0 .. b - 1
  <2>1. f \in Int /\ b \in Int
    OBVIOUS
  <2>. QED  BY <2>1, BytesInt DEF n
<1>4. z \in 0 .. n /\ \A k \in 1 .. z : in[k] = 0
  BY <1>3, LeadingZerosAre DEF z, n
<1>5. s0 \in S
  <2>1. in \in [DOMAIN in -> Nat]
    <3>1. DOMAIN in = 1 .. n
      BY DEF n
    <3>2. \A k \in 1 .. n : in[k] \in Nat
      BY <1>3
    <3>3. in \in [1 .. n -> Byte(b)]
      BY <3>1, LenProperties DEF n
    <3>. QED  BY <3>1, <3>2, <3>3
  <2>2. z + 1 \in 1 .. Len(in) + 1
    BY <1>3, <1>4 DEF n
  <2>3. <<>> \in Seq(Nat)
    OBVIOUS
  <2>. QED  BY <2>1, <2>2, <2>3
<1>6. Decoding(s0, f, b, n, ValueIn(b, in))
  <2>1. s0.at = z + 1 /\ s0.tmp = in /\ s0.out = <<>>
    OBVIOUS
  <2>2. z + 1 \in 1 .. n + 1 /\ (z + 1) - 1 = z
    BY <1>3, <1>4
  <2>3. <<>> \in Seq(Byte(f)) /\ Len(<<>>) = 0
    OBVIOUS
  <2>4. ValueIn(f, <<>>) = 0
    BY <1>3, ValueNone
  <2>5. Power(f, 0) = 1
    BY <1>3, Powers
  <2>6. ValueIn(b, in) * 1 + 0 = ValueIn(b, in)
    <3> DEFINE v == ValueIn(b, in)
    <3>1. v \in Int
      BY <1>3, ValueInt
    <3> HIDE DEF v
    <3>2. v * 1 + 0 = v
      BY <3>1
    <3>. QED  BY <3>2 DEF v
  <2>7. ValueIn(b, in) * Power(f, Len(<<>>)) + ValueIn(f, <<>>) = ValueIn(b, in)
    BY <2>3, <2>4, <2>5, <2>6
  <2> HIDE DEF s0
  <2>. QED  BY <1>4, <2>1, <2>2, <2>3, <2>7 DEF Decoding, n
<1>7. computed \in Seq(Byte(f)) /\ ValueIn(f, computed) = ValueIn(b, in)
  <2> DEFINE v == ValueIn(b, in)
  <2>1. Decoding(s0, f, b, Len(in), v)
    BY <1>6 DEF n
  <2> HIDE DEF s0, v
  <2>2. Decoded(loop[s0], f, v)
    BY <1>2, <1>5, <2>1, DecodeLoops
  <2>. QED  BY <2>2 DEF Decoded, v
<1> HIDE DEF computed
<1>8. t \in Seq(Byte(f)) /\ Bare(t) /\ ValueIn(f, t) = ValueIn(f, computed)
  BY <1>7, Stripped DEF t
<1>9. out \in Seq(Byte(f)) /\ LeadingZeros(out) = z /\ ValueIn(f, out) = ValueIn(f, t)
  <2>1. out = Zeroed(z, t)
    BY DEF out, Zeroed
  <2>2. z \in Nat
    BY <1>3, <1>4
  <2>. QED  BY <1>8, <2>1, <2>2, ZerosInFront
<1>10. ~bad
  <2>1. DOMAIN in = 1 .. n
    BY DEF n
  <2>. QED  BY <1>3, <2>1 DEF bad, Byte
<1>11. ASSUME Len(out) <= room  PROVE Decode(code, in, room) = [ok |-> TRUE, out |-> out]
  <2> DEFINE l == Len(out)
             m == Len(in)
  <2>1. l \in Nat /\ m \in Nat /\ l <= room /\ m <= code.maxDec /\ 2 <= m
    <3>1. l \in Nat /\ m \in Nat
      BY <1>9, LenProperties
    <3>. QED  BY <1>11, <3>1
  <2> HIDE DEF l, m
  <2>2. ~(m > code.maxDec) /\ ~(m < 2) /\ ~(room < l)
    BY <2>1
  <2>3. ~(Len(in) > code.maxDec \/ Len(in) < 2 \/ room < Len(out) \/ bad)
    BY <1>10, <2>2 DEF l, m
  <2>. QED  BY <1>1, <2>3
<1>. QED  BY <1>7, <1>8, <1>9, <1>11 DEF z, Decodes

\* What base58_encode makes of a number is decoded to it.
LEMMA EncodedDecodes ==
  ASSUME NEW code, Roomy(code), NEW in \in Seq(Byte(code.from)), Len(in) <= code.maxEnc
  PROVE  /\ Encode(code, in, code.maxDec).ok
         /\ Len(Encode(code, in, code.maxDec).out) >= 2 =>
              Decode(code, Encode(code, in, code.maxDec).out, code.maxEnc)
                = [ok |-> TRUE, out |-> in]
<1> DEFINE f == code.from
           b == code.to
<1>1. /\ b \in Nat \ {0} /\ f \in Nat \ {0} /\ b <= f
      /\ code.maxEnc \in Nat /\ code.maxDec \in Nat
  BY DEF Roomy
<1>2. PICK text \in Seq(Byte(b)) :
           /\ Encode(code, in, code.maxDec) = [ok |-> TRUE, out |-> text]
           /\ Len(text) <= code.maxDec
           /\ LeadingZeros(text) = LeadingZeros(in)
           /\ ValueIn(b, text) = ValueIn(f, in)
  BY <1>1, EncodeIs
<1>3. Encode(code, in, code.maxDec).ok /\ Encode(code, in, code.maxDec).out = text
  BY <1>2
<1>4. in \in Seq(Byte(f)) /\ code.from = f /\ code.to = b
  OBVIOUS
<1> HIDE DEF f, b
<1>5. ASSUME Len(text) >= 2
      PROVE  Decode(code, text, code.maxEnc) = [ok |-> TRUE, out |-> in]
  <2>1. 2 <= Len(text)
    <3>1. Len(text) \in Nat
      BY LenProperties
    <3>. QED  BY <1>5, <3>1
  <2>2. PICK out \in Seq(Byte(f)) :
           /\ Len(out) <= code.maxEnc
                => Decode(code, text, code.maxEnc) = [ok |-> TRUE, out |-> out]
           /\ LeadingZeros(out) = LeadingZeros(text)
           /\ ValueIn(f, out) = ValueIn(b, text)
    <3>1. Decodable(code, f, b, text)
      BY <1>1, <1>2, <1>4, <2>1 DEF Decodable
    <3>2. Decodes(code, f, b, text, code.maxEnc)
      BY <1>1, <3>1, DecodeIs
    <3>. QED  BY <3>2 DEF Decodes
  <2>3. out = in
    <3>1. LeadingZeros(out) = LeadingZeros(in) /\ ValueIn(f, out) = ValueIn(f, in)
      BY <1>2, <2>2
    <3>. QED  BY <1>1, <1>4, <3>1, TextUnique
  <2>. QED  BY <2>2, <2>3
<1>. QED  BY <1>3, <1>5

---------------------------------------------------------------------------
(* The room in the code of the program.                                     *)

\* The powers of a power.
LEMMA PowersOfPowers ==
  ASSUME NEW b \in Nat \ {0}, NEW m \in Nat
  PROVE  \A k \in Nat : Power(Power(b, m), k) = Power(b, m * k)
<1> DEFINE p == Power(b, m)
           T == {k \in Nat : Power(p, k) = Power(b, m * k)}
<1>1. b \in Int /\ p \in Nat \ {0} /\ p \in Int
  <2>1. b \in Int
    OBVIOUS
  <2>. QED  BY <2>1, PowersPositive
<1>2. p = Power(b, m)
  OBVIOUS
<1> HIDE DEF p
<1>3. 0 \in T
  <2>1. m * 0 = 0
    OBVIOUS
  <2>2. Power(p, 0) = 1 /\ Power(b, 0) = 1
    BY <1>1, Powers
  <2>. QED  BY <2>1, <2>2
<1>4. ASSUME NEW k \in T  PROVE k + 1 \in T
  <2>1. k \in Nat /\ k + 1 \in Nat /\ Power(p, k) = Power(b, m * k)
    OBVIOUS
  <2> DEFINE n == m * k
  <2>2. n \in Nat /\ m * (k + 1) = m + n
    BY <2>1
  <2> HIDE DEF n, T
  <2>3. Power(b, m + n) = p * Power(b, n)
    BY <1>1, <1>2, <2>2, PowerSum
  <2>4. Power(p, k + 1) = p * Power(p, k)
    BY <1>1, <2>1, Powers
  <2>5. Power(p, k + 1) = Power(b, m * (k + 1))
    BY <2>1, <2>2, <2>3, <2>4 DEF n
  <2>. QED  BY <2>1, <2>5 DEF T
<1>5. T \in SUBSET Nat
  OBVIOUS
<1>6. T = Nat
  <2> HIDE DEF T
  <2>. QED  BY <1>3, <1>4, <1>5, Induction
<1>. QED  BY <1>6 DEF p

\* The powers of a greater base are greater.
LEMMA BasesGrowStrictly ==
  ASSUME NEW a \in Nat \ {0}, NEW b \in Nat \ {0}, a < b
  PROVE  \A n \in Nat : Power(a, n + 1) < Power(b, n + 1)
<1>. TAKE n \in Nat
<1> DEFINE p == Power(a, n)
           q == Power(b, n)
<1>1. a \in Int /\ b \in Int /\ a <= b
  OBVIOUS
<1>2. p \in Nat \ {0} /\ q \in Nat \ {0} /\ p <= q
  BY <1>1, PowersPositive, BasesGrow
<1>3. Power(a, n + 1) = a * p /\ Power(b, n + 1) = b * q
  BY <1>1, Powers
<1> HIDE DEF p, q
<1>4. a * p < b * q
  <2> DEFINE c == b - a
             d == q - p
  <2>1. c \in Nat \ {0} /\ d \in Nat
    BY <1>2
  <2>2. b = a + c /\ q = p + d
    BY <1>2
  <2> HIDE DEF c, d
  <2>3. (a + c) * (p + d) = a * p + a * d + c * p + c * d
    BY <1>2, <2>1
  <2>4. a * d >= 0 /\ c * d >= 0 /\ c * p > 0 /\ a * p \in Int /\ a * d \in Int /\ c * p \in Int /\ c * d \in Int
    BY <1>2, <2>1
  <2>. QED  BY <2>2, <2>3, <2>4
<1>. QED  BY <1>3, <1>4

\* Digits of one base fit into those of another as often as they do once.
LEMMA PowersFit ==
  ASSUME NEW f \in Nat \ {0}, NEW b \in Nat \ {0}, NEW p \in Nat, NEW q \in Nat,
         Power(f, p + 1) <= Power(b, q),
         NEW n \in Nat, NEW s \in Nat, q * n <= (p + 1) * s
  PROVE  Power(f, n) <= Power(b, s)
<1> DEFINE x == Power(f, n)
           y == Power(b, s)
           k == p + 1
<1>1. k \in Nat /\ x \in Nat \ {0} /\ y \in Nat \ {0} /\ q * n \in Nat /\ k * s \in Nat
  <2>1. k \in Nat
    OBVIOUS
  <2>2. x \in Nat \ {0} /\ y \in Nat \ {0}
    BY PowersPositive
  <2> HIDE DEF k, x, y
  <2>3. q * n \in Nat /\ k * s \in Nat
    BY <2>1
  <2>. QED  BY <2>1, <2>2, <2>3
<1>2. Power(x, k) = Power(f, n * k)
  BY <1>1, PowersOfPowers
<1>3. Power(y, k) = Power(b, s * k)
  BY <1>1, PowersOfPowers
<1>4. SUFFICES ASSUME y < x  PROVE FALSE
  BY <1>1
<1>5. Power(y, k) < Power(x, k)
  BY <1>1, <1>4, BasesGrowStrictly
<1> DEFINE g == Power(f, k)
           h == Power(b, q)
<1>6. g \in Nat \ {0} /\ h \in Nat \ {0} /\ g <= h
  BY <1>1, PowersPositive
<1>7. Power(g, n) = Power(f, k * n) /\ Power(h, n) = Power(b, q * n)
  BY <1>1, PowersOfPowers
<1> HIDE DEF g, h, k, x, y
<1>8. Power(g, n) <= Power(h, n)
  BY <1>6, BasesGrow
<1>9. Power(b, q * n) <= Power(b, k * s)
  <2>1. q * n <= k * s
    BY DEF k
  <2> DEFINE i == q * n
             j == k * s
  <2>2. i \in Nat /\ j \in Nat /\ i <= j
    BY <1>1, <2>1
  <2> HIDE DEF i, j
  <2>3. Power(b, i) <= Power(b, j)
    BY <2>2, PowersGrow
  <2>. QED  BY <2>3 DEF i, j
<1>10. n * k = k * n /\ s * k = k * s
  BY <1>1
<1> DEFINE v == Power(y, k)
           w == Power(x, k)
           u == Power(h, n)
<1>11. v \in Nat /\ w \in Nat /\ u \in Nat
  BY <1>1, <1>6, PowersPositive
<1>12. v < w /\ w <= u /\ u <= v
  <2>1. w = Power(g, n) /\ v = Power(b, k * s)
    BY <1>2, <1>3, <1>7, <1>10
  <2>. QED  BY <1>5, <1>7, <1>8, <1>9, <2>1
<1> HIDE DEF u, v, w
<1>. QED  BY <1>11, <1>12

\* The bases of the program.
LEMMA RealPowers ==
  Power(256, 8) <= Power(58, 11) /\ Power(256, 30) <= Power(58, 41)
<1>1. 256 \in Nat \ {0} /\ 58 \in Nat \ {0} /\ 256 \in Int /\ 58 \in Int
  OBVIOUS
<1>2. Power(256, 1) = 256
  <2>1. Power(256, 0) = 1 /\ Power(256, 0 + 1) = 256 * Power(256, 0)
    BY <1>1, Powers
  <2>. QED  BY <2>1
<1>3. Power(256, 2) = 65536
  <2>1. Power(256, 1 + 1) = Power(256, 1) * Power(256, 1)
    BY <1>1, PowerSum
  <2>. QED  BY <1>2, <1>2, <2>1
<1>4. Power(256, 4) = 4294967296
  <2>1. Power(256, 2 + 2) = Power(256, 2) * Power(256, 2)
    BY <1>1, PowerSum
  <2>. QED  BY <1>3, <1>3, <2>1
<1>5. Power(256, 8) = 18446744073709551616
  <2>1. Power(256, 4 + 4) = Power(256, 4) * Power(256, 4)
    BY <1>1, PowerSum
  <2>. QED  BY <1>4, <1>4, <2>1
<1>6. Power(256, 10) = 1208925819614629174706176
  <2>1. Power(256, 8 + 2) = Power(256, 8) * Power(256, 2)
    BY <1>1, PowerSum
  <2>. QED  BY <1>5, <1>3, <2>1
<1>7. Power(256, 20) = 1461501637330902918203684832716283019655932542976
  <2>1. Power(256, 10 + 10) = Power(256, 10) * Power(256, 10)
    BY <1>1, PowerSum
  <2>. QED  BY <1>6, <1>6, <2>1
<1>8. Power(256, 30) = 1766847064778384329583297500742918515827483896875618958121606201292619776
  <2>1. Power(256, 20 + 10) = Power(256, 20) * Power(256, 10)
    BY <1>1, PowerSum
  <2>. QED  BY <1>7, <1>6, <2>1
<1>9. Power(58, 1) = 58
  <2>1. Power(58, 0) = 1 /\ Power(58, 0 + 1) = 58 * Power(58, 0)
    BY <1>1, Powers
  <2>. QED  BY <2>1
<1>10. Power(58, 2) = 3364
  <2>1. Power(58, 1 + 1) = Power(58, 1) * Power(58, 1)
    BY <1>1, PowerSum
  <2>. QED  BY <1>9, <1>9, <2>1
<1>11. Power(58, 4) = 11316496
  <2>1. Power(58, 2 + 2) = Power(58, 2) * Power(58, 2)
    BY <1>1, PowerSum
  <2>. QED  BY <1>10, <1>10, <2>1
<1>12. Power(58, 8) = 128063081718016
  <2>1. Power(58, 4 + 4) = Power(58, 4) * Power(58, 4)
    BY <1>1, PowerSum
  <2>. QED  BY <1>11, <1>11, <2>1
<1>13. Power(58, 10) = 430804206899405824
  <2>1. Power(58, 8 + 2) = Power(58, 8) * Power(58, 2)
    BY <1>1, PowerSum
  <2>. QED  BY <1>12, <1>10, <2>1
<1>14. Power(58, 11) = 24986644000165537792
  <2>1. Power(58, 10 + 1) = Power(58, 10) * Power(58, 1)
    BY <1>1, PowerSum
  <2>. QED  BY <1>13, <1>9, <2>1
<1>15. Power(58, 20) = 185592264682226060569122324245118976
  <2>1. Power(58, 10 + 10) = Power(58, 10) * Power(58, 10)
    BY <1>1, PowerSum
  <2>. QED  BY <1>13, <1>13, <2>1
<1>16. Power(58, 40) = 34444488709877454747081479018851205589883534409595458615323760395288576
  <2>1. Power(58, 20 + 20) = Power(58, 20) * Power(58, 20)
    BY <1>1, PowerSum
  <2>. QED  BY <1>15, <1>15, <2>1
<1>17. Power(58, 41) = 1997780345172892375330725783093369924213244995756536599688778102926737408
  <2>1. Power(58, 40 + 1) = Power(58, 40) * Power(58, 1)
    BY <1>1, PowerSum
  <2>. QED  BY <1>16, <1>9, <2>1
<1>. QED  BY <1>5, <1>8, <1>14, <1>17

\* The room that base58_encode and base58_decode reckon with is enough.
LEMMA RealIsRoomy == Roomy(Real)
<1>1. /\ Real.from = 256 /\ Real.to = 58 /\ Real.num = 138 /\ Real.den = 100
      /\ Real.maxEnc = 120 /\ Real.maxDec = 164
  BY DEF Real
<1>2. 256 \in Nat \ {0} /\ 58 \in Nat \ {0} /\ 7 + 1 = 8 /\ 29 + 1 = 30
  OBVIOUS
<1>3. Power(256, 120) <= Power(58, 164)
  <2>1. Power(256, 29 + 1) <= Power(58, 41)
    BY <1>2, RealPowers
  <2>2. 41 * 120 <= (29 + 1) * 164
    OBVIOUS
  <2>. QED  BY <1>2, <2>1, <2>2, PowersFit
<1>4. ASSUME NEW n \in 0 .. 120  PROVE Power(256, n) <= Power(58, Size(Real, n))
  <2> DEFINE s == Size(Real, n)
             q == (n * 138) \div 100
  <2>1. s = q + 1
    BY <1>1 DEF Size
  <2>2. q \in Nat /\ n * 138 <= 100 * q + 99
    OBVIOUS
  <2> HIDE DEF q, s
  <2>3. s \in Nat /\ 11 * n <= (7 + 1) * s
    BY <2>1, <2>2
  <2>4. Power(256, 7 + 1) <= Power(58, 11)
    BY <1>2, RealPowers
  <2>5. n \in Nat
    OBVIOUS
  <2>6. Power(256, n) <= Power(58, s)
    BY <1>2, <2>3, <2>4, <2>5, PowersFit
  <2>. QED  BY <2>6 DEF s
<1>5. \A n \in 0 .. 120 : Power(256, n) <= Power(58, Size(Real, n))
  BY <1>4
<1>6. /\ 58 \in Nat \ {0, 1} /\ 256 \in Nat /\ 58 <= 256 /\ 100 \in Nat \ {0} /\ 138 \in Nat
      /\ 100 <= 138 /\ 120 \in Nat /\ 164 \in Nat
  OBVIOUS
<1>. QED  BY <1>1, <1>3, <1>5, <1>6 DEF Roomy
---------------------------------------------------------------------------
(* The text of an address.                                                  *)

LEMMA XorByteIs ==
  ASSUME NEW a \in Nat, NEW b \in Nat
  PROVE  XorByte(a, b) \in Byte(256)
<1> DEFINE bits == [k \in 1 .. 8 |->
                      (a \div Power(2, k - 1) + b \div Power(2, k - 1)) % 2]
<1>1. ASSUME NEW k \in 1 .. 8  PROVE bits[k] \in 0 .. 1
  <2> DEFINE d == Power(2, k - 1)
  <2>1. d \in Nat \ {0}
    <3>1. k - 1 \in Nat /\ 2 \in Nat \ {0}
      OBVIOUS
    <3>. QED  BY <3>1, PowersPositive
  <2>2. bits[k] = (a \div d + b \div d) % 2
    OBVIOUS
  <2> HIDE DEF d, bits
  <2>3. a \div d \in Nat /\ b \div d \in Nat
    BY <2>1
  <2>. QED  BY <2>2, <2>3
<1>2. DOMAIN bits = 1 .. 8 /\ XorByte(a, b) = ReadLE(2, bits)
  BY DEF XorByte
<1> HIDE DEF bits
<1>3. ReadLE(2, bits) =
        bits[1] + 2 * (bits[2] + 2 * (bits[3] + 2 * (bits[4] + 2 * (bits[5]
        + 2 * (bits[6] + 2 * (bits[7] + 2 * bits[8]))))))
  BY <1>2 DEF ReadLE
<1>4. /\ bits[1] \in 0 .. 1 /\ bits[2] \in 0 .. 1 /\ bits[3] \in 0 .. 1
      /\ bits[4] \in 0 .. 1 /\ bits[5] \in 0 .. 1 /\ bits[6] \in 0 .. 1
      /\ bits[7] \in 0 .. 1 /\ bits[8] \in 0 .. 1
  BY <1>1
<1>5. ReadLE(2, bits) \in 0 .. 255
  BY <1>3, <1>4
<1>. QED  BY <1>2, <1>5 DEF Byte

\* The check byte of an address is a byte.
LEMMA XorIs ==
  ASSUME NEW s \in Seq(Byte(256))
  PROVE  Xor(s) \in Byte(256)
<1> DEFINE n == Len(s)
           xor == CHOOSE xor : xor =
                    [k \in 0 .. Len(s) |-> IF k = 0 THEN 0 ELSE XorByte(xor[k - 1], s[k])]
           B == Byte(256)
           step == [k \in Nat |-> [x \in B |-> IF k \in 1 .. n THEN XorByte(x, s[k]) ELSE x]]
<1>1. Xor(s) = xor[Len(s)]
  BY DEF Xor
<1>2. n \in Nat /\ 0 \in B /\ \A k \in 1 .. n : s[k] \in B
  <2>1. s \in [1 .. Len(s) -> Byte(256)] /\ Len(s) \in Nat
    BY LenProperties
  <2>2. 0 \in Byte(256)
    BY DEF Byte
  <2>. QED  BY <2>1, <2>2
<1>3. \A x \in B : x \in Nat
  BY DEF Byte
<1> HIDE DEF B, n
<1>4. ASSUME NEW k \in 1 .. n, NEW x \in B  PROVE XorByte(x, s[k]) \in B
  BY <1>2, <1>3, XorByteIs DEF B
<1>5. step \in [Nat -> [B -> B]]
  BY <1>4
<1>6. \A k \in 1 .. n, x \in B : step[k][x] = XorByte(x, s[k])
  BY <1>2
<1> HIDE DEF step
<1>7. PICK f \in [0 .. n -> B] : Follows(f, n, 0, step)
  BY <1>2, <1>5, StepsExist
<1>8. f[0] = 0
  <2>1. 0 \in 0 .. n
    BY <1>2
  <2>. QED  BY <1>7, <2>1 DEF Follows
<1>9. ASSUME NEW k \in 1 .. n  PROVE f[k] = XorByte(f[k - 1], s[k])
  <2>1. k \in 0 .. n /\ k # 0 /\ k - 1 \in 0 .. n
    BY <1>2
  <2>2. f[k] = step[k][f[k - 1]] /\ f[k - 1] \in B
    BY <1>7, <2>1 DEF Follows
  <2>. QED  BY <1>6, <2>2
<1>10. \A k \in 0 .. n : k # 0 => k \in 1 .. n
  BY <1>2
<1>11. f = [k \in 0 .. n |-> IF k = 0 THEN 0 ELSE XorByte(f[k - 1], s[k])]
  BY <1>8, <1>9, <1>10
<1>12. xor = [k \in 0 .. n |-> IF k = 0 THEN 0 ELSE XorByte(xor[k - 1], s[k])]
  BY <1>11, Zenon DEF n
<1> HIDE DEF xor
<1> DEFINE T == {k \in Nat : k <= n => xor[k] \in B}
<1>13. 0 \in T
  <2>1. 0 \in 0 .. n
    BY <1>2
  <2>2. xor[0] = 0
    BY <1>12, <2>1
  <2>. QED  BY <1>2, <2>2
<1>14. ASSUME NEW k \in T  PROVE k + 1 \in T
  <2>1. k \in Nat /\ k + 1 \in Nat
    OBVIOUS
  <2>2. ASSUME k + 1 <= n  PROVE xor[k + 1] \in B
    <3>1. k + 1 \in 0 .. n /\ k + 1 \in 1 .. n /\ k + 1 # 0 /\ (k + 1) - 1 = k /\ k <= n
      BY <1>2, <2>1, <2>2
    <3>2. xor[k] \in B
      BY <3>1
    <3>3. xor[k + 1] = XorByte(xor[k], s[k + 1])
      BY <1>12, <3>1
    <3>. QED  BY <1>4, <3>1, <3>2, <3>3
  <2>. QED  BY <2>1, <2>2
<1>15. T \in SUBSET Nat
  OBVIOUS
<1>16. T = Nat
  <2> HIDE DEF T
  <2>. QED  BY <1>13, <1>14, <1>15, Induction
<1>17. n \in T /\ n <= n
  <2> HIDE DEF T
  <2>. QED  BY <1>2, <1>16
<1>. QED  BY <1>1, <1>17 DEF n, B

\* How many characters a number has whose first byte is one of 1 to 9, and that
\* has 23 behind it.
LEMMA AddressPowers ==
  Power(58, 31) <= Power(256, 23) /\ 10 * Power(256, 23) <= Power(58, 32)
<1>1. 256 \in Nat \ {0} /\ 58 \in Nat \ {0} /\ 256 \in Int /\ 58 \in Int
  OBVIOUS
<1>2. Power(256, 1) = 256
  <2>1. Power(256, 0) = 1 /\ Power(256, 0 + 1) = 256 * Power(256, 0)
    BY <1>1, Powers
  <2>. QED  BY <2>1
<1>3. Power(256, 2) = 65536
  <2>1. Power(256, 1 + 1) = Power(256, 1) * Power(256, 1)
    BY <1>1, PowerSum
  <2>. QED  BY <1>2, <1>2, <2>1
<1>4. Power(256, 3) = 16777216
  <2>1. Power(256, 2 + 1) = Power(256, 2) * Power(256, 1)
    BY <1>1, PowerSum
  <2>. QED  BY <1>3, <1>2, <2>1
<1>5. Power(256, 5) = 1099511627776
  <2>1. Power(256, 3 + 2) = Power(256, 3) * Power(256, 2)
    BY <1>1, PowerSum
  <2>. QED  BY <1>4, <1>3, <2>1
<1>6. Power(256, 10) = 1208925819614629174706176
  <2>1. Power(256, 5 + 5) = Power(256, 5) * Power(256, 5)
    BY <1>1, PowerSum
  <2>. QED  BY <1>5, <1>5, <2>1
<1>7. Power(256, 20) = 1461501637330902918203684832716283019655932542976
  <2>1. Power(256, 10 + 10) = Power(256, 10) * Power(256, 10)
    BY <1>1, PowerSum
  <2>. QED  BY <1>6, <1>6, <2>1
<1>8. Power(256, 23) = 24519928653854221733733552434404946937899825954937634816
  <2>1. Power(256, 20 + 3) = Power(256, 20) * Power(256, 3)
    BY <1>1, PowerSum
  <2>. QED  BY <1>7, <1>4, <2>1
<1>9. Power(58, 1) = 58
  <2>1. Power(58, 0) = 1 /\ Power(58, 0 + 1) = 58 * Power(58, 0)
    BY <1>1, Powers
  <2>. QED  BY <2>1
<1>10. Power(58, 2) = 3364
  <2>1. Power(58, 1 + 1) = Power(58, 1) * Power(58, 1)
    BY <1>1, PowerSum
  <2>. QED  BY <1>9, <1>9, <2>1
<1>11. Power(58, 3) = 195112
  <2>1. Power(58, 2 + 1) = Power(58, 2) * Power(58, 1)
    BY <1>1, PowerSum
  <2>. QED  BY <1>10, <1>9, <2>1
<1>12. Power(58, 4) = 11316496
  <2>1. Power(58, 2 + 2) = Power(58, 2) * Power(58, 2)
    BY <1>1, PowerSum
  <2>. QED  BY <1>10, <1>10, <2>1
<1>13. Power(58, 7) = 2207984167552
  <2>1. Power(58, 4 + 3) = Power(58, 4) * Power(58, 3)
    BY <1>1, PowerSum
  <2>. QED  BY <1>12, <1>11, <2>1
<1>14. Power(58, 8) = 128063081718016
  <2>1. Power(58, 4 + 4) = Power(58, 4) * Power(58, 4)
    BY <1>1, PowerSum
  <2>. QED  BY <1>12, <1>12, <2>1
<1>15. Power(58, 15) = 282761256881297307761016832
  <2>1. Power(58, 8 + 7) = Power(58, 8) * Power(58, 7)
    BY <1>1, PowerSum
  <2>. QED  BY <1>14, <1>13, <2>1
<1>16. Power(58, 16) = 16400152899115243850138976256
  <2>1. Power(58, 8 + 8) = Power(58, 8) * Power(58, 8)
    BY <1>1, PowerSum
  <2>. QED  BY <1>14, <1>14, <2>1
<1>17. Power(58, 31) = 4637327846799278236670872192076827363889989062064340992
  <2>1. Power(58, 16 + 15) = Power(58, 16) * Power(58, 15)
    BY <1>1, PowerSum
  <2>. QED  BY <1>16, <1>15, <2>1
<1>18. Power(58, 32) = 268965015114358137726910587140455987105619365599731777536
  <2>1. Power(58, 16 + 16) = Power(58, 16) * Power(58, 16)
    BY <1>1, PowerSum
  <2>. QED  BY <1>16, <1>16, <2>1
<1>. QED  BY <1>8, <1>17, <1>18

LEMMA TupleIsSeq ==
  ASSUME NEW S, NEW n \in Nat, NEW s \in [1 .. n -> S]
  PROVE  s \in Seq(S) /\ Len(s) = n
<1>1. s \in UNION {[1 .. m -> S] : m \in Nat}
  OBVIOUS
<1>2. s \in Seq(S)
  BY <1>1, SeqDef
<1>3. DOMAIN s = 1 .. n
  OBVIOUS
<1>4. Len(s) \in Nat /\ DOMAIN s = 1 .. Len(s)
  BY <1>2, LenProperties
<1>. QED  BY <1>2, <1>3, <1>4

LEMMA OneByte ==
  ASSUME NEW S, NEW s \in Seq(S), Len(s) = 1
  PROVE  s = <<s[1]>>
<1>1. s \in [1 .. 1 -> S]
  BY LenProperties
<1>. QED  BY <1>1

\* The text of an address fills its string, and is decoded to the address and
\* its check byte.
LEMMA AddressTextIs ==
  ASSUME NEW address \in [1 .. AddressLen -> Byte(256)], address[1] \in 1 .. 9
  PROVE  \E text \in Seq(Byte(58)) :
           /\ AddressText(address) = [ok |-> TRUE, out |-> text] /\ Len(text) = TextRoom
           /\ Decode(Real, text, AddressLen + 1)
                = [ok |-> TRUE, out |-> Append(address, Xor(address))]
<1> DEFINE f == 256
           b == 58
           x == Xor(address)
           in == address \o <<x>>
           B == Byte(f)
<1>0. Real.from = f /\ Real.to = b /\ Real.maxEnc = 120 /\ Real.maxDec = 164 /\ Roomy(Real)
  BY RealIsRoomy DEF Real
<1>1. f \in Nat \ {0} /\ b \in Nat \ {0} /\ f \in Int /\ b \in Int /\ b <= f
  OBVIOUS
<1>2. address \in Seq(B) /\ Len(address) = 23
  <2> HIDE DEF B
  <2>1. 23 \in Nat /\ address \in [1 .. 23 -> B]
    BY DEF AddressLen, B
  <2> DEFINE n == 23
  <2>2. n \in Nat /\ address \in [1 .. n -> B]
    BY <2>1
  <2> HIDE DEF n
  <2>3. address \in Seq(B) /\ Len(address) = n
    BY ZenonT(60), <2>2, TupleIsSeq
  <2>. QED  BY <2>3 DEF n
<1>3. x \in B
  BY <1>2, XorIs
<1>4. AddressText(address) = Encode(Real, in, TextRoom) /\ TextRoom = 32 /\ AddressLen + 1 = 24
  BY DEF AddressText, TextRoom, AddressLen
<1>5. in = Append(address, x)
  BY <1>2, <1>3, AppendIsConcat
<1>16. Power(b, 31) <= Power(f, 23) /\ 10 * Power(f, 23) <= Power(b, 32)
  BY AddressPowers
<1> HIDE DEF x, f, b
<1>6. in \in Seq(B) /\ Len(in) = 24 /\ in[1] = address[1]
  <2> DEFINE t == <<x>>
  <2>1. t \in Seq(B) /\ Len(t) = 1
    <3> HIDE DEF B
    <3>. QED  BY <1>3
  <2> HIDE DEF B, t
  <2>2. address \o t \in Seq(B) /\ Joined(address \o t, address, t)
    BY <1>2, <2>1, JoinedAre, Zenon
  <2>3. in = address \o t
    BY DEF t
  <2>4. 1 \in 1 .. 23 /\ 23 + 1 = 24
    OBVIOUS
  <2> HIDE DEF in
  <2>5. /\ Len(in) = Len(address) + Len(t)
        /\ \A i \in 1 .. Len(address) : in[i] = address[i]
    BY <2>2, <2>3, Zenon DEF Joined
  <2>6. Len(in) = 24
    BY <1>2, <2>1, <2>4, <2>5, Zenon
  <2>7. in[1] = address[1]
    BY <1>2, <2>4, <2>5, Zenon
  <2>. QED  BY <2>2, <2>3, <2>6, <2>7
<1> HIDE DEF in, B
<1>7. Bare(in) /\ LeadingZeros(in) = 0
  <2>1. in \in Seq(Int)
    BY <1>1, <1>6, BytesInt DEF B
  <2>2. LeadingZeros(in) \in 0 .. 24 /\ \A k \in 1 .. LeadingZeros(in) : in[k] = 0
    BY <1>6, <2>1, LeadingZerosAre
  <2>3. in[1] # 0
    BY <1>6
  <2>4. LeadingZeros(in) # 0 => 1 \in 1 .. LeadingZeros(in)
    BY SMTT(30), <2>2
  <2>. QED  BY <2>2, <2>3, <2>4 DEF Bare
<1> DEFINE v == ValueIn(f, in)
<1>8. /\ v \in Nat /\ Power(f, 23) \in Nat /\ Power(f, 23) <= v
      /\ v < 10 * Power(f, 23)
  <2> DEFINE s == SubSeq(in, 1, 1)
             u == SubSeq(in, 1 + 1, Len(in))
  <2>1. /\ s \in Seq(B) /\ Len(s) = 1 /\ u \in Seq(B) /\ Len(u) = 24 - 1 /\ Joined(in, s, u)
    <3>1. 1 \in 0 .. Len(in)
      BY <1>6
    <3>. QED  BY ZenonT(60), <1>6, <3>1, PartsJoined
  <2>2. s = <<in[1]>>
    <3>1. s[1] = in[1]
      <4>1. 1 \in 1 .. 1
        OBVIOUS
      <4>. QED  BY <2>1, <4>1 DEF Joined
    <3>2. s = <<s[1]>>
      BY <2>1, OneByte
    <3>. QED  BY <3>1, <3>2
  <2> HIDE DEF s, u
  <2>3. in \in Seq(Int) /\ s \in Seq(Int) /\ u \in Seq(Int)
    BY <1>1, <1>6, <2>1, BytesInt DEF B
  <2>4. ValueIn(f, in) = ValueIn(f, s) * Power(f, Len(u)) + ValueIn(f, u)
    BY ZenonT(60), <1>1, <2>1, <2>3, ValueJoined
  <2>5. ValueIn(f, s) = in[1]
    BY <1>1, <1>6, <2>2, ValueOne
  <2>6. ValueIn(f, u) \in Nat /\ ValueIn(f, u) < Power(f, Len(u))
    BY <1>1, <2>1, ValueRange DEF B
  <2>7. Len(u) = 23 /\ Power(f, 23) \in Nat
    <3>1. 23 \in Nat /\ 24 - 1 = 23
      OBVIOUS
    <3>. QED  BY <1>1, <2>1, <3>1, PowersPositive
  <2> DEFINE p == Power(f, 23)
             d == in[1]
             r == ValueIn(f, u)
  <2>8. p \in Nat /\ d \in 1 .. 9 /\ r \in Nat /\ r < p /\ v = d * p + r
    BY <1>6, <2>4, <2>5, <2>6, <2>7
  <2> HIDE DEF p, d, r, v
  <2>9. v \in Nat /\ p <= v /\ v < 10 * p
    BY <2>8
  <2>. QED  BY <2>8, <2>9 DEF p
<1> HIDE DEF v
<1>9. PICK text \in Seq(Byte(b)) :
        /\ \A room \in Nat :
             Len(text) <= room => Encode(Real, in, room) = [ok |-> TRUE, out |-> text]
        /\ Len(text) <= 164
        /\ LeadingZeros(text) = 0
        /\ ValueIn(b, text) = v
  <2>1. in \in Seq(Byte(Real.from)) /\ Len(in) <= Real.maxEnc
    BY <1>0, <1>6 DEF B
  <2>2. \E text \in Seq(Byte(Real.to)) :
          /\ \A room \in Nat :
               Len(text) <= room => Encode(Real, in, room) = [ok |-> TRUE, out |-> text]
          /\ Len(text) <= Real.maxDec
          /\ LeadingZeros(text) = LeadingZeros(in)
          /\ ValueIn(Real.to, text) = ValueIn(Real.from, in)
    BY <1>0, <2>1, EncodeIs
  <2>. QED  BY <1>0, <1>7, <2>2 DEF v
<1> DEFINE n == Len(text)
<1>10. n \in Nat /\ v < Power(b, n) /\ text \in Seq(Int)
  BY <1>1, <1>9, BytesInt, ValueRange
<1> HIDE DEF n
<1>11. 31 < n
  <2>1. n \in Nat /\ 31 \in Nat
    BY <1>10
  <2>2. ASSUME n <= 31  PROVE FALSE
    <3>1. Power(b, n) <= Power(b, 31)
      BY <1>1, <2>1, <2>2, PowersGrow
    <3>2. Power(b, n) \in Nat /\ Power(b, 31) \in Nat
      BY <1>1, <2>1, PowersPositive
    <3>. QED  BY <1>8, <1>10, <3>1, <3>2, <1>16
  <2>. QED  BY <2>1, <2>2
<1>12. n < 33
  <2>1. n - 1 \in Nat /\ 32 \in Nat
    BY <1>10, <1>11
  <2>2. Power(b, n - 1) <= v
    <3>1. LeadingZeros(text) < Len(text) => text[LeadingZeros(text) + 1] # 0
      BY <1>10, LeadingZerosAre
    <3>2. Bare(text)
      <4>1. 0 < Len(text) /\ 0 + 1 = 1
        BY <1>10, <1>11 DEF n
      <4>. QED  BY <1>9, <3>1, <4>1 DEF Bare
    <3>3. Len(text) > 0
      BY <1>10, <1>11 DEF n
    <3>. QED  BY <1>1, <1>9, <3>2, <3>3, ValueLeast DEF n
  <2>3. ASSUME 32 <= n - 1  PROVE FALSE
    <3>1. Power(b, 32) <= Power(b, n - 1)
      BY <1>1, <2>1, <2>3, PowersGrow
    <3>2. Power(b, n - 1) \in Nat /\ Power(b, 32) \in Nat
      BY <1>1, <2>1, PowersPositive
    <3>. QED  BY <1>8, <2>2, <3>1, <3>2, <1>16
  <2>. QED  BY <1>10, <2>1, <2>3
<1>13. Len(text) = 32
  <2>1. n = 32
    BY <1>10, <1>11, <1>12
  <2>. QED  BY <2>1 DEF n
<1>14. AddressText(address) = [ok |-> TRUE, out |-> text]
  <2>1. 32 \in Nat /\ Len(text) <= 32
    BY <1>13
  <2>. QED  BY <1>4, <1>9, <2>1
<1>15. Decode(Real, text, 24) = [ok |-> TRUE, out |-> in]
  <2>1. Decodable(Real, f, b, text)
    BY <1>0, <1>1, <1>13 DEF Decodable
  <2>2. Decodes(Real, f, b, text, 24)
    <3>1. 24 \in Nat
      OBVIOUS
    <3>. QED  BY <2>1, <3>1, DecodeIs
  <2>3. PICK out \in Seq(Byte(f)) :
          /\ Len(out) <= 24 => Decode(Real, text, 24) = [ok |-> TRUE, out |-> out]
          /\ LeadingZeros(out) = LeadingZeros(text)
          /\ ValueIn(f, out) = ValueIn(b, text)
    BY <2>2 DEF Decodes
  <2>4. in = out
    <3>1. LeadingZeros(in) = LeadingZeros(out) /\ ValueIn(f, in) = ValueIn(f, out)
      BY <1>7, <1>9, <2>3 DEF v
    <3>2. in \in Seq(Byte(f))
      BY <1>6 DEF B
    <3>. QED  BY <1>1, <3>1, <3>2, TextUnique
  <2>5. Len(out) <= 24
    <3>1. 24 <= 24
      OBVIOUS
    <3>. QED  BY <1>6, <2>4, <3>1
  <2>. QED  BY <2>3, <2>4, <2>5
<1>. QED  BY <1>4, <1>5, <1>13, <1>14, <1>15 DEF x, b

=============================================================================
