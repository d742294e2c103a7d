---------------------------- MODULE FormatProofs ----------------------------
(***************************************************************************)
(* The texts of numbers, and the numbers and the amounts that bytes are     *)
(* read as, for words, strings and amounts of every width.                  *)
(***************************************************************************)
EXTENDS Library, Uint256Proofs, SequenceTheorems

---------------------------------------------------------------------------
(* Digits, and the number they show.                                        *)

LEMMA Tens ==
  /\ Power(10, 0) = 1
  /\ \A n \in Nat : Power(10, n) \in Nat \ {0} /\ Power(10, n + 1) = 10 * Power(10, n)
<1>1. 10 \in Int /\ 10 \in Nat \ {0}
  OBVIOUS
<1>. QED  BY <1>1, Powers, PowersPositive

\* Two functions that start alike, and go on alike.
Alike(v, w, m) == v[0] = w[0] /\ \A k \in 1 .. m : v[k - 1] = w[k - 1] => v[k] = w[k]

LEMMA RunsAgree ==
  ASSUME NEW m \in Nat, NEW v, NEW w, Alike(v, w, m)
  PROVE  \A k \in 0 .. m : v[k] = w[k]
<1> DEFINE T == {k \in Nat : k <= m => v[k] = w[k]}
<1>1. 0 \in T
  BY DEF Alike
<1>2. ASSUME NEW k \in T  PROVE k + 1 \in T
  <2>1. k \in Nat
    OBVIOUS
  <2>2. ASSUME k + 1 <= m  PROVE v[k + 1] = w[k + 1]
    <3>1. k + 1 \in 1 .. m /\ (k + 1) - 1 = k /\ v[k] = w[k]
      BY <2>1, <2>2
    <3>. QED  BY <3>1 DEF Alike
  <2>. QED  BY <2>1, <2>2
<1>3. T \in SUBSET Nat
  OBVIOUS
<1>4. T = Nat
  <2> HIDE DEF T
  <2>. QED  BY <1>1, <1>2, <1>3, Induction
<1>5. \A k \in Nat : k <= m => v[k] = w[k]
  BY <1>4
<1> HIDE DEF T
<1>. QED  BY <1>5

\* The number that digits show in a base, the first one the most, and the
\* numbers that their beginnings show.
ValueIn(b, s) ==
  LET value[k \in 0 .. Len(s)] == IF k = 0 THEN 0 ELSE b * value[k - 1] + s[k]
  IN value[Len(s)]

UpTo(b, m, v, s) == v[0] = 0 /\ \A k \in 1 .. m : v[k] = b * v[k - 1] + s[k]
ValueRun(b, v, s) == UpTo(b, Len(s), v, s)

\* One text and another behind it.
Joined(u, s, t) ==
  /\ Len(u) = Len(s) + Len(t)
  /\ \A i \in 1 .. Len(s) : u[i] = s[i]
  /\ \A j \in 1 .. Len(t) : u[Len(s) + j] = t[j]

LEMMA ValueRunsAgree ==
  ASSUME NEW b \in Int, NEW s, NEW m \in Nat, NEW v, NEW w, UpTo(b, m, v, s), UpTo(b, m, w, s)
  PROVE  \A k \in 0 .. m : v[k] = w[k]
<1>1. Alike(v, w, m)
  BY DEF UpTo, Alike
<1>. QED  BY <1>1, RunsAgree

LEMMA ValueIs ==
  ASSUME NEW b \in Int, NEW s \in Seq(Int)
  PROVE  \E v \in [0 .. Len(s) -> Int] : ValueRun(b, v, s) /\ ValueIn(b, s) = v[Len(s)]
<1> DEFINE m == Len(s)
           step == [n \in Nat |-> [x \in Int |-> IF n \in 1 .. m THEN b * x + s[n] ELSE x]]
           value == CHOOSE value : value =
             [k \in 0 .. m |-> IF k = 0 THEN 0 ELSE b * value[k - 1] + s[k]]
<1>1. m \in Nat /\ \A k \in 1 .. m : s[k] \in Int
  OBVIOUS
<1>2. ValueIn(b, s) = value[m]
  BY DEF ValueIn
<1> HIDE DEF m, value
<1>3. step \in [Nat -> [Int -> Int]]
  BY <1>1
<1>4. \A n \in 1 .. m, x \in Int : step[n][x] = b * x + s[n]
  BY <1>1
<1> HIDE DEF step
<1>5. PICK f \in [0 .. m -> Int] : Follows(f, m, 0, step)
  <2> DEFINE S == Int
             a == 0
  <2>0. 0 \in Int
    OBVIOUS
  <2>1. a \in S /\ step \in [Nat -> [S -> S]]
    BY <1>3, <2>0, Zenon
  <2> HIDE DEF S, a
  <2>2. \E f \in [0 .. m -> S] : Follows(f, m, a, step)
    BY <1>1, <2>1, StepsExist
  <2>. QED  BY <2>2 DEF S, a
<1>6. ASSUME NEW k \in 0 .. m
      PROVE  f[k] = IF k = 0 THEN 0 ELSE b * f[k - 1] + s[k]
  <2>1. CASE k = 0
    BY <1>5, <2>1 DEF Follows
  <2>2. CASE k # 0
    <3>1. k \in 1 .. m /\ k - 1 \in 0 .. m /\ f[k - 1] \in Int
      BY <1>1, <2>2
    <3>2. f[k] = step[k][f[k - 1]]
      BY <1>5, <2>2 DEF Follows
    <3>. QED  BY <1>4, <2>2, <3>1, <3>2
  <2>. QED  BY <2>1, <2>2
<1>7. f = [k \in 0 .. m |-> IF k = 0 THEN 0 ELSE b * f[k - 1] + s[k]]
  BY <1>6
<1>8. value = [k \in 0 .. m |-> IF k = 0 THEN 0 ELSE b * value[k - 1] + s[k]]
  BY <1>7 DEF value
<1>9. value[0] = 0 /\ \A k \in 1 .. m : value[k] = b * value[k - 1] + s[k]
  <2>1. \A k \in 0 .. m : value[k] = IF k = 0 THEN 0 ELSE b * value[k - 1] + s[k]
    BY <1>8
  <2>2. 0 \in 0 .. m /\ \A k \in 1 .. m : k \in 0 .. m /\ k # 0
    BY <1>1
  <2>. QED  BY <2>1, <2>2
<1>10. f[0] = 0 /\ \A k \in 1 .. m : f[k] = b * f[k - 1] + s[k]
  BY <1>1, <1>6
<1>11. value[m] = f[m]
  <2>0. UpTo(b, m, value, s) /\ UpTo(b, m, f, s)
    BY <1>9, <1>10 DEF UpTo
  <2>1. \A k \in 0 .. m : value[k] = f[k]
    BY <1>1, <2>0, ValueRunsAgree
  <2>. QED  BY <1>1, <2>1
<1>. QED  BY <1>2, <1>10, <1>11 DEF ValueRun, UpTo, m

\* What such a run ends with is what the text shows.
LEMMA ValueRuns ==
  ASSUME NEW b \in Int, NEW s \in Seq(Int), NEW v, ValueRun(b, v, s)
  PROVE  ValueIn(b, s) = v[Len(s)]
<1>1. PICK w \in [0 .. Len(s) -> Int] : ValueRun(b, w, s) /\ ValueIn(b, s) = w[Len(s)]
  BY ValueIs
<1> DEFINE m == Len(s)
<1>2. m \in Nat /\ m \in 0 .. m
  OBVIOUS
<1>3. UpTo(b, m, v, s) /\ UpTo(b, m, w, s)
  BY <1>1 DEF ValueRun
<1> HIDE DEF m
<1>4. \A k \in 0 .. m : v[k] = w[k]
  <2>1. m \in Nat
    BY <1>2
  <2>2. Alike(v, w, m)
    BY <1>3 DEF UpTo, Alike
  <2>. QED  BY <2>1, <2>2, RunsAgree
<1>. QED  BY <1>1, <1>2, <1>4 DEF m

LEMMA ValueInt ==
  ASSUME NEW b \in Int, NEW s \in Seq(Int)
  PROVE  ValueIn(b, s) \in Int
<1>1. PICK v \in [0 .. Len(s) -> Int] : ValueIn(b, s) = v[Len(s)]
  BY ValueIs
<1>2. Len(s) \in 0 .. Len(s)
  OBVIOUS
<1>. QED  BY <1>1, <1>2

\* The value of two texts behind each other.
LEMMA ValueJoined ==
  ASSUME NEW b \in Int, NEW u \in Seq(Int), NEW s \in Seq(Int), NEW t \in Seq(Int), Joined(u, s, t)
  PROVE  ValueIn(b, u) = ValueIn(b, s) * Power(b, Len(t)) + ValueIn(b, t)
<1> DEFINE m == Len(s)
           n == Len(t)
<1>1. m \in Nat /\ n \in Nat /\ Len(u) = m + n
  BY DEF Joined
<1>2. /\ \A i \in 1 .. m : u[i] = s[i]
      /\ \A j \in 1 .. n : u[m + j] = t[j] /\ t[j] \in Int
  BY DEF Joined
<1>3. PICK v \in [0 .. Len(u) -> Int] : ValueRun(b, v, u) /\ ValueIn(b, u) = v[Len(u)]
  BY ValueIs
<1>4. PICK w \in [0 .. n -> Int] : ValueRun(b, w, t) /\ ValueIn(b, t) = w[n]
  BY ValueIs
<1>5. v[0] = 0 /\ \A k \in 1 .. m + n : v[k] = b * v[k - 1] + u[k]
  BY <1>1, <1>3 DEF ValueRun, UpTo
<1>6. w[0] = 0 /\ \A k \in 1 .. n : w[k] = b * w[k - 1] + t[k]
  BY <1>4 DEF ValueRun, UpTo
<1>7. v \in [0 .. m + n -> Int] /\ ValueIn(b, u) = v[m + n]
  BY <1>1, <1>3
<1>8. ValueIn(b, s) = v[m]
  <2>1. ASSUME NEW k \in 1 .. m  PROVE v[k] = b * v[k - 1] + s[k]
    <3>1. k \in 1 .. m + n
      BY <1>1
    <3>. QED  BY <1>2, <1>5, <3>1
  <2>2. ValueRun(b, v, s)
    BY <1>5, <2>1 DEF ValueRun, UpTo
  <2>. QED  BY <2>2, ValueRuns
<1> HIDE DEF m, n
<1> DEFINE a == v[m]
           T == {j \in Nat : j <= n => v[m + j] = a * Power(b, j) + w[j]}
<1>9. a \in Int
  BY <1>1, <1>7
<1> HIDE DEF a
<1>10. 0 \in T
  <2>1. Power(b, 0) = 1 /\ m + 0 = m
    BY <1>1, Powers
  <2>2. v[m + 0] = a /\ a * 1 = a /\ a + 0 = a
    BY <1>9, <2>1 DEF a
  <2>. QED  BY <1>6, <2>1, <2>2
<1>11. ASSUME NEW j \in T  PROVE j + 1 \in T
  <2>1. j \in Nat /\ j + 1 \in Nat
    OBVIOUS
  <2>2. ASSUME j + 1 <= n  PROVE v[m + (j + 1)] = a * Power(b, j + 1) + w[j + 1]
    <3>1. /\ j + 1 \in 1 .. n /\ m + (j + 1) \in 1 .. m + n /\ (m + (j + 1)) - 1 = m + j
          /\ (j + 1) - 1 = j /\ j \in 0 .. n
      BY <1>1, <2>1, <2>2
    <3>2. v[m + j] = a * Power(b, j) + w[j]
      BY <2>1, <2>2, <1>1
    <3>3. v[m + (j + 1)] = b * v[m + j] + t[j + 1]
      <4>1. v[m + (j + 1)] = b * v[(m + (j + 1)) - 1] + u[m + (j + 1)]
        BY <1>5, <3>1
      <4>2. u[m + (j + 1)] = t[j + 1]
        BY <1>2, <3>1
      <4>. QED  BY <3>1, <4>1, <4>2
    <3>4. w[j + 1] = b * w[j] + t[j + 1] /\ t[j + 1] \in Int /\ w[j] \in Int
      BY <1>2, <1>4, <1>6, <3>1
    <3>5. Power(b, j + 1) = b * Power(b, j) /\ Power(b, j) \in Int
      <4> HIDE DEF T
      <4>. QED  BY <2>1, PowersPositive, Powers
    <3> DEFINE p == Power(b, j)
               x == w[j]
               d == t[j + 1]
    <3>6. p \in Int /\ x \in Int /\ d \in Int
      BY <3>4, <3>5
    <3> HIDE DEF p, x, d
    <3>7. b * (a * p + x) + d = a * (b * p) + (b * x + d)
      BY <1>9, <3>6
    <3>. QED  BY <3>2, <3>3, <3>4, <3>5, <3>7 DEF p, x, d
  <2>. QED  BY <2>1, <2>2
<1>12. T \in SUBSET Nat
  OBVIOUS
<1>13. T = Nat
  <2> HIDE DEF T
  <2>. QED  BY <1>10, <1>11, <1>12, Induction
<1> HIDE DEF T
<1>14. v[m + n] = a * Power(b, n) + w[n]
  <2>1. n \in T /\ n <= n
    BY <1>1, <1>13
  <2>. QED  BY <2>1 DEF T
<1>. QED  BY <1>4, <1>7, <1>8, <1>14 DEF a, m, n

LEMMA ValueZeros ==
  ASSUME NEW b \in Int, NEW s \in Seq(Int), \A k \in 1 .. Len(s) : s[k] = 0
  PROVE  ValueIn(b, s) = 0
<1> DEFINE v == [k \in 0 .. Len(s) |-> 0]
<1>1. Len(s) \in Nat
  OBVIOUS
<1>2. v[0] = 0 /\ v[Len(s)] = 0
  BY <1>1
<1>3. \A k \in 1 .. Len(s) : v[k] = b * v[k - 1] + s[k]
  <2>. TAKE k \in 1 .. Len(s)
  <2>1. k \in 0 .. Len(s) /\ k - 1 \in 0 .. Len(s) /\ s[k] = 0
    BY <1>1
  <2>2. v[k] = 0 /\ v[k - 1] = 0
    BY <2>1
  <2> HIDE DEF v
  <2>. QED  BY <2>1, <2>2
<1> HIDE DEF v
<1>4. ValueRun(b, v, s)
  BY <1>2, <1>3 DEF ValueRun, UpTo
<1>. QED  BY <1>2, <1>4, ValueRuns

LEMMA ValueNone == \A b \in Int : ValueIn(b, <<>>) = 0
<1>. TAKE b \in Int
<1>1. <<>> \in Seq(Int) /\ Len(<<>>) = 0
  OBVIOUS
<1>2. \A k \in 1 .. Len(<<>>) : <<>>[k] = 0
  BY <1>1
<1>. QED  BY <1>1, <1>2, ValueZeros

LEMMA ValueOne ==
  ASSUME NEW b \in Int, NEW d \in Int
  PROVE  ValueIn(b, <<d>>) = d
<1> DEFINE s == <<d>>
           v == [k \in 0 .. 1 |-> IF k = 0 THEN 0 ELSE d]
<1>1. s \in Seq(Int) /\ Len(s) = 1 /\ s[1] = d
  OBVIOUS
<1>2. v[0] = 0 /\ v[1] = d
  OBVIOUS
<1> HIDE DEF v, s
<1>3. \A k \in 1 .. Len(s) : v[k] = b * v[k - 1] + s[k]
  <2>. TAKE k \in 1 .. Len(s)
  <2>1. k = 1 /\ k - 1 = 0
    BY <1>1
  <2>. QED  BY <1>1, <1>2, <2>1
<1>4. ValueRun(b, v, s)
  BY <1>2, <1>3 DEF ValueRun, UpTo
<1>5. ValueIn(b, s) = v[Len(s)]
  BY <1>1, <1>4, ValueRuns
<1>. QED  BY <1>1, <1>2, <1>5 DEF s

LEMMA BytesInt ==
  ASSUME NEW b \in Int, NEW s \in Seq(Byte(b))
  PROVE  s \in Seq(Int) /\ Len(s) \in Nat /\ \A k \in 1 .. Len(s) : s[k] \in 0 .. b - 1
<1>1. \A d \in Byte(b) : d \in Int
  BY DEF Byte
<1>2. s \in [1 .. Len(s) -> Byte(b)] /\ Len(s) \in Nat
  BY LenProperties
<1>3. s \in [1 .. Len(s) -> Int] /\ \A k \in 1 .. Len(s) : s[k] \in Byte(b)
  BY <1>1, <1>2
<1>. QED  BY <1>2, <1>3 DEF Byte

\* The beginnings of digits show numbers with no more digits ...
LEMMA RunRange ==
  ASSUME NEW b \in Nat \ {0}, NEW s \in Seq(Byte(b)), NEW v, ValueRun(b, v, s)
  PROVE  \A k \in 0 .. Len(s) : v[k] \in 0 .. Power(b, k) - 1
<1> DEFINE m == Len(s)
<1>1. b \in Int /\ s \in Seq(Int) /\ m \in Nat /\ \A k \in 1 .. m : s[k] \in 0 .. b - 1
  BY BytesInt
<1>3. v[0] = 0 /\ \A k \in 1 .. m : v[k] = b * v[k - 1] + s[k]
  BY DEF ValueRun, UpTo
<1> HIDE DEF m
<1> DEFINE T == {k \in Nat : k <= m => v[k] \in 0 .. Power(b, k) - 1}
<1>4. 0 \in T
  <2>1. Power(b, 0) = 1
    BY PowersPositive, Powers
  <2>2. v[0] \in 0 .. Power(b, 0) - 1
    BY <1>3, <2>1
  <2>. QED  BY <2>2
<1>5. ASSUME NEW k \in T  PROVE k + 1 \in T
  <2>1. k \in Nat /\ k + 1 \in Nat
    OBVIOUS
  <2>2. ASSUME k + 1 <= m  PROVE v[k + 1] \in 0 .. Power(b, k + 1) - 1
    <3>1. k + 1 \in 1 .. m /\ (k + 1) - 1 = k /\ v[k] \in 0 .. Power(b, k) - 1
      BY <1>1, <2>1, <2>2
    <3>2. v[k + 1] = b * v[k] + s[k + 1] /\ s[k + 1] \in 0 .. b - 1
      BY <1>1, <1>3, <3>1
    <3> HIDE DEF T
    <3>3. Power(b, k) \in Nat /\ Power(b, k + 1) = b * Power(b, k)
      BY <2>1, PowersPositive, Powers
    <3> DEFINE p == Power(b, k)
               x == v[k]
               d == s[k + 1]
    <3>4. x \in 0 .. p - 1 /\ d \in 0 .. b - 1 /\ p \in Nat
      BY <3>1, <3>2, <3>3
    <3> HIDE DEF p, x, d
    <3>5. b * x + d \in 0 .. b * p - 1
      BY <3>4
    <3>. QED  BY <3>2, <3>3, <3>5 DEF p, x, d
  <2>. QED  BY <2>1, <2>2
<1>6. T \in SUBSET Nat
  OBVIOUS
<1> HIDE DEF T
<1>7. T = Nat
  BY <1>4, <1>5, <1>6, Induction
<1>8. ASSUME NEW k \in 0 .. m  PROVE v[k] \in 0 .. Power(b, k) - 1
  <2>1. k \in T /\ k <= m
    BY <1>1, <1>7
  <2>. QED  BY <2>1 DEF T
<1>. QED  BY <1>8 DEF m

\* ... and so do all of them.
LEMMA ValueRange ==
  ASSUME NEW b \in Nat \ {0}, NEW s \in Seq(Byte(b))
  PROVE  ValueIn(b, s) \in Nat /\ ValueIn(b, s) < Power(b, Len(s))
<1> DEFINE m == Len(s)
<1>1. b \in Int /\ s \in Seq(Int) /\ m \in Nat /\ m \in 0 .. m
  BY BytesInt
<1>2. PICK v : ValueRun(b, v, s) /\ ValueIn(b, s) = v[m]
  BY <1>1, ValueIs
<1>3. v[m] \in 0 .. Power(b, m) - 1
  BY <1>1, <1>2, RunRange
<1> HIDE DEF m
<1>4. Power(b, m) \in Nat
  BY <1>1, PowersPositive
<1>. QED  BY <1>2, <1>3, <1>4 DEF m

LEMMA DigitsInt == \A s \in Seq(Digits) : s \in Seq(Int)
<1>1. \A d \in Digits : d \in Int
  BY DEF Digits
<1>. TAKE s \in Seq(Digits)
<1>2. s \in [1 .. Len(s) -> Digits] /\ Len(s) \in Nat
  BY LenProperties
<1>3. s \in [1 .. Len(s) -> Int]
  BY <1>1, <1>2
<1>. QED  BY <1>2, <1>3

\* The same in base ten.
LEMMA PlainIsValue == \A s : PlainValue(s) = ValueIn(10, s)
BY DEF PlainValue, ValueIn

LEMMA PlainJoined ==
  ASSUME NEW u \in Seq(Int), NEW s \in Seq(Int), NEW t \in Seq(Int), Joined(u, s, t)
  PROVE  PlainValue(u) = PlainValue(s) * Power(10, Len(t)) + PlainValue(t)
<1>1. 10 \in Int
  OBVIOUS
<1>. QED  BY <1>1, ValueJoined, PlainIsValue

LEMMA PlainZeros ==
  ASSUME NEW s \in Seq(Int), \A k \in 1 .. Len(s) : s[k] = 0
  PROVE  PlainValue(s) = 0
<1>1. 10 \in Int
  OBVIOUS
<1>. QED  BY <1>1, ValueZeros, PlainIsValue

LEMMA PlainNone == PlainValue(<<>>) = 0
<1>1. 10 \in Int
  OBVIOUS
<1>. QED  BY <1>1, ValueNone, PlainIsValue

LEMMA PlainOne ==
  ASSUME NEW d \in Int
  PROVE  PlainValue(<<d>>) = d
<1>1. 10 \in Int
  OBVIOUS
<1>. QED  BY <1>1, ValueOne, PlainIsValue

LEMMA PlainRange ==
  ASSUME NEW s \in Seq(Digits)
  PROVE  PlainValue(s) \in Nat /\ PlainValue(s) < Power(10, Len(s))
<1>1. 10 \in Nat \ {0} /\ Digits = Byte(10)
  BY DEF Digits, Byte
<1>. QED  BY <1>1, ValueRange, PlainIsValue

\* The digits are written in the wrong order, and reversed.
LEMMA ReversedDigits ==
  ASSUME NEW out \in Seq(Digits), NEW d \in Digits
  PROVE  /\ Append(out, d) \in Seq(Digits) /\ Len(Append(out, d)) = Len(out) + 1
         /\ Reverse(out) \in Seq(Digits) /\ Len(Reverse(out)) = Len(out)
         /\ Reverse(Append(out, d)) \in Seq(Digits)
         /\ Len(Reverse(Append(out, d))) = Len(out) + 1
         /\ Joined(Reverse(Append(out, d)), <<d>>, Reverse(out))
<1> DEFINE l == Len(out)
           a == Append(out, d)
           r == Reverse(out)
           t == Reverse(a)
<1>1. l \in Nat
  OBVIOUS
<1>2. /\ a \in Seq(Digits) /\ Len(a) = l + 1 /\ a[l + 1] = d
      /\ \A i \in 1 .. l : a[i] = out[i]
  BY AppendProperties
<1>3. ASSUME NEW s \in Seq(Digits)
      PROVE  /\ Reverse(s) \in Seq(Digits) /\ Len(Reverse(s)) = Len(s)
             /\ \A i \in 1 .. Len(s) : Reverse(s)[i] = s[(Len(s) - i) + 1]
  <2> DEFINE n == Len(s)
             z == [i \in 1 .. n |-> s[(n - i) + 1]]
  <2>1. n \in Nat /\ Reverse(s) = z
    BY LenProperties DEF Reverse
  <2>2. \A i \in 1 .. n : s[i] \in Digits
    BY ElementOfSeq
  <2> HIDE DEF n
  <2>3. \A i \in 1 .. n : (n - i) + 1 \in 1 .. n
    BY <2>1
  <2>4. \A i \in 1 .. n : s[(n - i) + 1] \in Digits
    BY <2>2, <2>3
  <2>5. z \in Seq(Digits) /\ Len(z) = n
    BY <2>1, <2>4
  <2>. QED  BY <2>1, <2>5 DEF n
<1>4. /\ r \in Seq(Digits) /\ Len(r) = l
      /\ \A i \in 1 .. l : r[i] = out[(l - i) + 1]
  BY <1>3
<1>5. /\ t \in Seq(Digits) /\ Len(t) = l + 1
      /\ \A i \in 1 .. l + 1 : t[i] = a[((l + 1) - i) + 1]
  <2> HIDE DEF a
  <2>1. /\ Reverse(a) \in Seq(Digits) /\ Len(Reverse(a)) = Len(a)
        /\ \A i \in 1 .. Len(a) : Reverse(a)[i] = a[(Len(a) - i) + 1]
    BY <1>2, <1>3
  <2>. QED  BY <1>2, <2>1
<1> HIDE DEF a, t, r, l
<1> DEFINE z == <<d>>
<1>6. Len(z) = 1 /\ z[1] = d
  OBVIOUS
<1> HIDE DEF z
<1>7. Joined(t, z, r)
  <2>1. Len(t) = Len(z) + Len(r)
    BY <1>1, <1>4, <1>5, <1>6
  <2>2. ASSUME NEW i \in 1 .. Len(z)  PROVE t[i] = z[i]
    <3>1. i = 1 /\ 1 \in 1 .. l + 1 /\ ((l + 1) - 1) + 1 = l + 1
      BY <1>1, <1>6
    <3>. QED  BY <1>2, <1>5, <1>6, <3>1
  <2>3. ASSUME NEW j \in 1 .. Len(r)  PROVE t[Len(z) + j] = r[j]
    <3>1. /\ Len(z) + j = 1 + j /\ j \in 1 .. l /\ 1 + j \in 1 .. l + 1
          /\ ((l + 1) - (1 + j)) + 1 = (l - j) + 1 /\ (l - j) + 1 \in 1 .. l
      BY <1>1, <1>4, <1>6
    <3>2. t[1 + j] = a[((l + 1) - (1 + j)) + 1] /\ r[j] = out[(l - j) + 1]
      BY <1>4, <1>5, <3>1
    <3>3. a[(l - j) + 1] = out[(l - j) + 1]
      BY <1>2, <3>1
    <3>. QED  BY <3>1, <3>2, <3>3
  <2>. QED  BY <2>1, <2>2, <2>3 DEF Joined
<1>. QED  BY <1>2, <1>4, <1>5, <1>7 DEF a, r, t, z, l

\* A number, of which the digits in out have been written and q is left.
WrittenSoFar(n, q, out) ==
  /\ q \in Nat /\ out \in Seq(Digits) /\ (q = 0 => out = <<>>)
  /\ n = q * Power(10, Len(out)) + PlainValue(Reverse(out))

\* The digits of a number, with no zero in front that could be left out.
TextOf(t, n) ==
  /\ t \in Seq(Digits) /\ Len(t) \in Nat \ {0} /\ PlainValue(t) = n
  /\ n < Power(10, Len(t)) /\ (Len(t) = 1 \/ Power(10, Len(t) - 1) <= n)

LEMMA WrittenFirst ==
  ASSUME NEW n \in Nat
  PROVE  WrittenSoFar(n, n, <<>>)
<1>1. <<>> \in Seq(Digits) /\ Len(<<>>) = 0 /\ Reverse(<<>>) = <<>>
  BY DEF Reverse
<1>2. n * 1 + 0 = n
  OBVIOUS
<1>. QED  BY <1>1, <1>2, Tens, PlainNone DEF WrittenSoFar

LEMMA WrittenNext ==
  ASSUME NEW n \in Nat, NEW q, NEW out, WrittenSoFar(n, q, out), q > 9
  PROVE  WrittenSoFar(n, q \div 10, Append(out, q % 10))
<1> DEFINE d == q % 10
           h == q \div 10
           p == Power(10, Len(out))
           r == PlainValue(Reverse(out))
           a == Append(out, d)
<1>1. q \in Nat /\ out \in Seq(Digits) /\ n = q * p + r
  BY DEF WrittenSoFar
<1>2. d \in 0 .. 9 /\ h \in Nat /\ q = 10 * h + d /\ h # 0
  BY <1>1
<1>3. d \in Digits /\ d \in Int
  BY <1>2 DEF Digits
<1> HIDE DEF d, h
<1>4. /\ a \in Seq(Digits) /\ Len(a) = Len(out) + 1 /\ Len(out) \in Nat
      /\ Reverse(out) \in Seq(Digits) /\ Len(Reverse(out)) = Len(out)
      /\ Reverse(a) \in Seq(Digits) /\ Joined(Reverse(a), <<d>>, Reverse(out))
  BY <1>1, <1>3, ReversedDigits
<1>5. PlainValue(Reverse(a)) = d * p + r
  <2> DEFINE z == <<d>>
             x == Reverse(out)
             y == Reverse(a)
  <2>1. z \in Seq(Int) /\ x \in Seq(Int) /\ y \in Seq(Int) /\ Joined(y, z, x)
    <3>1. z \in Seq(Int)
      BY <1>3
    <3>. QED  BY <1>4, <3>1, DigitsInt
  <2>2. PlainValue(z) = d
    BY <1>3, PlainOne
  <2> HIDE DEF x, y, z
  <2>3. PlainValue(y) = PlainValue(z) * Power(10, Len(x)) + PlainValue(x)
    BY <2>1, PlainJoined
  <2>. QED  BY <1>4, <2>2, <2>3 DEF x, y
<1>6. p \in Nat /\ Power(10, Len(a)) = 10 * p /\ r \in Nat
  BY <1>4, Tens, PlainRange
<1> HIDE DEF p, r
<1>7. n = h * (10 * p) + (d * p + r)
  BY <1>1, <1>2, <1>3, <1>6
<1>. QED  BY <1>2, <1>4, <1>5, <1>6, <1>7 DEF WrittenSoFar, a, d, h

LEMMA WrittenLast ==
  ASSUME NEW n \in Nat, NEW q, NEW out, WrittenSoFar(n, q, out), q <= 9
  PROVE  TextOf(Reverse(Append(out, q)), n) /\ Len(Reverse(Append(out, q))) = Len(out) + 1
<1> DEFINE p == Power(10, Len(out))
           r == PlainValue(Reverse(out))
           a == Append(out, q)
<1>1. q \in Nat /\ out \in Seq(Digits) /\ n = q * p + r /\ (q = 0 => out = <<>>)
  BY DEF WrittenSoFar
<1>2. q \in Digits /\ q \in Int
  BY <1>1 DEF Digits
<1>3. /\ a \in Seq(Digits) /\ Len(out) \in Nat
      /\ Reverse(out) \in Seq(Digits) /\ Len(Reverse(out)) = Len(out)
      /\ Reverse(a) \in Seq(Digits) /\ Len(Reverse(a)) = Len(out) + 1
      /\ Joined(Reverse(a), <<q>>, Reverse(out))
  BY <1>1, <1>2, ReversedDigits
<1>4. PlainValue(Reverse(a)) = q * p + r
  <2> DEFINE z == <<q>>
             x == Reverse(out)
             y == Reverse(a)
  <2>1. z \in Seq(Int) /\ x \in Seq(Int) /\ y \in Seq(Int) /\ Joined(y, z, x)
    <3>1. z \in Seq(Int)
      BY <1>2
    <3>. QED  BY <1>3, <3>1, DigitsInt
  <2>2. PlainValue(z) = q
    BY <1>2, PlainOne
  <2> HIDE DEF x, y, z
  <2>3. PlainValue(y) = PlainValue(z) * Power(10, Len(x)) + PlainValue(x)
    BY <2>1, PlainJoined
  <2>. QED  BY <1>3, <2>2, <2>3 DEF x, y
<1>5. p \in Nat /\ Power(10, Len(out) + 1) = 10 * p /\ r \in Nat /\ r < p
  BY <1>3, Tens, PlainRange
<1>6. q # 0 => p <= n
  <2>1. q # 0 => q * p >= p
    <3> HIDE DEF p
    <3>1. q # 0 => (q - 1) * p >= 0
      BY <1>1, <1>5
    <3>2. (q - 1) * p = q * p - p /\ q * p \in Int
      BY <1>1, <1>5
    <3>. QED  BY <1>5, <3>1, <3>2
  <2> HIDE DEF p, r
  <2>2. q * p \in Int
    BY <1>1, <1>5
  <2>. QED  BY <1>1, <1>5, <2>1, <2>2
<1>7. n < 10 * p
  <2> HIDE DEF p, r
  <2>1. (9 - q) * p >= 0
    BY <1>1, <1>5
  <2>2. (9 - q) * p = 9 * p - q * p /\ q * p \in Int
    BY <1>1, <1>5
  <2>. QED  BY <1>1, <1>5, <2>1, <2>2
<1> DEFINE t == Reverse(a)
<1>8. Len(t) \in Nat \ {0} /\ Len(t) - 1 = Len(out)
  BY <1>3
<1>9. q = 0 => Len(t) = 1
  <2>1. Len(<<>>) = 0
    OBVIOUS
  <2>. QED  BY <1>1, <1>3, <2>1
<1> HIDE DEF t
<1>10. n < Power(10, Len(t)) /\ (Len(t) = 1 \/ Power(10, Len(t) - 1) <= n)
  BY <1>3, <1>5, <1>6, <1>7, <1>8, <1>9 DEF t
<1>. QED  BY <1>1, <1>3, <1>4, <1>8, <1>10 DEF TextOf, t

---------------------------------------------------------------------------
(* format_u64 and format_size64.                                            *)

\* What format_u64 makes of a number in a string of that size.
Shown64(r, n, room) ==
  \/ r = Failed /\ ~(n < Power(10, room - 1))
  \/ /\ n < Power(10, room - 1)
     /\ \E t : r = [ok |-> TRUE, text |-> t] /\ TextOf(t, n) /\ Len(t) + 1 <= room

LEMMA FormatU64Is ==
  ASSUME NEW n \in Nat, NEW room \in Nat, room > 1
  PROVE  Shown64(FormatU64(room, n), n, room)
<1> DEFINE S == [left : Nat, out : Seq(Digits)]
           next(s) == [left |-> s.left \div 10, out |-> Append(s.out, s.left % 10)]
           ended(s) == [ok |-> TRUE, text |-> Reverse(Append(s.out, s.left))]
           loop == CHOOSE loop : loop =
             [s \in S |-> IF s.left <= 9 THEN ended(s)
                          ELSE IF Full64(room, Len(s.out) + 2) THEN Failed
                          ELSE loop[next(s)]]
           step == [s \in S |-> next(s)]
           G == {s \in S : ~(s.left <= 9) /\ ~Full64(room, Len(s.out) + 2)}
           last == [s \in S |-> IF s.left <= 9 THEN ended(s) ELSE Failed]
           first == [left |-> n, out |-> <<>>]
<1>1. FormatU64(room, n) = loop[first]
  BY DEF FormatU64
<1>2. ASSUME NEW s \in S  PROVE next(s) \in S
  <2>1. s.left \in Nat /\ s.out \in Seq(Digits)
    OBVIOUS
  <2>2. s.left \div 10 \in Nat /\ s.left % 10 \in Digits
    BY <2>1 DEF Digits
  <2>3. Append(s.out, s.left % 10) \in Seq(Digits)
    BY <2>1, <2>2, AppendProperties
  <2>. QED  BY <2>2, <2>3
<1>3. loop = [s \in S |-> IF s.left <= 9 THEN ended(s)
                          ELSE IF Full64(room, Len(s.out) + 2) THEN Failed
                          ELSE loop[next(s)]]
  <2>1. step \in [S -> S]
    BY <1>2
  <2>2. \A s \in S : /\ step[s] = next(s)
                     /\ last[s] = IF s.left <= 9 THEN ended(s) ELSE Failed
                     /\ s \in G <=> ~(s.left <= 9) /\ ~Full64(room, Len(s.out) + 2)
    OBVIOUS
  <2> HIDE DEF step, last, G, S, next, ended
  <2>3. PICK f : Loops(f, S, G, step, last)
    BY <2>1, LoopExists
  <2>4. f = [s \in S |-> IF s.left <= 9 THEN ended(s)
                          ELSE IF Full64(room, Len(s.out) + 2) THEN Failed
                          ELSE f[next(s)]]
    BY <2>2, <2>3 DEF Loops
  <2>. QED  BY <2>4
<1> HIDE DEF loop
<1>4. ASSUME NEW s \in S
      PROVE  loop[s] = IF s.left <= 9 THEN ended(s)
                       ELSE IF Len(s.out) + 2 > room - 1 THEN Failed ELSE loop[next(s)]
  BY <1>3 DEF Full64
<1> DEFINE So(s) == WrittenSoFar(n, s.left, s.out) /\ Len(s.out) + 2 <= room
           T == {m \in Nat : \A s \in S : s.left <= m /\ So(s) => Shown64(loop[s], n, room)}
<1>5. ASSUME NEW s \in S, So(s), s.left <= 9
      PROVE  Shown64(loop[s], n, room)
  <2> DEFINE t == Reverse(Append(s.out, s.left))
  <2>1. TextOf(t, n) /\ Len(t) = Len(s.out) + 1
    BY <1>5, WrittenLast
  <2>2. loop[s] = [ok |-> TRUE, text |-> t]
    <3>1. loop[s] = ended(s)
      <4> HIDE DEF S, So, ended
      <4>. QED  BY <1>4, <1>5
    <3>. QED  BY <3>1
  <2>3. Len(s.out) \in Nat
    BY <1>5 DEF WrittenSoFar
  <2> HIDE DEF t
  <2>4. Len(t) \in Nat /\ Len(t) <= room - 1 /\ n < Power(10, Len(t))
    BY <1>5, <2>1, <2>3 DEF TextOf
  <2>5. Power(10, Len(t)) <= Power(10, room - 1)
    <3> DEFINE i == Len(t)
               j == room - 1
    <3>1. i \in Nat /\ j \in Nat /\ i <= j /\ 10 \in Nat \ {0}
      BY <2>4
    <3> HIDE DEF i, j
    <3>2. Power(10, i) <= Power(10, j)
      BY <3>1, PowersGrow
    <3>. QED  BY <3>2 DEF i, j
  <2>6. Power(10, Len(t)) \in Nat /\ Power(10, room - 1) \in Nat
    <3>1. room - 1 \in Nat
      OBVIOUS
    <3>. QED  BY <2>4, <3>1, Tens
  <2>7. n < Power(10, room - 1)
    BY <2>4, <2>5, <2>6
  <2>8. Len(t) + 1 <= room
    BY <2>4
  <2> HIDE DEF S, So, ended, next, loop
  <2>9. \E x : loop[s] = [ok |-> TRUE, text |-> x] /\ TextOf(x, n) /\ Len(x) + 1 <= room
    BY <2>1, <2>2, <2>8, Zenon
  <2>. QED  BY <2>7, <2>9, Zenon DEF Shown64
<1>6. ASSUME NEW s \in S, So(s), ~(s.left <= 9), Len(s.out) + 2 > room - 1
      PROVE  Shown64(loop[s], n, room)
  <2>1. loop[s] = Failed
    <3> HIDE DEF S, So, ended
    <3>. QED  BY <1>4, <1>6
  <2> DEFINE l == Len(s.out)
             p == Power(10, l)
             q == s.left
             r == PlainValue(Reverse(s.out))
  <2>2. /\ l \in Nat /\ l + 1 = room - 1 /\ q \in Nat /\ q > 9 /\ n = q * p + r
        /\ s.out \in Seq(Digits)
    BY <1>6 DEF WrittenSoFar
  <2>3. p \in Nat /\ Power(10, room - 1) = 10 * p
    BY <2>2, Tens
  <2>4. r \in Nat
    <3>1. 0 \in Digits
      BY DEF Digits
    <3>2. Reverse(s.out) \in Seq(Digits)
      BY <2>2, <3>1, ReversedDigits
    <3>. QED  BY <3>2, PlainRange
  <2> HIDE DEF l, p, q, r
  <2>5. q * p >= 10 * p /\ q * p \in Nat
    <3>1. (q - 10) * p >= 0
      BY <2>2, <2>3
    <3>2. (q - 10) * p = q * p - 10 * p
      BY <2>2, <2>3
    <3>. QED  BY <2>2, <2>3, <3>1, <3>2
  <2>6. ~(n < Power(10, room - 1))
    BY <2>2, <2>3, <2>4, <2>5
  <2>. QED  BY <2>1, <2>6 DEF Shown64
<1>7. ASSUME NEW s \in S, So(s), ~(s.left <= 9), ~(Len(s.out) + 2 > room - 1)
      PROVE  /\ So(next(s)) /\ next(s).left < s.left /\ loop[s] = loop[next(s)]
             /\ next(s) \in S
  <2>1. s.left \in Nat /\ s.out \in Seq(Digits) /\ Len(s.out) \in Nat
    OBVIOUS
  <2>2. next(s).left = s.left \div 10 /\ next(s).out = Append(s.out, s.left % 10)
    OBVIOUS
  <2>3. WrittenSoFar(n, s.left \div 10, Append(s.out, s.left % 10))
    BY <1>7, <2>1, WrittenNext
  <2>4. Len(Append(s.out, s.left % 10)) = Len(s.out) + 1
    BY <2>1
  <2>5. s.left \div 10 < s.left
    BY <1>7, <2>1
  <2>6. loop[s] = loop[next(s)] /\ next(s) \in S
    <3> HIDE DEF S, So, ended, next
    <3>. QED  BY <1>2, <1>4, <1>7
  <2>7. So(next(s))
    BY <1>7, <2>1, <2>2, <2>3, <2>4
  <2>. QED  BY <2>2, <2>5, <2>6, <2>7
<1>8. 0 \in T
  <2>1. \A s \in S : s.left <= 0 => s.left <= 9
    OBVIOUS
  <2> HIDE DEF S, So
  <2>. QED  BY <1>5, <2>1
<1>9. ASSUME NEW m \in T  PROVE m + 1 \in T
  <2>1. ASSUME NEW s \in S, s.left <= m + 1, So(s)  PROVE Shown64(loop[s], n, room)
    <3>1. CASE s.left <= 9
      BY <1>5, <2>1, <3>1
    <3>2. CASE ~(s.left <= 9) /\ Len(s.out) + 2 > room - 1
      BY <1>6, <2>1, <3>2
    <3>3. CASE ~(s.left <= 9) /\ ~(Len(s.out) + 2 > room - 1)
      <4>1. /\ So(next(s)) /\ next(s).left < s.left /\ loop[s] = loop[next(s)]
            /\ next(s) \in S
        BY <1>7, <2>1, <3>3
      <4>2. s.left \in Nat /\ m \in Nat /\ next(s).left \in Nat
        BY <4>1
      <4>3. next(s).left <= m
        BY <2>1, <4>1, <4>2
      <4> HIDE DEF S, So, next
      <4>4. Shown64(loop[next(s)], n, room)
        BY <4>1, <4>3
      <4>. QED  BY <4>1, <4>4
    <3>. QED  BY <3>1, <3>2, <3>3
  <2>2. m + 1 \in Nat
    OBVIOUS
  <2>. QED  BY <2>1, <2>2
<1>10. T \in SUBSET Nat
  OBVIOUS
<1>11. T = Nat
  <2> HIDE DEF T
  <2>. QED  BY <1>8, <1>9, <1>10, Induction
<1>12. first \in S /\ So(first) /\ first.left <= n
  <2>1. <<>> \in Seq(Digits) /\ Len(<<>>) = 0
    OBVIOUS
  <2>2. WrittenSoFar(n, n, <<>>)
    BY WrittenFirst
  <2>. QED  BY <2>1, <2>2
<1> HIDE DEF S, So, first
<1>13. Shown64(loop[first], n, room)
  BY <1>11, <1>12
<1>. QED  BY <1>1, <1>13

---------------------------------------------------------------------------
(* tostring256.                                                             *)

\* A digit of a number of 256 bits, and what is left of the number.
LEMMA DigitOf ==
  ASSUME NEW x \in U256, WordBase > 10
  PROVE  /\ Divmod256(x, Small256(10)).div \in U256
         /\ Value256(Divmod256(x, Small256(10)).div) = Value256(x) \div 10
         /\ Divmod256(x, Small256(10)).mod.lower.lower = Value256(x) % 10
         /\ Value256(x) \in Nat
         /\ Divmod256(x, Small256(10)).div # Zero256 <=> Value256(x) > 9
<1> DEFINE r == Divmod256(x, Small256(10))
           q == Value256(r.div)
           m == r.mod
           v == Value256(x)
<1>1. Small256(10) \in U256 \ {Zero256} /\ Value256(Small256(10)) = 10
  <2>1. 10 \in Word /\ 0 \in Word
    BY WordAssumption DEF Word
  <2>2. /\ Small256(10) = [upper |-> Zero128, lower |-> [upper |-> 0, lower |-> 10]]
        /\ [upper |-> 0, lower |-> 10] \in U128
    BY <2>1 DEF Small256, U128
  <2>3. Value128([upper |-> 0, lower |-> 10]) = 10
    BY WordAssumption DEF Value128
  <2>4. Small256(10) \in U256
    BY <2>2, Zero128Is DEF U256
  <2>5. Value256(Small256(10)) = 10
    BY <2>2, <2>3, Zero128Is, WordAssumption DEF Value256
  <2>. QED  BY <2>4, <2>5, Zero256Is
<1>2. r.div \in U256 /\ m \in U256 /\ v = q * 10 + Value256(m) /\ Value256(m) < 10
  BY <1>1, Quotient256
<1>3. q \in Nat /\ v \in Nat /\ Value256(m) \in Nat
  BY <1>2, Value256Range
<1>4. m.lower.lower = Value256(m)
  <2> DEFINE a == Value128(m.upper)
             b == Value128(m.lower)
             c == m.lower.upper
             d == m.lower.lower
             C == Modulus128
  <2>1. a \in Nat /\ b \in Nat /\ C \in Nat \ {0} /\ Value256(m) = C * a + b
    BY <1>2, Value256Range
  <2>2. b = WordBase * c + d /\ c \in 0 .. WordBase - 1 /\ d \in 0 .. WordBase - 1
    BY <1>2 DEF U256, U128, Word, Value128
  <2>3. C = WordBase * WordBase
    BY DEF Modulus128
  <2>4. WordBase \in Nat /\ WordBase > 10
    BY WordAssumption
  <2> HIDE DEF a, b, c, d, C, m
  <2>5. c = 0
    <3>1. WordBase * c \in Nat /\ C * a \in Nat
      BY <2>1, <2>2, <2>4
    <3>2. WordBase * c < 10
      BY <1>2, <2>1, <2>2, <3>1
    <3>3. c >= 1 => WordBase * c >= WordBase
      <4>1. c >= 1 => WordBase * (c - 1) >= 0
        BY <2>2, <2>4
      <4>2. WordBase * (c - 1) = WordBase * c - WordBase
        BY <2>2, <2>4
      <4>. QED  BY <2>4, <3>1, <4>1, <4>2
    <3>. QED  BY <2>2, <2>4, <3>1, <3>2, <3>3
  <2>6. a = 0
    <3>1. C * a \in Nat /\ C * a < 10
      BY <1>2, <2>1
    <3>2. C > 10
      <4>1. WordBase * (WordBase - 1) >= 0 /\ WordBase * (WordBase - 1) = WordBase * WordBase - WordBase
        BY <2>4
      <4>2. WordBase * WordBase \in Nat
        BY <2>4
      <4>. QED  BY <2>3, <2>4, <4>1, <4>2
    <3>3. a >= 1 => C * a >= C
      <4>1. a >= 1 => C * (a - 1) >= 0
        BY <2>1
      <4>2. C * (a - 1) = C * a - C
        BY <2>1
      <4>. QED  BY <2>1, <3>1, <4>1, <4>2
    <3>. QED  BY <2>1, <3>1, <3>2, <3>3
  <2>7. Value256(m) = d
    BY <2>1, <2>2, <2>4, <2>5, <2>6
  <2>. QED  BY <2>7 DEF d
<1> DEFINE e == Value256(m)
<1>5. e \in 0 .. 9
  BY <1>2, <1>3
<1>6. v \div 10 = q /\ v % 10 = e
  <2>1. v = 10 * q + e
    BY <1>2, <1>3
  <2>2. 10 \in Nat \ {0} /\ e \in 0 .. 10 - 1
    BY <1>5
  <2> HIDE DEF q, e, v
  <2>. QED  BY <1>3, <2>1, <2>2, DivUnique
<1>7. r.div # Zero256 <=> q > 0
  <2>1. r.div = Zero256 <=> q = Value256(Zero256)
    BY <1>2, Zero256Is, Equal256
  <2>. QED  BY <1>3, <2>1, Zero256Is
<1>8. q > 0 <=> v > 9
  <2> HIDE DEF q, v, e, r, m
  <2>1. v = 10 * q + e
    BY <1>2, <1>3 DEF e
  <2>. QED  BY <1>3, <1>5, <2>1
<1>. QED  BY <1>2, <1>3, <1>4, <1>6, <1>7, <1>8

\* A number with m digits has no more than m digits.
LEMMA WrittenRoom ==
  ASSUME NEW m \in Nat \ {0}, NEW n \in Nat, n < Power(10, m), NEW q, NEW out,
         WrittenSoFar(n, q, out)
  PROVE  Len(out) + 1 <= m
<1> DEFINE l == Len(out)
           p == Power(10, l)
           r == PlainValue(Reverse(out))
<1>1. q \in Nat /\ out \in Seq(Digits) /\ l \in Nat /\ (q = 0 => out = <<>>) /\ n = q * p + r
  BY DEF WrittenSoFar
<1>2. r \in Nat
  <2>1. 0 \in Digits
    BY DEF Digits
  <2>2. Reverse(out) \in Seq(Digits)
    BY <1>1, <2>1, ReversedDigits
  <2>. QED  BY <2>2, PlainRange
<1>3. p \in Nat /\ Power(10, m) \in Nat
  BY <1>1, Tens
<1>4. q = 0 => l = 0
  BY <1>1
<1> HIDE DEF l, r
<1>5. ASSUME q # 0, l >= m  PROVE FALSE
  <2>1. Power(10, m) <= p
    <3>1. 10 \in Nat \ {0} /\ m \in Nat
      OBVIOUS
    <3>. QED  BY <1>1, <1>5, <3>1, PowersGrow
  <2> HIDE DEF p
  <2>2. q * p >= p /\ q * p \in Nat
    <3>1. (q - 1) * p >= 0 /\ (q - 1) * p = q * p - p /\ q * p \in Nat
      BY <1>1, <1>3, <1>5
    <3>. QED  BY <1>3, <3>1
  <2>. QED  BY <1>1, <1>2, <1>3, <2>1, <2>2
<1>. QED  BY <1>1, <1>4, <1>5 DEF l

\* What tostring256 makes of a number whose digits have room.
LEMMA ToString256Is ==
  ASSUME NEW x \in U256, NEW room \in Nat, room > 1, WordBase > 10,
         Value256(x) < Power(10, room - 1)
  PROVE  \E t : /\ ToString256(x, 10, room) = [ok |-> TRUE, text |-> t]
                /\ TextOf(t, Value256(x)) /\ Len(t) + 1 <= room
<1> DEFINE n == Value256(x)
           Shown(r) == \E t : /\ r = [ok |-> TRUE, text |-> t]
                              /\ TextOf(t, n) /\ Len(t) + 1 <= room
           S == [left : U256, out : Seq(0 .. 15)]
           digit(s) == Divmod256(s.left, Small256(10))
           next(s) == [left |-> digit(s).div, out |-> Append(s.out, digit(s).mod.lower.lower)]
           ended(s) == [ok |-> TRUE, text |-> Reverse(next(s).out)]
           loop == CHOOSE loop : loop =
             [s \in S |-> IF Len(s.out) > room - 1 THEN Failed
                          ELSE IF digit(s).div # Zero256 THEN loop[next(s)]
                          ELSE IF Len(s.out) + 1 > room - 1 THEN Failed
                          ELSE ended(s)]
           step == [s \in S |-> next(s)]
           G == {s \in S : ~(Len(s.out) > room - 1) /\ digit(s).div # Zero256}
           last == [s \in S |-> IF Len(s.out) > room - 1 THEN Failed
                                ELSE IF Len(s.out) + 1 > room - 1 THEN Failed
                                ELSE ended(s)]
           first == [left |-> x, out |-> <<>>]
<1>1. ToString256(x, 10, room) = loop[first]
  <2>1. ~(10 < 2 \/ 10 > 16)
    OBVIOUS
  <2>. QED  BY <2>1 DEF ToString256
<1>2. ASSUME NEW s \in S
      PROVE  /\ next(s) \in S /\ next(s).out = Append(s.out, Value256(s.left) % 10)
             /\ Value256(next(s).left) = Value256(s.left) \div 10
             /\ Value256(s.left) \in Nat
             /\ digit(s).div # Zero256 <=> Value256(s.left) > 9
  <2>1. s.left \in U256 /\ s.out \in Seq(0 .. 15)
    OBVIOUS
  <2> DEFINE l == s.left
             d == digit(s)
  <2>2. /\ d.div \in U256 /\ Value256(d.div) = Value256(l) \div 10
        /\ d.mod.lower.lower = Value256(l) % 10 /\ Value256(l) \in Nat
        /\ d.div # Zero256 <=> Value256(l) > 9
    BY <2>1, DigitOf
  <2> HIDE DEF l, d
  <2>3. Value256(l) % 10 \in 0 .. 15
    <3>1. \A v \in Nat : v % 10 \in 0 .. 15
      OBVIOUS
    <3>. QED  BY <2>2, <3>1
  <2>4. next(s) = [left |-> d.div, out |-> Append(s.out, Value256(l) % 10)]
    BY <2>2 DEF d
  <2>5. Append(s.out, Value256(l) % 10) \in Seq(0 .. 15)
    BY <2>1, <2>3, AppendProperties
  <2>. QED  BY <2>2, <2>4, <2>5 DEF l, d
<1>3. loop = [s \in S |-> IF Len(s.out) > room - 1 THEN Failed
                          ELSE IF digit(s).div # Zero256 THEN loop[next(s)]
                          ELSE IF Len(s.out) + 1 > room - 1 THEN Failed
                          ELSE ended(s)]
  <2>1. step \in [S -> S]
    BY <1>2
  <2>2. \A s \in S :
          /\ step[s] = next(s)
          /\ last[s] = IF Len(s.out) > room - 1 THEN Failed
                       ELSE IF Len(s.out) + 1 > room - 1 THEN Failed ELSE ended(s)
          /\ s \in G <=> ~(Len(s.out) > room - 1) /\ digit(s).div # Zero256
    OBVIOUS
  <2> HIDE DEF step, last, G, S, next, ended, digit
  <2>3. PICK f : Loops(f, S, G, step, last)
    BY <2>1, LoopExists
  <2>4. f = [s \in S |-> IF Len(s.out) > room - 1 THEN Failed
                          ELSE IF digit(s).div # Zero256 THEN f[next(s)]
                          ELSE IF Len(s.out) + 1 > room - 1 THEN Failed
                          ELSE ended(s)]
    BY <2>2, <2>3 DEF Loops
  <2>. QED  BY <2>4
<1> HIDE DEF loop
<1>4. ASSUME NEW s \in S
      PROVE  loop[s] = IF Len(s.out) > room - 1 THEN Failed
                       ELSE IF digit(s).div # Zero256 THEN loop[next(s)]
                       ELSE IF Len(s.out) + 1 > room - 1 THEN Failed ELSE ended(s)
  BY ZenonT(60), <1>3
<1>5. n \in Nat
  BY Value256Range
<1> DEFINE So(s) == WrittenSoFar(n, Value256(s.left), s.out)
           T == {m \in Nat : \A s \in S : Value256(s.left) <= m /\ So(s) => Shown(loop[s])}
<1>6. ASSUME NEW s \in S, So(s)
      PROVE  /\ ~(Len(s.out) > room - 1) /\ ~(Len(s.out) + 1 > room - 1)
             /\ Len(s.out) \in Nat
  <2>1. room - 1 \in Nat \ {0}
    OBVIOUS
  <2>2. s.out \in Seq(Digits) /\ Len(s.out) \in Nat
    BY <1>6 DEF WrittenSoFar
  <2>3. WrittenSoFar(n, Value256(s.left), s.out) /\ n < Power(10, room - 1)
    BY <1>6
  <2> HIDE DEF S, So, n
  <2>4. Len(s.out) + 1 <= room - 1
    BY <1>5, <2>1, <2>3, WrittenRoom
  <2>. QED  BY <2>2, <2>4
<1>7. ASSUME NEW s \in S, So(s), ~(Value256(s.left) > 9)
      PROVE  Shown(loop[s])
  <2> DEFINE q == Value256(s.left)
             t == Reverse(Append(s.out, q))
  <2>1. q \in Nat /\ q <= 9 /\ q % 10 = q
    BY <1>2, <1>7
  <2>2. next(s).out = Append(s.out, q)
    BY <1>2, <2>1
  <2>3. loop[s] = ended(s)
    <3> HIDE DEF S, So, ended, next, digit
    <3>. QED  BY <1>2, <1>4, <1>6, <1>7
  <2>4. loop[s] = [ok |-> TRUE, text |-> t]
    BY <2>2, <2>3
  <2>5. TextOf(t, n) /\ Len(t) = Len(s.out) + 1
    <3> HIDE DEF n, q
    <3>1. WrittenSoFar(n, q, s.out)
      BY <1>7 DEF q
    <3>. QED  BY <1>5, <2>1, <3>1, WrittenLast
  <2>6. Len(t) + 1 <= room
    <3> HIDE DEF t
    <3>. QED  BY <1>6, <1>7, <2>5
  <2> HIDE DEF t, q, n, S, So, loop
  <2>. QED  BY <2>4, <2>5, <2>6, Zenon
<1>8. ASSUME NEW s \in S, So(s), Value256(s.left) > 9
      PROVE  /\ So(next(s)) /\ Value256(next(s).left) < Value256(s.left)
             /\ loop[s] = loop[next(s)] /\ next(s) \in S
  <2> DEFINE q == Value256(s.left)
  <2>1. /\ next(s) \in S /\ next(s).out = Append(s.out, q % 10)
        /\ Value256(next(s).left) = q \div 10 /\ q \in Nat /\ q > 9
    BY <1>2, <1>8
  <2>2. WrittenSoFar(n, q \div 10, Append(s.out, q % 10))
    <3>1. WrittenSoFar(n, q, s.out)
      BY <1>8
    <3> HIDE DEF n, q
    <3>. QED  BY <1>5, <2>1, <3>1, WrittenNext
  <2>3. loop[s] = loop[next(s)]
    <3> HIDE DEF S, So, ended, next, digit
    <3>. QED  BY <1>2, <1>4, <1>6, <1>8
  <2>4. q \div 10 < q
    <3> HIDE DEF q
    <3>. QED  BY <2>1
  <2> HIDE DEF q, next
  <2>5. So(next(s))
    BY <2>1, <2>2
  <2>. QED  BY <2>1, <2>3, <2>4, <2>5 DEF q
<1>9. 0 \in T
  <2>1. ASSUME NEW s \in S, Value256(s.left) <= 0, So(s)  PROVE Shown(loop[s])
    <3>1. ~(Value256(s.left) > 9)
      BY <1>2, <2>1
    <3> HIDE DEF S, So, Shown
    <3>. QED  BY <1>7, <2>1, <3>1
  <2> HIDE DEF S, So, Shown
  <2>. QED  BY <2>1
<1>10. ASSUME NEW m \in T  PROVE m + 1 \in T
  <2>1. ASSUME NEW s \in S, Value256(s.left) <= m + 1, So(s)  PROVE Shown(loop[s])
    <3>1. CASE ~(Value256(s.left) > 9)
      <4> HIDE DEF S, So, Shown
      <4>. QED  BY <1>7, <2>1, <3>1
    <3>2. CASE Value256(s.left) > 9
      <4>1. /\ So(next(s)) /\ Value256(next(s).left) < Value256(s.left)
            /\ loop[s] = loop[next(s)] /\ next(s) \in S
        <5> HIDE DEF S, So, Shown, next
        <5>. QED  BY <1>8, <2>1, <3>2
      <4>2. Value256(s.left) \in Nat /\ m \in Nat /\ Value256(next(s).left) \in Nat
        <5> HIDE DEF S, So, Shown, next
        <5>1. Value256(s.left) \in Nat /\ Value256(next(s).left) \in Nat
          BY <1>2, <2>1, <4>1
        <5>. QED  BY <5>1
      <4> HIDE DEF S, So, Shown, next
      <4>3. Value256(next(s).left) <= m
        BY <2>1, <4>1, <4>2
      <4>4. Shown(loop[next(s)])
        BY <4>1, <4>3
      <4>. QED  BY <4>1, <4>4
    <3>. QED  BY <3>1, <3>2
  <2>2. m + 1 \in Nat
    OBVIOUS
  <2> HIDE DEF S, So, Shown
  <2>. QED  BY <2>1, <2>2
<1>11. T \in SUBSET Nat
  OBVIOUS
<1>12. T = Nat
  <2> HIDE DEF T
  <2>. QED  BY <1>9, <1>10, <1>11, Induction
<1>13. first \in S /\ So(first) /\ Value256(first.left) <= n
  <2>1. <<>> \in Seq(0 .. 15)
    OBVIOUS
  <2>2. WrittenSoFar(n, n, <<>>)
    <3> HIDE DEF n
    <3>. QED  BY <1>5, WrittenFirst
  <2>3. first.left = x /\ first.out = <<>>
    OBVIOUS
  <2>4. Value256(first.left) = n /\ n <= n
    BY <1>5, <2>3
  <2>. QED  BY <2>1, <2>2, <2>3, <2>4
<1> HIDE DEF S, So, first, Shown, n
<1>14. Shown(loop[first])
  <2>1. n \in T
    BY <1>5, <1>12
  <2>. QED  BY <1>13, <2>1
<1>. QED  BY <1>1, <1>14 DEF Shown, n

---------------------------------------------------------------------------
(* Sequences in parts.                                                      *)

LEMMA JoinedAre ==
  ASSUME NEW S, NEW s \in Seq(S), NEW t \in Seq(S)
  PROVE  s \o t \in Seq(S) /\ Joined(s \o t, s, t)
<1> DEFINE m == Len(s)
           n == Len(t)
           u == s \o t
<1>1. m \in Nat /\ n \in Nat
  BY LenProperties
<1>2. /\ u \in Seq(S) /\ Len(u) = m + n
      /\ \A i \in 1 .. m + n : u[i] = IF i <= m THEN s[i] ELSE t[i - m]
  BY ConcatProperties
<1> HIDE DEF u, m, n
<1>3. \A i \in 1 .. m : u[i] = s[i]
  <2>. TAKE i \in 1 .. m
  <2>1. i \in 1 .. m + n /\ i <= m
    BY <1>1
  <2>. QED  BY <1>2, <2>1
<1>4. \A j \in 1 .. n : u[m + j] = t[j]
  <2>. TAKE j \in 1 .. n
  <2>1. m + j \in 1 .. m + n /\ ~(m + j <= m) /\ (m + j) - m = j
    BY <1>1
  <2>. QED  BY <1>2, <2>1
<1>. QED  BY <1>2, <1>3, <1>4 DEF u, m, n, Joined

\* A sequence and its two parts.
LEMMA PartsJoined ==
  ASSUME NEW S, NEW s \in Seq(S), NEW k \in 0 .. Len(s)
  PROVE  /\ SubSeq(s, 1, k) \in Seq(S) /\ Len(SubSeq(s, 1, k)) = k
         /\ SubSeq(s, k + 1, Len(s)) \in Seq(S)
         /\ Len(SubSeq(s, k + 1, Len(s))) = Len(s) - k
         /\ Joined(s, SubSeq(s, 1, k), SubSeq(s, k + 1, Len(s)))
<1> DEFINE l == Len(s)
           u == SubSeq(s, 1, k)
           v == SubSeq(s, k + 1, l)
<1>1. l \in Nat /\ k \in 0 .. l /\ \A i \in 1 .. l : s[i] \in S
  BY LenProperties, ElementOfSeq
<1> HIDE DEF l
<1>2. /\ u \in Seq(S) /\ Len(u) = k
      /\ \A i \in 1 .. k : u[i] = s[i]
  <2>1. \A i \in 1 .. k : s[i] \in S
    BY <1>1
  <2>2. 1 \in Int /\ k \in Int
    BY <1>1
  <2>3. /\ u \in Seq(S) /\ Len(u) = IF 1 <= k THEN k - 1 + 1 ELSE 0
        /\ \A i \in 1 .. k - 1 + 1 : u[i] = s[1 + i - 1]
    BY <2>1, <2>2, SubSeqProperties
  <2> HIDE DEF u
  <2>4. \A i \in 1 .. k : u[i] = s[i]
    <3>. TAKE i \in 1 .. k
    <3>1. i \in 1 .. k - 1 + 1 /\ 1 + i - 1 = i
      BY <1>1
    <3>. QED  BY <2>3, <3>1
  <2>5. (IF 1 <= k THEN k - 1 + 1 ELSE 0) = k
    BY <1>1
  <2>. QED  BY <2>3, <2>4, <2>5
<1>3. /\ v \in Seq(S) /\ Len(v) = l - k
      /\ \A j \in 1 .. l - k : v[j] = s[k + j]
  <2>1. \A i \in k + 1 .. l : s[i] \in S
    BY <1>1
  <2>2. k + 1 \in Int /\ l \in Int
    BY <1>1
  <2> DEFINE m == k + 1
  <2>3. m \in Int /\ \A i \in m .. l : s[i] \in S
    BY <2>1, <2>2
  <2> HIDE DEF m
  <2>4. /\ SubSeq(s, m, l) \in Seq(S) /\ Len(SubSeq(s, m, l)) = IF m <= l THEN l - m + 1 ELSE 0
        /\ \A i \in 1 .. l - m + 1 : SubSeq(s, m, l)[i] = s[m + i - 1]
    BY <2>2, <2>3, SubSeqProperties
  <2>5. v = SubSeq(s, m, l) /\ m = k + 1
    BY DEF m
  <2> HIDE DEF v
  <2>6. (IF m <= l THEN l - m + 1 ELSE 0) = l - k
    BY <1>1, <2>5
  <2>7. \A j \in 1 .. l - k : v[j] = s[k + j]
    <3>. TAKE j \in 1 .. l - k
    <3>1. j \in 1 .. l - m + 1 /\ m + j - 1 = k + j
      BY <1>1, <2>5
    <3>. QED  BY <2>4, <2>5, <3>1
  <2>. QED  BY <2>4, <2>5, <2>6, <2>7
<1> HIDE DEF u, v
<1>4. Joined(s, u, v)
  <2>1. l = k + (l - k)
    BY <1>1
  <2>. QED  BY <1>2, <1>3, <2>1 DEF Joined, l
<1>. QED  BY <1>2, <1>3, <1>4 DEF u, v, l

---------------------------------------------------------------------------
(* What a text shows.                                                       *)

LEMMA NoPointShown ==
  ASSUME NEW t \in Seq(Digits), NEW d \in Nat
  PROVE  Shows(t, d) = PlainValue(t) * Power(10, d) /\ Point \notin Range(t)
<1> DEFINE l == Len(t)
           e == SubSeq(t, (l + 1) + 1, l)
<1>1. l \in Nat /\ DOMAIN t = 1 .. l /\ \A k \in 1 .. l : t[k] \in 0 .. 9
  BY LenProperties, ElementOfSeq DEF Digits
<1>2. {k \in DOMAIN t : t[k] = Point} = {}
  <2> HIDE DEF l
  <2>. QED  BY <1>1 DEF Point
<1>3. Point \notin Range(t)
  <2> HIDE DEF l
  <2>. QED  BY <1>1 DEF Point, Range
<1>4. SubSeq(t, 1, (l + 1) - 1) = t
  <2>1. l \in 0 .. Len(t) /\ (l + 1) - 1 = l
    BY <1>1
  <2>2. SubSeq(t, 1, l) \in Seq(Digits) /\ Len(SubSeq(t, 1, l)) = l
        /\ Joined(t, SubSeq(t, 1, l), SubSeq(t, l + 1, l))
    BY <2>1, PartsJoined
  <2> DEFINE u == SubSeq(t, 1, l)
  <2>3. u \in Seq(Digits) /\ Len(u) = l /\ \A k \in 1 .. l : t[k] = u[k]
    BY <2>2 DEF Joined
  <2> HIDE DEF u
  <2>4. u = t
    BY <1>1, <2>3
  <2>. QED  BY <2>1, <2>4 DEF u
<1>5. e = <<>> /\ Len(e) = 0 /\ PlainValue(e) = 0
  <2>1. (l + 1) + 1 \in Int /\ l \in Int /\ l < (l + 1) + 1
    BY <1>1
  <2>2. e = <<>>
    BY <2>1, SubSeqEmpty
  <2>. QED  BY <2>2, PlainNone
<1>6. Shows(t, d) = PlainValue(t) * Power(10, d) + PlainValue(e) * Power(10, d - Len(e))
  BY <1>2, <1>4 DEF Shows
<1> HIDE DEF e
<1>7. Power(10, d) \in Nat /\ d - 0 = d /\ PlainValue(t) \in Nat
  <2>1. d - 0 = d
    OBVIOUS
  <2>. QED  BY <2>1, Tens, PlainRange
<1>8. PlainValue(e) * Power(10, d - Len(e)) = 0
  BY <1>5, <1>7
<1>9. PlainValue(t) * Power(10, d) \in Int
  BY <1>7
<1>. QED  BY <1>3, <1>6, <1>8, <1>9

LEMMA PointShown ==
  ASSUME NEW w \in Seq(Digits), NEW b \in Seq(Digits), NEW d \in Nat, b # <<>>
  PROVE  /\ Shows(w \o <<Point>> \o b, d)
              = PlainValue(w) * Power(10, d) + PlainValue(b) * Power(10, d - Len(b))
         /\ Len(w \o <<Point>> \o b) = Len(w) + 1 + Len(b)
         /\ Last(w \o <<Point>> \o b) = b[Len(b)]
<1> DEFINE D == Digits \cup {Point}
           p == <<Point>>
           wp == w \o p
           t == wp \o b
           m == Len(w)
           n == Len(b)
<1>1. w \in Seq(D) /\ b \in Seq(D) /\ p \in Seq(D) /\ Len(p) = 1 /\ p[1] = Point
  <2>1. \A s \in Seq(Digits) : s \in Seq(D)
    <3>. TAKE s \in Seq(Digits)
    <3>1. s \in [1 .. Len(s) -> Digits] /\ Len(s) \in Nat
      BY LenProperties
    <3> HIDE DEF D
    <3>2. \A x \in Digits : x \in D
      BY DEF D
    <3>3. s \in [1 .. Len(s) -> D]
      BY <3>1, <3>2
    <3>. QED  BY <3>1, <3>3
  <2>2. p \in Seq(D)
    OBVIOUS
  <2>. QED  BY <2>1, <2>2
<1>2. m \in Nat /\ n \in Nat \ {0}
  BY EmptySeq
<1>3. /\ \A k \in 1 .. m : w[k] \in 0 .. 9
      /\ \A k \in 1 .. n : b[k] \in 0 .. 9
  BY ElementOfSeq DEF Digits
<1> HIDE DEF D, p
<1>4. /\ wp \in Seq(D) /\ Len(wp) = m + 1 /\ wp[m + 1] = Point
      /\ \A k \in 1 .. m : wp[k] = w[k]
  <2>1. wp \in Seq(D) /\ Joined(wp, w, p)
    BY <1>1, JoinedAre
  <2>2. 1 \in 1 .. Len(p)
    BY <1>1
  <2> HIDE DEF wp
  <2>. QED  BY <1>1, <2>1, <2>2 DEF Joined
<1> HIDE DEF wp
<1>5. /\ t \in Seq(D) /\ Len(t) = (m + 1) + n
      /\ \A k \in 1 .. m + 1 : t[k] = wp[k]
      /\ \A k \in 1 .. n : t[(m + 1) + k] = b[k]
  <2>1. t \in Seq(D) /\ Joined(t, wp, b)
    BY <1>1, <1>4, JoinedAre
  <2> HIDE DEF t
  <2>. QED  BY <1>4, <2>1 DEF Joined
<1> HIDE DEF t, m, n
<1>6. /\ \A k \in 1 .. m : t[k] = w[k]
      /\ t[m + 1] = Point
  <2>1. m + 1 \in 1 .. m + 1 /\ \A k \in 1 .. m : k \in 1 .. m + 1
    BY <1>2
  <2>. QED  BY <1>4, <1>5, <2>1
<1>7. DOMAIN t = 1 .. (m + 1) + n
  BY <1>5, LenProperties
<1> DEFINE points == {k \in DOMAIN t : t[k] = Point}
<1>8. points = {m + 1}
  <2>1. m + 1 \in points
    BY <1>2, <1>6, <1>7
  <2>2. ASSUME NEW k \in points  PROVE k = m + 1
    <3>1. k \in 1 .. (m + 1) + n /\ t[k] = Point
      BY <1>7
    <3>2. CASE k \in 1 .. m
      BY SMTT(30), <1>3, <1>6, <3>1, <3>2 DEF Point, m
    <3>3. CASE k > m + 1
      <4>1. k - (m + 1) \in 1 .. n /\ (m + 1) + (k - (m + 1)) = k
        BY <1>2, <3>1, <3>3
      <4>2. t[k] = b[k - (m + 1)]
        BY <1>5, <4>1
      <4>. QED  BY <1>3, <3>1, <4>1, <4>2 DEF Point, n
    <3>. QED  BY <1>2, <3>1, <3>2, <3>3
  <2>. QED  BY <2>1, <2>2
<1>9. points # {} /\ Min(points) = m + 1
  <2>1. m + 1 \in {m + 1} /\ \A y \in {m + 1} : m + 1 <= y
    BY <1>2
  <2>2. Min({m + 1}) \in {m + 1}
    BY <2>1, Zenon DEF Min
  <2>. QED  BY <1>8, <2>2
<1>10. SubSeq(t, 1, (m + 1) - 1) = w
  <2> DEFINE u == SubSeq(t, 1, m)
  <2>1. m \in 0 .. Len(t) /\ (m + 1) - 1 = m
    BY <1>2, <1>5
  <2>2. u \in Seq(D) /\ Len(u) = m /\ Joined(t, u, SubSeq(t, m + 1, Len(t)))
    BY <1>5, <2>1, PartsJoined
  <2> HIDE DEF u
  <2>3. \A k \in 1 .. m : u[k] = w[k]
    BY <1>6, <2>2 DEF Joined
  <2>4. u = w
    BY <1>1, <1>2, <2>2, <2>3 DEF m
  <2>. QED  BY <2>1, <2>4 DEF u
<1>11. SubSeq(t, (m + 1) + 1, Len(t)) = b
  <2> DEFINE u == SubSeq(t, (m + 1) + 1, Len(t))
  <2>1. m + 1 \in 0 .. Len(t)
    BY <1>2, <1>5
  <2>2. /\ Len(SubSeq(t, 1, m + 1)) = m + 1
        /\ u \in Seq(D) /\ Len(u) = Len(t) - (m + 1) /\ Joined(t, SubSeq(t, 1, m + 1), u)
    BY <1>5, <2>1, PartsJoined
  <2> HIDE DEF u
  <2>3. Len(u) = n
    BY <1>2, <1>5, <2>2
  <2>4. \A k \in 1 .. n : u[k] = b[k]
    BY <1>5, <2>2, <2>3 DEF Joined
  <2>5. u = b
    BY <1>1, <1>2, <2>2, <2>3, <2>4 DEF n
  <2>. QED  BY <2>5 DEF u
<1>12. Shows(t, d) = PlainValue(w) * Power(10, d) + PlainValue(b) * Power(10, d - n)
  BY <1>9, <1>10, <1>11 DEF Shows, n
<1>13. Last(t) = b[n]
  <2>1. n \in 1 .. n /\ Len(t) = (m + 1) + n
    BY <1>2, <1>5
  <2>. QED  BY <1>5, <2>1 DEF Last
<1>14. Len(t) = m + 1 + n
  BY <1>2, <1>5
<1>. QED  BY <1>12, <1>13, <1>14 DEF t, wp, p, m, n

---------------------------------------------------------------------------
(* format_decimals.                                                         *)

LEMMA GreatestNumber ==
  ASSUME NEW n \in Nat, NEW T \in SUBSET (0 .. n), T # {}
  PROVE  Max(T) \in T /\ \A x \in T : x <= Max(T)
<1> DEFINE U == {k \in Nat : n - k \in T}
<1>1. U \in SUBSET Nat /\ U # {}
  <2>1. PICK x \in T : TRUE
    OBVIOUS
  <2>2. x \in 0 .. n
    BY <2>1
  <2>3. n - x \in Nat /\ n - (n - x) = x
    BY <2>2
  <2>. QED  BY <2>1, <2>3
<1>2. PICK k \in U : \A j \in U : k <= j
  <2> HIDE DEF U
  <2>. QED  BY <1>1, LeastNumber
<1>3. ASSUME NEW x \in T  PROVE n - k >= x
  <2>1. x \in 0 .. n /\ k \in Nat
    BY <1>2
  <2>2. n - x \in Nat /\ n - (n - x) = x
    BY <2>1
  <2>3. k <= n - x
    BY <1>2, <2>2
  <2>. QED  BY <2>1, <2>3
<1>4. n - k \in T
  BY <1>2
<1> HIDE DEF U
<1> DEFINE g == n - k
<1>5. g \in T /\ \A x \in T : g >= x
  BY <1>3, <1>4
<1> HIDE DEF g
<1>6. Max(T) \in T /\ \A x \in T : Max(T) >= x
  BY <1>5, Zenon DEF Max
<1>7. \A x \in T : x \in Int
  OBVIOUS
<1>. QED  BY <1>6, <1>7

LEMMA WithoutZerosIs ==
  ASSUME NEW s \in Seq(Digits)
  PROVE  /\ WithoutZeros(s) \in Seq(Digits)
         /\ Len(WithoutZeros(s)) \in 0 .. Len(s)
         /\ PlainValue(s) = PlainValue(WithoutZeros(s))
                            * Power(10, Len(s) - Len(WithoutZeros(s)))
         /\ WithoutZeros(s) # <<>> => WithoutZeros(s)[Len(WithoutZeros(s))] # 0
<1> DEFINE l == Len(s)
           others == {k \in DOMAIN s : s[k] # 0}
           z == WithoutZeros(s)
<1>1. l \in Nat /\ DOMAIN s = 1 .. l /\ s \in Seq(Int)
  BY LenProperties, DigitsInt
<1>2. ASSUME others = {}
      PROVE  z = <<>> /\ Len(z) = 0 /\ PlainValue(s) = 0 /\ PlainValue(z) = 0
  <2>1. z = <<>> /\ Len(z) = 0
    BY <1>2 DEF WithoutZeros
  <2>2. \A k \in 1 .. l : s[k] = 0
    BY <1>1, <1>2
  <2>3. PlainValue(s) = 0
    BY <1>1, <2>2, PlainZeros
  <2>. QED  BY <2>1, <2>3, PlainNone
<1>3. CASE others = {}
  <2>1. Power(10, l - Len(z)) \in Nat
    <3>1. l - Len(z) = l
      <4> HIDE DEF z, l, others
      <4>. QED  BY <1>1, <1>2, <1>3
    <3>. QED  BY <1>1, <3>1, Tens
  <2>2. <<>> \in Seq(Digits)
    OBVIOUS
  <2> HIDE DEF z, l, others
  <2>3. PlainValue(z) * Power(10, l - Len(z)) = 0
    BY <1>2, <1>3, <2>1
  <2>4. z \in Seq(Digits) /\ Len(z) \in 0 .. l /\ z = <<>>
    BY <1>1, <1>2, <1>3, <2>2
  <2>. QED  BY <1>2, <1>3, <2>3, <2>4 DEF z, l
<1>4. CASE others # {}
  <2> DEFINE m == Max(others)
             t == SubSeq(s, m + 1, l)
  <2>1. m \in 1 .. l /\ s[m] # 0 /\ \A k \in others : k <= m
    <3>1. others \in SUBSET (0 .. l)
      BY <1>1
    <3>2. m \in others /\ \A k \in others : k <= m
      <4> HIDE DEF others, l
      <4>. QED  BY <1>1, <1>4, <3>1, GreatestNumber
    <3>. QED  BY <1>1, <3>2
  <2>2. z = SubSeq(s, 1, m)
    BY <1>4 DEF WithoutZeros
  <2>3. m \in 0 .. Len(s)
    BY <1>1, <2>1
  <2>4. /\ z \in Seq(Digits) /\ Len(z) = m
        /\ t \in Seq(Digits) /\ Len(t) = l - m /\ Joined(s, z, t)
    <3> HIDE DEF m, z
    <3>. QED  BY <2>2, <2>3, PartsJoined
  <2> HIDE DEF m, t, z
  <2>5. \A k \in 1 .. Len(t) : t[k] = 0
    <3>. TAKE k \in 1 .. Len(t)
    <3>1. m + k \in 1 .. l /\ ~(m + k <= m)
      BY <1>1, <2>1, <2>4
    <3>2. s[m + k] = t[k]
      BY <2>4 DEF Joined
    <3>3. m + k \notin others
      <4> HIDE DEF others
      <4>. QED  BY <2>1, <3>1
    <3>. QED  BY <1>1, <3>1, <3>2, <3>3
  <2>6. PlainValue(s) = PlainValue(z) * Power(10, l - m)
    <3>1. PlainValue(s) = PlainValue(z) * Power(10, Len(t)) + PlainValue(t)
      BY <1>1, <2>4, DigitsInt, PlainJoined
    <3>2. PlainValue(t) = 0
      BY <2>4, <2>5, DigitsInt, PlainZeros
    <3>3. PlainValue(z) \in Nat /\ Power(10, Len(t)) \in Nat
      <4>1. Len(t) \in Nat
        BY <1>1, <2>1, <2>4
      <4>. QED  BY <2>4, <4>1, Tens, PlainRange
    <3> DEFINE q == PlainValue(z) * Power(10, Len(t))
    <3>4. q \in Int /\ PlainValue(s) = q + 0
      BY <3>1, <3>2, <3>3
    <3> HIDE DEF q
    <3>5. PlainValue(s) = q
      BY <3>4
    <3>. QED  BY <2>4, <3>5 DEF q
  <2>7. z[m] = s[m]
    BY <2>1, <2>4 DEF Joined
  <2>8. Len(z) \in 0 .. l
    BY <2>3, <2>4 DEF l
  <2>. QED  BY <2>1, <2>4, <2>6, <2>7, <2>8 DEF z, l
<1>. QED  BY <1>3, <1>4

\* Digits in front of the point and behind it, where zeros come first.
LEMMA WithFractionIs ==
  ASSUME NEW w \in Seq(Digits), NEW zeros \in Seq(Digits), NEW s \in Seq(Digits),
         \A k \in 1 .. Len(zeros) : zeros[k] = 0,
         NEW d \in Nat, d = Len(zeros) + Len(s)
  PROVE  /\ Shows(WithFraction(w, zeros, s), d)
              = PlainValue(w) * Power(10, d) + PlainValue(s)
         /\ Len(WithFraction(w, zeros, s)) <= Len(w) + 1 + d
         /\ Point \in Range(WithFraction(w, zeros, s)) /\ (zeros = <<>> \/ PlainValue(s) # 0)
              => Last(WithFraction(w, zeros, s)) # 0
<1> DEFINE z == WithoutZeros(s)
           b == zeros \o z
           t == WithFraction(w, zeros, s)
           c == Len(zeros)
           l == Len(s)
           n == Len(z)
           m == Len(w)
<1>1. c \in Nat /\ l \in Nat /\ m \in Nat
  BY LenProperties
<1>2. /\ z \in Seq(Digits) /\ n \in 0 .. l
      /\ PlainValue(s) = PlainValue(z) * Power(10, l - n)
      /\ z # <<>> => z[n] # 0
  BY WithoutZerosIs
<1> HIDE DEF z
<1>3. b \in Seq(Digits) /\ Joined(b, zeros, z) /\ Len(b) = c + n
  <2>1. b \in Seq(Digits) /\ Joined(b, zeros, z)
    BY <1>2, JoinedAre
  <2>. QED  BY <2>1 DEF Joined
<1>4. PlainValue(b) = PlainValue(z)
  <2>1. PlainValue(b) = PlainValue(zeros) * Power(10, n) + PlainValue(z)
    BY <1>2, <1>3, DigitsInt, PlainJoined
  <2>2. PlainValue(zeros) = 0
    BY DigitsInt, PlainZeros
  <2>3. PlainValue(z) \in Nat /\ Power(10, n) \in Nat
    <3>1. n \in Nat
      BY <1>1, <1>2
    <3>. QED  BY <1>2, <3>1, Tens, PlainRange
  <2>. QED  BY <2>1, <2>2, <2>3
<1> HIDE DEF b
<1>5. t = IF b = <<>> THEN w ELSE w \o <<Point>> \o b
  BY DEF WithFraction, b, z
<1> HIDE DEF t
<1>6. PlainValue(w) * Power(10, d) \in Int
  <2>1. PlainValue(w) \in Nat /\ Power(10, d) \in Nat
    BY Tens, PlainRange
  <2>. QED  BY <2>1
<1>7. CASE b = <<>>
  <2>1. Len(b) = 0 /\ PlainValue(b) = 0
    BY <1>7, PlainNone
  <2>2. t = w /\ Shows(t, d) = PlainValue(w) * Power(10, d) /\ Point \notin Range(t)
    BY <1>5, <1>7, NoPointShown
  <2>3. PlainValue(s) = 0
    <3>1. l - n \in Nat
      BY <1>1, <1>2
    <3>2. Power(10, l - n) \in Nat
      BY <3>1, Tens
    <3> DEFINE p == Power(10, l - n)
    <3> HIDE DEF p
    <3>3. PlainValue(s) = 0 * p /\ p \in Nat
      BY <1>2, <1>4, <2>1, <3>2 DEF p
    <3>. QED  BY <3>3
  <2>4. Len(t) <= m + 1 + d
    BY <1>1, <2>2
  <2> DEFINE q == PlainValue(w) * Power(10, d)
  <2> HIDE DEF q
  <2>5. Shows(t, d) = q + PlainValue(s)
    BY <1>6, <2>2, <2>3 DEF q
  <2>. QED  BY <2>2, <2>4, <2>5 DEF t, q, m
<1>8. CASE b # <<>>
  <2>1. /\ t = w \o <<Point>> \o b
        /\ Shows(t, d) = PlainValue(w) * Power(10, d) + PlainValue(b) * Power(10, d - Len(b))
        /\ Len(t) = m + 1 + Len(b) /\ Last(t) = b[Len(b)]
    BY <1>3, <1>5, <1>8, PointShown
  <2>2. d - Len(b) = l - n
    <3> HIDE DEF c, l, n
    <3>1. d = c + l
      BY DEF c, l
    <3>2. n \in Nat
      BY <1>1, <1>2
    <3>3. (c + l) - (c + n) = l - n
      BY <1>1, <3>2
    <3>. QED  BY <1>3, <3>1, <3>3
  <2>3. Shows(t, d) = PlainValue(w) * Power(10, d) + PlainValue(s)
    BY <1>2, <1>4, <2>1, <2>2
  <2>4. Len(t) <= m + 1 + d
    <3> HIDE DEF c, l, n, m
    <3>1. d = c + l
      BY DEF c, l
    <3>. QED  BY <1>1, <1>2, <1>3, <2>1, <3>1
  <2>5. ASSUME zeros = <<>> \/ PlainValue(s) # 0  PROVE Last(t) # 0
    <3>1. z # <<>>
      <4>1. CASE zeros = <<>>
        <5>1. c = 0
          BY <4>1
        <5>2. ASSUME z = <<>>  PROVE FALSE
          <6>1. n = 0
            BY <5>2
          <6> HIDE DEF c, n
          <6>2. Len(b) = 0
            BY <1>3, <5>1, <6>1
          <6>. QED  BY <1>3, <1>8, <6>2, EmptySeq
        <5>. QED  BY <5>2
      <4>2. CASE PlainValue(s) # 0
        <5>1. ASSUME z = <<>>  PROVE FALSE
          <6>1. PlainValue(z) = 0
            BY <5>1, PlainNone
          <6>2. l - n \in Nat
            BY <1>1, <1>2
          <6>3. Power(10, l - n) \in Nat
            BY <6>2, Tens
          <6> DEFINE p == Power(10, l - n)
          <6> HIDE DEF p
          <6>4. PlainValue(s) = 0 * p /\ p \in Nat
            BY <1>2, <6>1, <6>3 DEF p
          <6>. QED  BY <4>2, <6>4
        <5>. QED  BY <5>1
      <4>. QED  BY <2>5, <4>1, <4>2
    <3>2. n \in 1 .. Len(z)
      <4>1. n \in Nat \ {0}
        BY <1>2, <3>1, EmptySeq
      <4>. QED  BY <4>1
    <3>3. b[c + n] = z[n]
      <4> HIDE DEF n
      <4>. QED  BY <1>3, <3>2 DEF Joined
    <3>. QED  BY <1>2, <1>3, <2>1, <3>1, <3>3
  <2>. QED  BY <2>3, <2>4, <2>5 DEF t, m
<1>. QED  BY <1>7, <1>8

\* Digits with the point where it belongs.
Formatted(r, src, d) ==
  \E t : /\ r = [ok |-> TRUE, text |-> t]
         /\ Shows(t, d) = PlainValue(src)
         /\ Point \in Range(t) /\ (src = <<0>> \/ PlainValue(src) # 0) => Last(t) # 0
         /\ \A n \in Nat : Len(src) + 2 <= n /\ d + 3 <= n => Len(t) + 1 <= n
         /\ Len(t) \in Nat

LEMMA FormatDecimalsIs ==
  ASSUME NEW src \in Seq(Digits), NEW room \in Nat, NEW d \in Nat
  PROVE  \/ /\ FormatDecimals(src, room, d) = Failed
            /\ ~(Len(src) + 2 <= room /\ d + 3 <= room)
         \/ /\ Formatted(FormatDecimals(src, room, d), src, d)
            /\ Len(FormatDecimals(src, room, d).text) + 1 <= room
<1> DEFINE r == FormatDecimals(src, room, d)
           l == Len(src)
           p == Power(10, d)
<1>1. l \in Nat /\ <<0>> \in Seq(Digits) /\ Len(<<0>>) = 1 /\ PlainValue(<<0>>) = 0
  <2>1. 0 \in Digits /\ 0 \in Int
    BY DEF Digits
  <2>2. PlainValue(<<0>>) = 0
    BY <2>1, PlainOne
  <2>3. Len(<<0>>) = 1
    OBVIOUS
  <2>. QED  BY <2>1, <2>2, <2>3, LenProperties
<1>2. p \in Nat
  BY Tens
<1>3. CASE src = <<0>>
  <2>1. r = IF room < 2 THEN Failed ELSE [ok |-> TRUE, text |-> <<0>>]
    BY <1>3 DEF FormatDecimals
  <2>2. Shows(<<0>>, d) = PlainValue(<<0>>) * p /\ Point \notin Range(<<0>>)
    BY <1>1, NoPointShown
  <2> HIDE DEF r, p
  <2>3. Shows(<<0>>, d) = 0
    BY <1>1, <1>2, <2>2
  <2>4. CASE room < 2
    <3>1. ~(d + 3 <= room)
      BY <2>4
    <3>. QED  BY <2>1, <2>4, <3>1 DEF r
  <2>5. CASE ~(room < 2)
    <3> DEFINE t == <<0>>
    <3> HIDE DEF t
    <3>1. r = [ok |-> TRUE, text |-> t] /\ Len(t) = 1
      BY <1>1, <2>1, <2>5 DEF t
    <3>2. Shows(t, d) = PlainValue(src) /\ Point \notin Range(t)
      BY <1>1, <1>3, <2>2, <2>3 DEF t
    <3>3. /\ \A n \in Nat : l + 2 <= n /\ d + 3 <= n => Len(t) + 1 <= n
          /\ Len(t) \in Nat /\ Len(t) + 1 <= room
      BY <2>5, <3>1
    <3>4. r.text = t
      BY <3>1
    <3>5. Formatted(r, src, d)
      BY <3>1, <3>2, <3>3, Zenon DEF Formatted
    <3>. QED  BY <3>3, <3>4, <3>5 DEF r
  <2>. QED  BY <2>4, <2>5
<1>4. ASSUME src # << 0 >>, NEW w \in Seq(Digits), NEW zeros \in Seq(Digits), NEW s \in Seq(Digits),
             \A k \in 1 .. Len(zeros) : zeros[k] = 0, d = Len(zeros) + Len(s),
             PlainValue(src) = PlainValue(w) * p + PlainValue(s),
             (zeros = <<>> \/ PlainValue(src) # 0) => (zeros = <<>> \/ PlainValue(s) # 0),
             NEW bound \in Nat, bound = Len(w) + 2 + d, bound <= room,
             bound = l + 2 \/ bound = d + 3,
             r = [ok |-> TRUE, text |-> WithFraction(w, zeros, s)]
      PROVE  Formatted(r, src, d) /\ Len(r.text) + 1 <= room
  <2> DEFINE t == WithFraction(w, zeros, s)
  <2>1. /\ Shows(t, d) = PlainValue(w) * Power(10, d) + PlainValue(s)
        /\ Len(t) <= Len(w) + 1 + d
        /\ Point \in Range(t) /\ (zeros = <<>> \/ PlainValue(s) # 0) => Last(t) # 0
    <3>1. (\A k \in 1 .. Len(zeros) : zeros[k] = 0) /\ d = Len(zeros) + Len(s)
      BY <1>4
    <3>. QED  BY <3>1, WithFractionIs
  <2>2. Len(t) \in Nat
    <3>1. t \in Seq(Digits \cup {Point})
      <4> DEFINE D == Digits \cup {Point}
                 b == zeros \o WithoutZeros(s)
      <4>1. b \in Seq(Digits)
        BY WithoutZerosIs, ConcatProperties
      <4>2. \A u \in Seq(Digits) : u \in Seq(D)
        <5>. TAKE u \in Seq(Digits)
        <5>1. u \in [1 .. Len(u) -> Digits] /\ Len(u) \in Nat
          BY LenProperties
        <5> HIDE DEF D
        <5>2. \A x \in Digits : x \in D
          BY DEF D
        <5>3. u \in [1 .. Len(u) -> D]
          BY <5>1, <5>2
        <5>. QED  BY SMTT(30), <5>1, <5>3
      <4>3. <<Point>> \in Seq(D)
        OBVIOUS
      <4>4. t = IF b = <<>> THEN w ELSE w \o <<Point>> \o b
        BY DEF WithFraction
      <4> HIDE DEF b, D, t
      <4>5. w \o <<Point>> \o b \in Seq(D)
        BY <4>1, <4>2, <4>3, ConcatProperties
      <4>. QED  BY <4>2, <4>4, <4>5 DEF D
    <3> HIDE DEF t
    <3>. QED  BY <3>1, LenProperties
  <2> HIDE DEF t
  <2>3. Len(w) \in Nat
    BY LenProperties
  <2>4. /\ \A n \in Nat : l + 2 <= n /\ d + 3 <= n => Len(t) + 1 <= n
        /\ Len(t) + 1 <= room
    <3>1. Len(t) + 1 <= bound
      BY <1>4, <2>1, <2>2, <2>3
    <3> HIDE DEF l
    <3>. QED  BY <1>1, <1>4, <2>2, <3>1
  <2>5. r = [ok |-> TRUE, text |-> t] /\ r.text = t
    <3>1. r = [ok |-> TRUE, text |-> t]
      BY <1>4 DEF t
    <3> HIDE DEF r
    <3>. QED  BY <3>1
  <2>6. Shows(t, d) = PlainValue(src)
    BY <1>4, <2>1
  <2>7. Point \in Range(t) /\ (src = <<0>> \/ PlainValue(src) # 0) => Last(t) # 0
    BY <1>4, <2>1
  <2>8. Formatted(r, src, d)
    <3> HIDE DEF r
    <3>. QED  BY <2>2, <2>4, <2>5, <2>6, <2>7, Zenon DEF Formatted, l
  <2>. QED  BY <2>4, <2>5, <2>8
<1>5. CASE src # <<0>> /\ l <= d
  <2> DEFINE c == d - l
             zeros == [k \in 1 .. c |-> 0]
             w == <<0>>
             bound == d + 3
  <2>1. c \in Nat /\ l + 1 + 2 + c = bound /\ bound \in Nat
    BY <1>1, <1>5
  <2>2. r = IF room < l + 1 + 2 + c THEN Failed
            ELSE [ok |-> TRUE, text |-> WithFraction(w, zeros, src)]
    BY <1>5 DEF FormatDecimals
  <2>3. CASE room < bound
    <3>1. r = Failed
      BY <2>1, <2>2, <2>3
    <3>2. ~(d + 3 <= room)
      BY <2>3
    <3>. QED  BY <3>1, <3>2
  <2>4. CASE ~(room < bound)
    <3>1. r = [ok |-> TRUE, text |-> WithFraction(w, zeros, src)]
      <4> HIDE DEF r
      <4>. QED  BY <2>1, <2>2, <2>4
    <3>2. zeros \in Seq(Digits) /\ Len(zeros) = c /\ \A k \in 1 .. Len(zeros) : zeros[k] = 0
      <4>1. 0 \in Digits
        BY DEF Digits
      <4> HIDE DEF c
      <4>2. zeros \in Seq(Digits)
        BY <2>1, <4>1
      <4>3. Len(zeros) = c
        BY <2>1
      <4>. QED  BY <4>2, <4>3
    <3>3. bound <= room /\ bound = 1 + 2 + d
      BY <2>1, <2>4
    <3>4. PlainValue(src) = PlainValue(w) * p + PlainValue(src)
      <4>1. PlainValue(src) \in Nat
        BY PlainRange
      <4>2. PlainValue(w) = 0
        BY <1>1
      <4> HIDE DEF p, w
      <4>. QED  BY <1>2, <4>1, <4>2
    <3>5. d = c + l
      BY <1>1
    <3>6. w \in Seq(Digits) /\ Len(w) = 1
      BY <1>1
    <3> HIDE DEF r, zeros, w, c, bound
    <3>7. d = Len(zeros) + Len(src) /\ bound = Len(w) + 2 + d /\ (bound = l + 2 \/ bound = d + 3)
      BY <3>2, <3>3, <3>5, <3>6, <2>1 DEF l, bound
    <3>8. Formatted(r, src, d) /\ Len(r.text) + 1 <= room
      BY <1>4, <1>5, <2>1, <3>1, <3>2, <3>3, <3>4, <3>6, <3>7
    <3>. QED  BY <3>8 DEF r
  <2>. QED  BY <2>3, <2>4
<1>6. CASE src # <<0>> /\ ~(l <= d)
  <2> DEFINE c == l - d
             w == SubSeq(src, 1, c)
             s == SubSeq(src, c + 1, l)
             zeros == <<>>
             bound == l + 2
  <2>1. c \in 0 .. l /\ l - c = d /\ bound \in Nat /\ l + 1 + 1 = bound
    BY <1>1, <1>6
  <2>2. r = IF room < l + 1 + 1 THEN Failed
            ELSE [ok |-> TRUE, text |-> WithFraction(w, zeros, s)]
    BY <1>6 DEF FormatDecimals
  <2>3. CASE room < bound
    <3>1. r = Failed
      BY <2>1, <2>2, <2>3
    <3>2. ~(l + 2 <= room)
      BY <2>3
    <3>. QED  BY <3>1, <3>2
  <2>4. CASE ~(room < bound)
    <3>1. r = [ok |-> TRUE, text |-> WithFraction(w, zeros, s)]
      <4> HIDE DEF r
      <4>. QED  BY <2>1, <2>2, <2>4
    <3>2. /\ w \in Seq(Digits) /\ Len(w) = c /\ s \in Seq(Digits) /\ Len(s) = d
          /\ Joined(src, w, s)
      <4> HIDE DEF c
      <4>. QED  BY <2>1, PartsJoined
    <3>3. zeros \in Seq(Digits) /\ Len(zeros) = 0 /\ \A k \in 1 .. Len(zeros) : zeros[k] = 0
      OBVIOUS
    <3> HIDE DEF r, zeros, w, s
    <3>4. PlainValue(src) = PlainValue(w) * p + PlainValue(s)
      <4>1. src \in Seq(Int) /\ w \in Seq(Int) /\ s \in Seq(Int)
        BY <3>2, DigitsInt
      <4>. QED  BY <3>2, <4>1, PlainJoined
    <3>5. bound <= room /\ bound = c + 2 + d
      BY <1>1, <2>1, <2>4
    <3>6. bound = l + 2
      OBVIOUS
    <3>7. zeros = <<>>
      BY DEF zeros
    <3> HIDE DEF c, bound
    <3>8. d = Len(zeros) + Len(s) /\ bound = Len(w) + 2 + d
      BY <3>2, <3>3, <3>5
    <3>9. Formatted(r, src, d) /\ Len(r.text) + 1 <= room
      BY <1>4, <1>6, <2>1, <3>1, <3>2, <3>3, <3>4, <3>5, <3>6, <3>7, <3>8
    <3>. QED  BY <3>9 DEF r
  <2>. QED  BY <2>3, <2>4
<1>. QED  BY <1>3, <1>5, <1>6

---------------------------------------------------------------------------
(* Numbers and their bytes.                                                 *)

\* Numbers each of which is the next one with a digit behind it: what the first
\* divided by a power leaves.
LEMMA DigitsBehind ==
  ASSUME NEW b \in Nat \ {0}, NEW n \in Nat, NEW w, NEW d,
         \A k \in 1 .. n + 1 : w[k] \in Nat,
         \A k \in 1 .. n : d[k] \in 0 .. b - 1 /\ w[k] = d[k] + b * w[k + 1]
  PROVE  /\ \A k \in 0 .. n : w[1] \div Power(b, k) = w[k + 1]
         /\ \A k \in 1 .. n : (w[1] \div Power(b, k - 1)) % b = d[k]
         /\ w[n + 1] = 0 => w[1] < Power(b, n)
<1> DEFINE T == {k \in Nat : k <= n => w[1] \div Power(b, k) = w[k + 1]}
<1>1. w[1] \in Nat /\ b \in Int
  OBVIOUS
<1>2. 0 \in T
  <2>1. Power(b, 0) = 1 /\ 0 + 1 = 1
    BY <1>1, Powers
  <2>2. w[1] \div 1 = w[1]
    BY <1>1
  <2>. QED  BY <2>1, <2>2
<1>3. ASSUME NEW k \in 1 .. n
      PROVE  w[k] \div b = w[k + 1] /\ w[k] % b = d[k]
  <2>1. w[k] = b * w[k + 1] + d[k] /\ w[k + 1] \in Nat /\ d[k] \in 0 .. b - 1
    <3>1. k \in 1 .. n + 1 /\ k + 1 \in 1 .. n + 1
      OBVIOUS
    <3>2. w[k] = d[k] + b * w[k + 1] /\ w[k + 1] \in Nat /\ d[k] \in 0 .. b - 1
      BY <3>1
    <3>. QED  BY <3>2
  <2> DEFINE x == w[k + 1]
             r == d[k]
  <2>2. w[k] = b * x + r /\ x \in Nat /\ r \in 0 .. b - 1
    BY <2>1
  <2> HIDE DEF x, r
  <2>3. (b * x + r) \div b = x /\ (b * x + r) % b = r
    BY <2>2, DivUnique
  <2>. QED  BY <2>2, <2>3 DEF x, r
<1>4. ASSUME NEW k \in T  PROVE k + 1 \in T
  <2>1. SUFFICES ASSUME k + 1 <= n
                 PROVE  w[1] \div Power(b, k + 1) = w[(k + 1) + 1]
    OBVIOUS
  <2>2. w[1] \div Power(b, k) = w[k + 1] /\ k \in Nat /\ k + 1 \in 1 .. n
    BY <2>1
  <2> DEFINE p == Power(b, k)
  <2>3. p \in Nat \ {0} /\ Power(b, k + 1) = b * p
    BY <1>1, <2>2, Powers, PowersPositive
  <2> HIDE DEF p
  <2>4. w[1] \div (b * p) = (w[1] \div p) \div b
    BY <1>1, <2>3, DivTwice
  <2>5. w[k + 1] \div b = w[(k + 1) + 1]
    BY <1>3, <2>2
  <2>. QED  BY <2>2, <2>3, <2>4, <2>5 DEF p
<1>5. T \in SUBSET Nat
  OBVIOUS
<1>6. T = Nat
  <2> HIDE DEF T
  <2>. QED  BY <1>2, <1>4, <1>5, Induction
<1>7. \A k \in 0 .. n : w[1] \div Power(b, k) = w[k + 1]
  BY <1>6
<1> HIDE DEF T
<1>8. \A k \in 1 .. n : (w[1] \div Power(b, k - 1)) % b = d[k]
  <2>. TAKE k \in 1 .. n
  <2>1. k - 1 \in 0 .. n /\ (k - 1) + 1 = k
    OBVIOUS
  <2>2. w[1] \div Power(b, k - 1) = w[k]
    BY <1>7, <2>1
  <2>. QED  BY <1>3, <2>2
<1>9. w[n + 1] = 0 => w[1] < Power(b, n)
  <2>. SUFFICES ASSUME w[n + 1] = 0  PROVE w[1] < Power(b, n)
    OBVIOUS
  <2> DEFINE p == Power(b, n)
  <2>1. p \in Nat \ {0}
    BY PowersPositive
  <2>2. w[1] \div p = 0
    <3>1. n \in 0 .. n
      OBVIOUS
    <3>. QED  BY <1>7, <3>1
  <2> HIDE DEF p
  <2>3. w[1] = p * (w[1] \div p) + (w[1] % p) /\ w[1] % p \in 0 .. p - 1
    BY <1>1, <2>1, DivSplit
  <2> DEFINE x == w[1]
             q == x \div p
             t == x % p
  <2>4. x = p * q + t /\ t \in 0 .. p - 1 /\ q = 0
    BY <2>2, <2>3
  <2> HIDE DEF q, t, x
  <2>5. x < p
    BY <2>1, <2>4
  <2>. QED  BY <2>5 DEF p, x
<1>. QED  BY <1>7, <1>8, <1>9, Zenon

\* What is read is the first of such numbers.
LEMMA ReadLEIs ==
  ASSUME NEW base \in Int, NEW bytes, NEW w,
         \A k \in 1 .. 9 : w[k] \in Int, w[9] = 0,
         \A k \in 1 .. 8 : w[k] = (IF k \in DOMAIN bytes THEN bytes[k] ELSE 0)
                                  + base * w[k + 1],
         \A k \in DOMAIN bytes : bytes[k] \in Int
  PROVE  ReadLE(base, bytes) = w[1]
<1> DEFINE v(k) == IF k \in DOMAIN bytes THEN bytes[k] ELSE 0
<1>1. ReadLE(base, bytes) =
        v(1) + base * (v(2) + base * (v(3) + base * (v(4) + base * (v(5)
        + base * (v(6) + base * (v(7) + base * v(8)))))))
  BY DEF ReadLE
<1>2. \A k \in 1 .. 8 : w[k] = v(k) + base * w[k + 1]
  OBVIOUS
<1>3. v(8) \in Int
  OBVIOUS
<1> HIDE DEF v
<1>4. /\ w[1] = v(1) + base * w[2] /\ w[2] = v(2) + base * w[3]
      /\ w[3] = v(3) + base * w[4] /\ w[4] = v(4) + base * w[5]
      /\ w[5] = v(5) + base * w[6] /\ w[6] = v(6) + base * w[7]
      /\ w[7] = v(7) + base * w[8] /\ w[8] = v(8) + base * w[9]
  BY <1>2
<1>5. w[8] = v(8)
  <2>1. base * 0 = 0 /\ v(8) + 0 = v(8)
    BY <1>3
  <2>2. w[8] = v(8) + base * 0
    BY <1>4
  <2>. QED  BY <2>1, <2>2
<1>. QED  BY <1>1, <1>4, <1>5

\* Bytes are read as the first of such numbers, one for each place.
ReadRun(w, base, bytes) ==
  /\ ReadLE(base, bytes) = w[1] /\ w[Len(bytes) + 1] = 0
  /\ \A k \in 1 .. Len(bytes) + 1 : w[k] \in Nat
  /\ \A k \in 1 .. Len(bytes) :
       bytes[k] \in 0 .. base - 1 /\ w[k] = bytes[k] + base * w[k + 1]

LEMMA ReadRuns ==
  ASSUME NEW base \in Nat \ {0}, NEW bytes \in Seq(Byte(base)), Len(bytes) <= 8
  PROVE  \E w : ReadRun(w, base, bytes)
<1>0. Len(bytes) \in 0 .. 8 /\ DOMAIN bytes = 1 .. Len(bytes)
  <2>1. Len(bytes) \in Nat /\ DOMAIN bytes = 1 .. Len(bytes)
    BY LenProperties
  <2> DEFINE l == Len(bytes)
  <2>2. l \in 0 .. 8
    <3>1. l \in Nat /\ l <= 8
      BY <2>1
    <3> HIDE DEF l
    <3>. QED  BY <3>1
  <2>. QED  BY <2>1, <2>2
<1> DEFINE n == Len(bytes)
           v(k) == IF k \in DOMAIN bytes THEN bytes[k] ELSE 0
           w8 == v(8) + base * 0
           w7 == v(7) + base * w8
           w6 == v(6) + base * w7
           w5 == v(5) + base * w6
           w4 == v(4) + base * w5
           w3 == v(3) + base * w4
           w2 == v(2) + base * w3
           w1 == v(1) + base * w2
           w == [k \in 1 .. 9 |->
                   CASE k = 1 -> w1 [] k = 2 -> w2 [] k = 3 -> w3 [] k = 4 -> w4
                     [] k = 5 -> w5 [] k = 6 -> w6 [] k = 7 -> w7 [] k = 8 -> w8
                     [] k = 9 -> 0]
<1>1. base \in Nat \ {0} /\ base \in Int /\ n \in 0 .. 8 /\ DOMAIN bytes = 1 .. n
  <2>1. base \in Nat \ {0} /\ base \in Int
    OBVIOUS
  <2>. QED  BY <1>0, <2>1
<1>2. \A k \in DOMAIN bytes : bytes[k] \in 0 .. base - 1 /\ bytes[k] \in Nat
  BY <1>1, ElementOfSeq DEF Byte
<1>3. /\ v(1) \in Nat /\ v(2) \in Nat /\ v(3) \in Nat /\ v(4) \in Nat
      /\ v(5) \in Nat /\ v(6) \in Nat /\ v(7) \in Nat /\ v(8) \in Nat
  BY <1>2
<1>4. \A k \in 1 .. 8 : k > n => v(k) = 0
  BY <1>1
<1>5. \A k \in 1 .. n : v(k) = bytes[k]
  BY <1>1
<1>6. \A k \in 1 .. 8 : (IF k \in DOMAIN bytes THEN bytes[k] ELSE 0) = v(k)
  OBVIOUS
<1> HIDE DEF v, n
<1>7. \A x, y \in Nat : x + base * y \in Nat
  BY <1>1
<1>8. w8 \in Nat
  BY <1>3, <1>7
<1>9. w7 \in Nat
  <2> HIDE DEF w8
  <2>. QED  BY <1>3, <1>7, <1>8
<1>10. w6 \in Nat
  <2> HIDE DEF w7
  <2>. QED  BY <1>3, <1>7, <1>9
<1>11. w5 \in Nat
  <2> HIDE DEF w6
  <2>. QED  BY <1>3, <1>7, <1>10
<1>12. w4 \in Nat
  <2> HIDE DEF w5
  <2>. QED  BY <1>3, <1>7, <1>11
<1>13. w3 \in Nat
  <2> HIDE DEF w4
  <2>. QED  BY <1>3, <1>7, <1>12
<1>14. w2 \in Nat
  <2> HIDE DEF w3
  <2>. QED  BY <1>3, <1>7, <1>13
<1>15. w1 \in Nat
  <2> HIDE DEF w2
  <2>. QED  BY <1>3, <1>7, <1>14
<1>16. /\ w8 = v(8) + base * 0 /\ w7 = v(7) + base * w8 /\ w6 = v(6) + base * w7
       /\ w5 = v(5) + base * w6 /\ w4 = v(4) + base * w5 /\ w3 = v(3) + base * w4
       /\ w2 = v(2) + base * w3 /\ w1 = v(1) + base * w2
  OBVIOUS
<1> HIDE DEF w1, w2, w3, w4, w5, w6, w7, w8
<1>17. /\ w[1] = w1 /\ w[2] = w2 /\ w[3] = w3 /\ w[4] = w4 /\ w[5] = w5
       /\ w[6] = w6 /\ w[7] = w7 /\ w[8] = w8 /\ w[9] = 0
  OBVIOUS
<1> HIDE DEF w
<1>18. \A k \in 1 .. 9 : k = 1 \/ k = 2 \/ k = 3 \/ k = 4 \/ k = 5 \/ k = 6
                          \/ k = 7 \/ k = 8 \/ k = 9
  OBVIOUS
<1>19. \A k \in 1 .. 9 : w[k] \in Nat
  <2>1. 0 \in Nat
    OBVIOUS
  <2>. QED  BY <1>8, <1>9, <1>10, <1>11, <1>12, <1>13, <1>14, <1>15, <1>17, <1>18, <2>1
<1>20. \A k \in 1 .. 8 : w[k] = v(k) + base * w[k + 1]
  <2>. TAKE k \in 1 .. 8
  <2>1. /\ k = 1 => k + 1 = 2
        /\ k = 2 => k + 1 = 3
        /\ k = 3 => k + 1 = 4
        /\ k = 4 => k + 1 = 5
        /\ k = 5 => k + 1 = 6
        /\ k = 6 => k + 1 = 7
        /\ k = 7 => k + 1 = 8
        /\ k = 8 => k + 1 = 9
        /\ k = 1 \/ k = 2 \/ k = 3 \/ k = 4 \/ k = 5 \/ k = 6 \/ k = 7 \/ k = 8
    OBVIOUS
  <2>. QED  BY <1>16, <1>17, <2>1
<1>21. ReadLE(base, bytes) = w[1]
  <2>1. \A k \in 1 .. 9 : w[k] \in Int
    <3>1. \A x \in Nat : x \in Int
      OBVIOUS
    <3>. QED  BY <1>19, <3>1, Zenon
  <2>2. \A k \in DOMAIN bytes : bytes[k] \in Int
    BY <1>2
  <2>3. \A k \in 1 .. 8 : w[k] = (IF k \in DOMAIN bytes THEN bytes[k] ELSE 0)
                                  + base * w[k + 1]
    BY <1>6, <1>20
  <2>4. base \in Int /\ w[9] = 0
    BY <1>17
  <2>. QED  BY <2>1, <2>2, <2>3, <2>4, ReadLEIs, Zenon
<1>22. w[n + 1] = 0
  <2>1. base * 0 = 0 /\ 0 + 0 = 0
    BY <1>1
  <2>2. \A k \in 1 .. 8 : k > n /\ w[k + 1] = 0 => w[k] = 0
    BY <1>4, <1>20, <2>1
  <2>3. w[9] = 0
    BY <1>17
  <2>4. n <= 7 => w[8] = 0
    <3>1. 8 \in 1 .. 8 /\ 8 + 1 = 9 /\ (n <= 7 => 8 > n)
      BY <1>1
    <3>. QED  BY <2>2, <2>3, <3>1
  <2>5. n <= 6 => w[7] = 0
    <3>1. 7 \in 1 .. 8 /\ 7 + 1 = 8 /\ (n <= 6 => 7 > n /\ n <= 7)
      BY <1>1
    <3>. QED  BY <2>2, <2>4, <3>1
  <2>6. n <= 5 => w[6] = 0
    <3>1. 6 \in 1 .. 8 /\ 6 + 1 = 7 /\ (n <= 5 => 6 > n /\ n <= 6)
      BY <1>1
    <3>. QED  BY <2>2, <2>5, <3>1
  <2>7. n <= 4 => w[5] = 0
    <3>1. 5 \in 1 .. 8 /\ 5 + 1 = 6 /\ (n <= 4 => 5 > n /\ n <= 5)
      BY <1>1
    <3>. QED  BY <2>2, <2>6, <3>1
  <2>8. n <= 3 => w[4] = 0
    <3>1. 4 \in 1 .. 8 /\ 4 + 1 = 5 /\ (n <= 3 => 4 > n /\ n <= 4)
      BY <1>1
    <3>. QED  BY <2>2, <2>7, <3>1
  <2>9. n <= 2 => w[3] = 0
    <3>1. 3 \in 1 .. 8 /\ 3 + 1 = 4 /\ (n <= 2 => 3 > n /\ n <= 3)
      BY <1>1
    <3>. QED  BY <2>2, <2>8, <3>1
  <2>10. n <= 1 => w[2] = 0
    <3>1. 2 \in 1 .. 8 /\ 2 + 1 = 3 /\ (n <= 1 => 2 > n /\ n <= 2)
      BY <1>1
    <3>. QED  BY <2>2, <2>9, <3>1
  <2>11. n <= 0 => w[1] = 0
    <3>1. 1 \in 1 .. 8 /\ 1 + 1 = 2 /\ (n <= 0 => 1 > n /\ n <= 1)
      BY <1>1
    <3>. QED  BY <2>2, <2>10, <3>1
  <2>12. n = 0 \/ n = 1 \/ n = 2 \/ n = 3 \/ n = 4 \/ n = 5 \/ n = 6 \/ n = 7 \/ n = 8
    BY <1>1
  <2>. QED
    BY <2>3, <2>4, <2>5, <2>6, <2>7, <2>8, <2>9, <2>10, <2>11, <2>12
<1>23. ReadRun(w, base, bytes)
  <2>1. /\ \A k \in 1 .. n + 1 : k \in 1 .. 9
        /\ \A k \in 1 .. n : k \in 1 .. 8
    BY <1>1
  <2>2. /\ \A k \in 1 .. n + 1 : w[k] \in Nat
        /\ \A k \in 1 .. n : /\ bytes[k] \in 0 .. base - 1
                               /\ w[k] = bytes[k] + base * w[k + 1]
    BY <1>1, <1>2, <1>5, <1>19, <1>20, <2>1
  <2>. QED  BY <1>21, <1>22, <2>2 DEF ReadRun, n
<1>. QED  BY <1>23

---------------------------------------------------------------------------
(* Amounts, as bytes and as 256 bits.                                       *)

\* The sums that an amount's bytes add up to.
AmountRun(v, bytes) ==
  /\ v \in [0 .. Len(bytes) -> Int] /\ v[0] = 0
  /\ \A k \in 1 .. Len(bytes) : v[k] = v[k - 1] + Power(ByteOfWord, k - 1) * bytes[k]

LEMMA ByteOfWordIs == ByteOfWord \in Nat \ {0} /\ Power(ByteOfWord, WordBytes) = WordBase
<1> DEFINE m == WordBits \div WordBytes
<1>1. WordBits \in Nat /\ WordBytes \in Nat \ {0} /\ WordBits % WordBytes = 0
  BY WordBitsAssumption
<1>2. m \in Nat /\ WordBits = WordBytes * m
  <2>1. /\ WordBits \div WordBytes \in Nat
        /\ WordBits = WordBytes * (WordBits \div WordBytes) + (WordBits % WordBytes)
    BY <1>1, DivSplit
  <2> HIDE DEF m
  <2>2. WordBits = WordBytes * m + 0 /\ m \in Nat
    BY <1>1, <2>1 DEF m
  <2>3. WordBytes * m \in Nat
    BY <1>1, <2>2
  <2> DEFINE x == WordBytes * m
  <2> HIDE DEF x
  <2>4. WordBits = x
    BY <2>2, <2>3 DEF x
  <2>. QED  BY <2>2, <2>4 DEF x
<1> HIDE DEF m
<1>3. ByteOfWord = Power(2, m)
  BY DEF ByteOfWord, m
<1>4. ByteOfWord \in Nat \ {0}
  BY <1>2, <1>3, TwoPowers
<1> DEFINE B == ByteOfWord
           T == {n \in Nat : Power(B, n) = Power(2, n * m)}
<1>5. B \in Nat \ {0} /\ B = Power(2, m)
  BY <1>3, <1>4
<1> HIDE DEF B
<1>6. 0 \in T
  <2>1. Power(B, 0) = 1 /\ Power(2, 0) = 1 /\ 0 * m = 0
    <3>1. B \in Int /\ 2 \in Int
      BY <1>5
    <3>2. Power(B, 0) = 1 /\ Power(2, 0) = 1
      BY <3>1, Powers
    <3>3. 0 * m = 0
      BY <1>2
    <3>. QED  BY <3>2, <3>3
  <2>. QED  BY <2>1
<1>7. ASSUME NEW n \in T  PROVE n + 1 \in T
  <2>1. n \in Nat /\ n + 1 \in Nat /\ Power(B, n) = Power(2, n * m)
    OBVIOUS
  <2>2. (n + 1) * m = m + n * m /\ n * m \in Nat
    BY <1>2, <2>1
  <2> DEFINE x == n * m
  <2> HIDE DEF x
  <2>3. Power(2, m + x) = Power(2, m) * Power(2, x)
    <3>1. 2 \in Nat \ {0} /\ x \in Nat
      BY <2>2 DEF x
    <3>. QED  BY <1>2, <3>1, PowerSum
  <2>4. Power(B, n + 1) = B * Power(B, n)
    <3>1. B \in Int
      BY <1>5
    <3> HIDE DEF T
    <3>. QED  BY <2>1, <3>1, Powers
  <2>5. Power(B, n + 1) = Power(2, (n + 1) * m)
    BY <1>5, <2>1, <2>2, <2>3, <2>4 DEF x
  <2>. QED  BY <2>1, <2>5
<1>8. T \in SUBSET Nat
  OBVIOUS
<1>9. T = Nat
  <2> HIDE DEF T
  <2>. QED  BY <1>6, <1>7, <1>8, Induction
<1>10. Power(B, WordBytes) = Power(2, WordBytes * m)
  BY <1>1, <1>9
<1>. QED  BY <1>2, <1>4, <1>10, WordBitsAssumption DEF B

LEMMA AmountIs ==
  ASSUME NEW bytes \in Seq(Int)
  PROVE  \E v : AmountRun(v, bytes) /\ AmountOf(bytes) = v[Len(bytes)]
<1> DEFINE m == Len(bytes)
           add(k) == Power(ByteOfWord, k - 1) * bytes[k]
           step == [n \in Nat |-> [x \in Int |-> IF n \in 1 .. m THEN x + add(n) ELSE x]]
           value == CHOOSE value : value =
             [k \in 0 .. m |-> IF k = 0 THEN 0 ELSE value[k - 1] + Power(ByteOfWord, k - 1) * bytes[k]]
<1>1. m \in Nat /\ \A k \in 1 .. m : add(k) \in Int
  <2>1. m \in Nat /\ \A k \in 1 .. m : bytes[k] \in Int
    OBVIOUS
  <2>2. ASSUME NEW k \in 1 .. m  PROVE add(k) \in Int
    <3>1. k - 1 \in Nat /\ ByteOfWord \in Int
      BY <2>1, ByteOfWordIs
    <3>2. Power(ByteOfWord, k - 1) \in Int
      BY <3>1, Powers
    <3>. QED  BY <2>1, <3>2
  <2>. QED  BY <2>1, <2>2
<1>2. AmountOf(bytes) = value[m]
  BY DEF AmountOf
<1>3. \A k \in 1 .. m : add(k) = Power(ByteOfWord, k - 1) * bytes[k]
  OBVIOUS
<1>4. (\E f : f = [k \in 0 .. m |-> IF k = 0 THEN 0 ELSE f[k - 1] + add(k)])
        => value = [k \in 0 .. m |-> IF k = 0 THEN 0 ELSE value[k - 1] + add(k)]
  OBVIOUS
<1> HIDE DEF m, value, add
<1>5. step \in [Nat -> [Int -> Int]]
  BY <1>1
<1>6. \A n \in 1 .. m, x \in Int : step[n][x] = x + add(n)
  BY <1>1
<1> HIDE DEF step
<1>7. PICK f \in [0 .. m -> Int] : Follows(f, m, 0, step)
  <2> DEFINE S == Int
             a == 0
  <2>0. 0 \in Int
    OBVIOUS
  <2>1. a \in S /\ step \in [Nat -> [S -> S]]
    BY <1>5, <2>0, Zenon
  <2> HIDE DEF S, a
  <2>2. \E f \in [0 .. m -> S] : Follows(f, m, a, step)
    BY <1>1, <2>1, StepsExist
  <2>. QED  BY <2>2 DEF S, a
<1>8. f[0] = 0 /\ \A k \in 1 .. m : f[k] = f[k - 1] + add(k)
  <2>1. f[0] = 0
    BY <1>1, <1>7 DEF Follows
  <2>2. ASSUME NEW k \in 1 .. m  PROVE f[k] = f[k - 1] + add(k)
    <3>1. k \in 0 .. m /\ k # 0 /\ k - 1 \in 0 .. m /\ f[k - 1] \in Int
      BY <1>1
    <3>2. f[k] = step[k][f[k - 1]]
      BY <1>7, <3>1 DEF Follows
    <3>. QED  BY <1>6, <3>1, <3>2
  <2>. QED  BY <2>1, <2>2
<1>9. f = [k \in 0 .. m |-> IF k = 0 THEN 0 ELSE f[k - 1] + add(k)]
  <2>1. ASSUME NEW k \in 0 .. m  PROVE f[k] = IF k = 0 THEN 0 ELSE f[k - 1] + add(k)
    <3>1. k # 0 => k \in 1 .. m
      BY <1>1
    <3>. QED  BY <1>8, <3>1
  <2>. QED  BY <2>1
<1>10. value[m] = f[m]
  <2>1. value = [k \in 0 .. m |-> IF k = 0 THEN 0 ELSE value[k - 1] + add(k)]
    BY <1>4, <1>9, Zenon
  <2>2. value[0] = 0 /\ \A k \in 1 .. m : value[k] = value[k - 1] + add(k)
    <3>1. \A k \in 0 .. m : value[k] = IF k = 0 THEN 0 ELSE value[k - 1] + add(k)
      BY <2>1
    <3>2. 0 \in 0 .. m /\ \A k \in 1 .. m : k \in 0 .. m /\ k # 0
      BY <1>1
    <3>. QED  BY <3>1, <3>2
  <2>3. Alike(value, f, m)
    BY <1>8, <2>2 DEF Alike
  <2>4. \A k \in 0 .. m : value[k] = f[k]
    BY <1>1, <2>3, RunsAgree
  <2>. QED  BY <1>1, <2>4
<1>11. AmountRun(f, bytes)
  BY <1>3, <1>7, <1>8 DEF AmountRun, m
<1>. QED  BY <1>2, <1>10, <1>11 DEF m

\* A word of an amount.
LEMMA WordOfAmount ==
  ASSUME NEW bytes \in Seq(Byte(ByteOfWord)), WordBytes <= 8,
         NEW v, AmountRun(v, bytes),
         NEW at \in Nat, at + WordBytes <= Len(bytes)
  PROVE  /\ ReadLE(ByteOfWord, SubSeq(bytes, at + 1, at + WordBytes)) \in Word
         /\ v[at + WordBytes] = v[at] + Power(ByteOfWord, at)
              * ReadLE(ByteOfWord, SubSeq(bytes, at + 1, at + WordBytes))
<1> DEFINE B == ByteOfWord
           n == WordBytes
           u == SubSeq(bytes, at + 1, at + n)
           l == Len(bytes)
<1>1. B \in Nat \ {0} /\ n \in Nat \ {0} /\ n <= 8 /\ l \in Nat /\ at + n <= l
  BY ByteOfWordIs, WordBitsAssumption, LenProperties
<1>2. /\ u \in Seq(Byte(B)) /\ Len(u) = n
      /\ \A i \in 1 .. n : u[i] = bytes[at + i]
  <2> DEFINE from == at + 1
             to == at + n
  <2>1. from \in Int /\ to \in Int /\ from <= to /\ to - from + 1 = n
    BY <1>1
  <2>2. \A i \in from .. to : bytes[i] \in Byte(B)
    <3>1. \A i \in from .. to : i \in 1 .. Len(bytes)
      BY <1>1
    <3>. QED  BY <3>1, ElementOfSeq
  <2>3. \A i \in 1 .. n : from + i - 1 = at + i
    BY <1>1
  <2> HIDE DEF from, to
  <2>4. /\ SubSeq(bytes, from, to) \in Seq(Byte(B))
        /\ Len(SubSeq(bytes, from, to)) = IF from <= to THEN to - from + 1 ELSE 0
        /\ \A i \in 1 .. to - from + 1 : SubSeq(bytes, from, to)[i] = bytes[from + i - 1]
    BY <2>1, <2>2, SubSeqProperties
  <2> DEFINE x == SubSeq(bytes, from, to)
  <2>5. u = x
    BY DEF from, to
  <2> HIDE DEF x, u
  <2>6. x \in Seq(Byte(B)) /\ Len(x) = n /\ \A i \in 1 .. n : x[i] = bytes[at + i]
    BY <2>1, <2>3, <2>4 DEF x
  <2>. QED  BY <2>5, <2>6
<1> HIDE DEF u, B, n, l
<1>3. PICK w : ReadRun(w, B, u)
  <2>1. Len(u) <= 8
    BY <1>1, <1>2
  <2>. QED  BY <1>1, <1>2, <2>1, ReadRuns
<1>4. /\ ReadLE(B, u) = w[1] /\ w[n + 1] = 0 /\ \A k \in 1 .. n + 1 : w[k] \in Nat
      /\ \A k \in 1 .. n : u[k] \in 0 .. B - 1 /\ w[k] = u[k] + B * w[k + 1]
  BY <1>2, <1>3 DEF ReadRun
<1>5. w[1] \in Word
  <2>1. w[n + 1] = 0 => w[1] < Power(B, n)
    <3>1. n \in Nat
      BY <1>1
    <3>. QED  BY <1>1, <1>4, <3>1, DigitsBehind, ZenonT(60)
  <2>2. Power(B, n) = WordBase
    BY ByteOfWordIs DEF B, n
  <2>3. 1 \in 1 .. n + 1
    BY <1>1
  <2>4. w[1] \in Nat /\ w[1] < WordBase
    BY <1>4, <2>1, <2>2, <2>3
  <2>. QED  BY <2>4, WordAssumption DEF Word
<1>6. \A k \in 1 .. l : v[k - 1] \in Int /\ v[k] = v[k - 1] + Power(B, k - 1) * bytes[k]
  <2>1. \A k \in 1 .. l : k - 1 \in 0 .. l
    BY <1>1
  <2>. QED  BY <2>1 DEF AmountRun, l, B
<1>7. \A k \in Nat : Power(B, k) \in Nat /\ Power(B, k + 1) = B * Power(B, k)
  <2>1. B \in Int
    BY <1>1
  <2>. QED  BY <1>1, <2>1, Powers, PowersPositive
<1> DEFINE sum == v[at] + Power(B, at) * w[1]
           T == {j \in Nat : j <= n => v[at + j] + Power(B, at + j) * w[j + 1] = sum}
<1>8. 0 \in T
  <2>1. at + 0 = at /\ 0 + 1 = 1
    OBVIOUS
  <2>. QED  BY <2>1
<1>9. ASSUME NEW j \in T  PROVE j + 1 \in T
  <2>1. j \in Nat /\ j + 1 \in Nat
    OBVIOUS
  <2>2. ASSUME j + 1 <= n
        PROVE  v[at + (j + 1)] + Power(B, at + (j + 1)) * w[(j + 1) + 1] = sum
    <3>1. /\ j <= n /\ at + j \in Nat /\ at + (j + 1) = (at + j) + 1
          /\ (at + j) + 1 \in 1 .. l /\ ((at + j) + 1) - 1 = at + j
          /\ j + 1 \in 1 .. n /\ j + 1 \in 1 .. n + 1 /\ (j + 1) + 1 \in 1 .. n + 1
          /\ at + (j + 1) \in 1 .. l
      BY <1>1, <2>1, <2>2
    <3>2. v[at + j] + Power(B, at + j) * w[j + 1] = sum
      BY <2>1, <3>1
    <3> DEFINE p == Power(B, at + j)
               x == w[j + 1]
               y == w[(j + 1) + 1]
               d == u[j + 1]
               a == v[at + j]
    <3> HIDE DEF T, sum
    <3>3. p \in Nat /\ Power(B, at + (j + 1)) = B * p
      BY <1>7, <3>1
    <3>4. x \in Nat /\ y \in Nat /\ d \in Nat /\ x = d + B * y
      <4>1. u[j + 1] \in 0 .. B - 1 /\ w[j + 1] = u[j + 1] + B * w[(j + 1) + 1]
        BY <1>4, <3>1
      <4>2. w[j + 1] \in Nat /\ w[(j + 1) + 1] \in Nat
        BY <1>4, <3>1
      <4>3. u[j + 1] \in Nat
        BY <1>1, <4>1
      <4>. QED  BY <4>1, <4>2, <4>3
    <3>5. a \in Int /\ v[at + (j + 1)] = a + p * d
      <4>1. v[(at + j) + 1] = v[at + j] + Power(B, at + j) * bytes[(at + j) + 1]
            /\ v[at + j] \in Int
        <5>1. /\ v[((at + j) + 1) - 1] \in Int
              /\ v[(at + j) + 1] = v[((at + j) + 1) - 1] + Power(B, ((at + j) + 1) - 1) * bytes[(at + j) + 1]
          BY <1>6, <3>1
        <5>. QED  BY <3>1, <5>1
      <4>2. u[j + 1] = bytes[(at + j) + 1]
        BY <1>2, <3>1
      <4>. QED  BY <3>1, <4>1, <4>2
    <3>6. a + p * x = sum
      BY <3>2
    <3> HIDE DEF p, x, y, d, a
    <3>7. (a + p * d) + (B * p) * y = a + p * (d + B * y)
      BY <1>1, <3>3, <3>4, <3>5
    <3>. QED  BY <3>3, <3>4, <3>5, <3>6, <3>7 DEF y
  <2>. QED  BY <2>1, <2>2
<1>10. T \in SUBSET Nat
  OBVIOUS
<1>11. T = Nat
  <2> HIDE DEF T
  <2>. QED  BY <1>8, <1>9, <1>10, Induction
<1>12. v[at + n] + Power(B, at + n) * w[n + 1] = sum
  <2>1. n \in T /\ n <= n
    <3> HIDE DEF T
    <3>. QED  BY <1>1, <1>11
  <2>. QED  BY <2>1
<1> HIDE DEF T
<1>13. v[at + n] = sum
  <2>1. Power(B, at + n) \in Nat /\ v[at + n] \in Int
    <3>1. at + n \in Nat /\ at + n \in 0 .. l
      BY <1>1
    <3>. QED  BY <1>7, <3>1 DEF AmountRun, l
  <2> DEFINE p == Power(B, at + n)
             y == v[at + n]
  <2> HIDE DEF sum, p, y
  <2>2. y + p * 0 = sum /\ p \in Nat /\ y \in Int
    BY <1>4, <1>12, <2>1 DEF p, y
  <2>3. y = sum
    BY <2>2
  <2>. QED  BY <2>3 DEF y
<1>. QED  BY <1>4, <1>5, <1>13 DEF B, n, u

\* readu256LE reads what the bytes add up to.
LEMMA AmountRead ==
  ASSUME NEW bytes \in Amount
  PROVE  Read256LE(bytes) \in U256 /\ Value256(Read256LE(bytes)) = AmountOf(bytes)
<1> DEFINE B == ByteOfWord
           n == WordBytes
           W == WordBase
           r == Read256LE(bytes)
           word(at) == ReadLE(B, SubSeq(bytes, at + 1, at + n))
<1>1. bytes \in Seq(Byte(B)) /\ Len(bytes) = 4 * n
  BY DEF Amount
<1>2. B \in Nat \ {0} /\ n \in Nat \ {0} /\ Power(B, n) = W /\ W \in Nat
  BY ByteOfWordIs, WordBitsAssumption, WordAssumption
<1>3. bytes \in Seq(Int)
  <2>1. bytes \in [1 .. Len(bytes) -> Byte(B)] /\ Len(bytes) \in Nat
    BY <1>1, LenProperties
  <2>2. \A b \in Byte(B) : b \in Int
    BY <1>2 DEF Byte
  <2>3. bytes \in [1 .. Len(bytes) -> Int]
    BY <2>1, <2>2
  <2>. QED  BY <2>1, <2>3
<1>4. PICK v : AmountRun(v, bytes) /\ AmountOf(bytes) = v[Len(bytes)]
  BY <1>3, AmountIs
<1>5. /\ n \in Nat /\ 2 * n \in Nat /\ 3 * n \in Nat
      /\ 0 + n <= Len(bytes) /\ n + n <= Len(bytes)
      /\ 2 * n + n <= Len(bytes) /\ 3 * n + n <= Len(bytes)
      /\ 0 + n = n /\ n + n = 2 * n /\ 2 * n + n = 3 * n /\ 3 * n + n = 4 * n
  BY <1>1, <1>2
<1>6. ASSUME NEW at \in Nat, at + n <= Len(bytes)
      PROVE  word(at) \in Word /\ v[at + n] = v[at] + Power(B, at) * word(at)
  <2>1. WordBytes <= 8
    BY FormatAssumption
  <2>. QED  BY <1>1, <1>4, <1>6, <2>1, WordOfAmount
<1>7. /\ WordAt(bytes, 1) = SubSeq(bytes, 0 + 1, 0 + n)
      /\ WordAt(bytes, 2) = SubSeq(bytes, n + 1, n + n)
      /\ WordAt(bytes, 3) = SubSeq(bytes, 2 * n + 1, 2 * n + n)
      /\ WordAt(bytes, 4) = SubSeq(bytes, 3 * n + 1, 3 * n + n)
  <2>1. /\ (1 - 1) * n = 0 /\ (2 - 1) * n = n /\ (3 - 1) * n = 2 * n /\ (4 - 1) * n = 3 * n
        /\ 1 * n = 0 + n /\ 2 * n = n + n /\ 3 * n = 2 * n + n /\ 4 * n = 3 * n + n
    BY <1>2
  <2>. QED  BY <2>1 DEF WordAt
<1>8. /\ r.upper.upper = word(3 * n) /\ r.upper.lower = word(2 * n)
      /\ r.lower.upper = word(n) /\ r.lower.lower = word(0)
      /\ r = [upper |-> [upper |-> word(3 * n), lower |-> word(2 * n)],
              lower |-> [upper |-> word(n), lower |-> word(0)]]
  BY <1>7 DEF Read256LE
<1> HIDE DEF word, r, B, W
<1> DEFINE a == word(0)
           b == word(n)
           c == word(2 * n)
           d == word(3 * n)
<1>9. /\ a \in Word /\ b \in Word /\ c \in Word /\ d \in Word
      /\ v[n] = v[0] + Power(B, 0) * a
      /\ v[2 * n] = v[n] + Power(B, n) * b
      /\ v[3 * n] = v[2 * n] + Power(B, 2 * n) * c
      /\ v[4 * n] = v[3 * n] + Power(B, 3 * n) * d
  <2>1. a \in Word /\ v[0 + n] = v[0] + Power(B, 0) * a
    BY <1>5, <1>6
  <2>2. b \in Word /\ v[n + n] = v[n] + Power(B, n) * b
    BY <1>5, <1>6
  <2>3. c \in Word /\ v[2 * n + n] = v[2 * n] + Power(B, 2 * n) * c
    BY <1>5, <1>6
  <2>4. d \in Word /\ v[3 * n + n] = v[3 * n] + Power(B, 3 * n) * d
    BY <1>5, <1>6
  <2> HIDE DEF a, b, c, d
  <2>. QED  BY <1>5, <2>1, <2>2, <2>3, <2>4
<1>10. /\ Power(B, 0) = 1 /\ Power(B, n) = W
       /\ Power(B, 2 * n) = W * W /\ Power(B, 3 * n) = W * (W * W)
  <2>1. Power(B, 0) = 1
    <3>1. B \in Int
      BY <1>2
    <3>. QED  BY <3>1, Powers
  <2>2. Power(B, n + n) = Power(B, n) * Power(B, n)
    BY <1>2, <1>5, PowerSum
  <2>3. Power(B, n + 2 * n) = Power(B, n) * Power(B, 2 * n)
    BY <1>2, <1>5, PowerSum
  <2>4. n + 2 * n = 3 * n
    BY <1>2
  <2>. QED  BY <1>2, <1>5, <2>1, <2>2, <2>3, <2>4
<1>11. v[0] = 0 /\ AmountOf(bytes) = v[4 * n]
  BY <1>1, <1>4 DEF AmountRun
<1>12. /\ r = [upper |-> [upper |-> d, lower |-> c], lower |-> [upper |-> b, lower |-> a]]
  BY <1>8
<1> HIDE DEF a, b, c, d, n
<1>13. r \in U256
  BY <1>9, <1>12 DEF U256, U128
<1>14. a \in Int /\ b \in Int /\ c \in Int /\ d \in Int
  BY <1>9 DEF Word
<1>15. AmountOf(bytes) = a + W * b + (W * W) * c + (W * (W * W)) * d
  <2>1. v[n] = a
    <3>1. v[n] = 0 + 1 * a
      BY <1>9, <1>10, <1>11
    <3>. QED  BY <1>14, <3>1
  <2>. QED  BY <1>9, <1>10, <1>11, <2>1
<1>16. Value256(r) = (W * W) * (W * d + c) + (W * b + a)
  BY <1>12 DEF Value256, Value128, W
<1>17. Value256(r) = AmountOf(bytes)
  <2>1. (W * W) * (W * d + c) + (W * b + a) = a + W * b + (W * W) * c + (W * (W * W)) * d
    BY <1>2, <1>14
  <2>. QED  BY <1>15, <1>16, <2>1
<1>. QED  BY <1>13, <1>17 DEF r

---------------------------------------------------------------------------
(* Amounts and fees.                                                        *)

\* What the amounts of a side add up to.
TotalRun(v, amounts) ==
  /\ v[0] = 0
  /\ \A k \in 1 .. Len(amounts) : v[k] = v[k - 1] + AmountOf(amounts[k])

LEMMA TotalIs ==
  ASSUME NEW amounts \in Seq(Amount)
  PROVE  \E t \in [0 .. Len(amounts) -> Nat] :
           TotalRun(t, amounts) /\ Total(amounts) = t[Len(amounts)]
<1> DEFINE m == Len(amounts)
           f(k) == AmountOf(amounts[k])
           total == CHOOSE total : total =
             [k \in 0 .. m |-> IF k = 0 THEN 0 ELSE total[k - 1] + f(k)]
           steps == [n \in Nat |-> [x \in Nat |-> IF n \in 1 .. m THEN x + f(n) ELSE x]]
<1>1. m \in Nat /\ \A k \in 1 .. m : amounts[k] \in Amount
  BY LenProperties, ElementOfSeq
<1>2. \A k \in 1 .. m : f(k) \in Nat
  <2>. TAKE k \in 1 .. m
  <2>1. Read256LE(amounts[k]) \in U256 /\ Value256(Read256LE(amounts[k])) = f(k)
    BY <1>1, AmountRead
  <2>. QED  BY <2>1, Value256Range
<1>3. Total(amounts) = total[m]
  BY DEF Total
<1>4. \A k : f(k) = AmountOf(amounts[k])
  OBVIOUS
<1> HIDE DEF f
<1>5. steps \in [Nat -> [Nat -> Nat]] /\ \A k \in 1 .. m, x \in Nat : steps[k][x] = x + f(k)
  <2>1. \A k \in 1 .. m, x \in Nat : x + f(k) \in Nat
    BY <1>2
  <2>2. 1 .. m \in SUBSET Nat
    BY <1>1
  <2> HIDE DEF m
  <2>. QED  BY <2>1, <2>2
<1> HIDE DEF steps
<1>7. PICK t \in [0 .. m -> Nat] : Follows(t, m, 0, steps)
  <2>1. 0 \in Nat
    OBVIOUS
  <2> DEFINE a == 0
             S == Nat
  <2>2. a \in S /\ steps \in [Nat -> [S -> S]]
    BY <1>5, <2>1, Zenon
  <2> HIDE DEF a, S
  <2>3. \E t \in [0 .. m -> S] : Follows(t, m, a, steps)
    BY <1>1, <2>2, StepsExist
  <2>. QED  BY <2>3 DEF a, S
<1>9. t[0] = 0 /\ \A k \in 1 .. m : t[k] = t[k - 1] + f(k)
  <2>1. t[0] = 0
    BY <1>1, <1>7 DEF Follows
  <2>2. ASSUME NEW k \in 1 .. m  PROVE t[k] = t[k - 1] + f(k)
    <3>1. k \in 0 .. m /\ k # 0 /\ k - 1 \in 0 .. m /\ t[k - 1] \in Nat
      BY <1>1
    <3>2. t[k] = steps[k][t[k - 1]]
      BY <1>7, <3>1 DEF Follows
    <3>. QED  BY <1>5, <3>1, <3>2
  <2>. QED  BY <2>1, <2>2
<1>10. \A k \in 0 .. m : k # 0 => k \in 1 .. m
  BY <1>1
<1>12. total[m] = t[m]
  <2>1. t = [k \in 0 .. m |-> IF k = 0 THEN 0 ELSE t[k - 1] + f(k)]
    <3>1. \A k \in 0 .. m : t[k] = IF k = 0 THEN 0 ELSE t[k - 1] + f(k)
      BY <1>9, <1>10
    <3> HIDE DEF m, f
    <3>. QED  BY <3>1
  <2>2. total = [k \in 0 .. m |-> IF k = 0 THEN 0 ELSE total[k - 1] + f(k)]
    BY <2>1
  <2> HIDE DEF total
  <2>3. total[0] = 0 /\ \A k \in 1 .. m : total[k] = total[k - 1] + f(k)
    <3>1. \A k \in 0 .. m : total[k] = IF k = 0 THEN 0 ELSE total[k - 1] + f(k)
      BY <2>2
    <3>2. 0 \in 0 .. m /\ \A k \in 1 .. m : k \in 0 .. m /\ k # 0
      BY <1>1
    <3>. QED  BY <3>1, <3>2
  <2>4. Alike(total, t, m)
    BY <1>9, <2>3 DEF Alike
  <2>5. \A k \in 0 .. m : total[k] = t[k]
    BY <1>1, <2>4, RunsAgree
  <2>. QED  BY <1>1, <2>5
<1>13. TotalRun(t, amounts)
  <2>1. \A k \in 1 .. Len(amounts) : t[k] = t[k - 1] + AmountOf(amounts[k])
    BY <1>4, <1>9
  <2>. QED  BY <1>9, <2>1 DEF TotalRun
<1> HIDE DEF total
<1>. QED  BY <1>3, <1>12, <1>13

\* The parser's sum of a side is its total, as long as that has 256 bits.
LEMMA SumIs ==
  ASSUME NEW amounts \in Seq(Amount), Total(amounts) < Modulus
  PROVE  /\ SumOfAmounts(amounts) \in U256
         /\ Value256(SumOfAmounts(amounts)) = Total(amounts)
<1> DEFINE m == Len(amounts)
           e(k) == Read256LE(amounts[k])
           f(k) == AmountOf(amounts[k])
           sum == CHOOSE sum : sum =
             [k \in 0 .. m |-> IF k = 0 THEN Zero256 ELSE Add256(e(k), sum[k - 1])]
           adds == [n \in Nat |-> [x \in U256 |-> IF n \in 1 .. m THEN Add256(e(n), x) ELSE x]]
<1>1. m \in Nat /\ \A k \in 1 .. m : amounts[k] \in Amount
  BY LenProperties, ElementOfSeq
<1>2. \A k \in 1 .. m : e(k) \in U256 /\ Value256(e(k)) = f(k) /\ f(k) \in Nat
  <2>. TAKE k \in 1 .. m
  <2>1. e(k) \in U256 /\ Value256(e(k)) = f(k)
    BY <1>1, AmountRead
  <2>. QED  BY <2>1, Value256Range
<1>3. SumOfAmounts(amounts) = sum[m]
  BY DEF SumOfAmounts
<1> HIDE DEF e, f
<1>4. adds \in [Nat -> [U256 -> U256]] /\ \A k \in 1 .. m, x \in U256 : adds[k][x] = Add256(e(k), x)
  <2>1. \A k \in 1 .. m, x \in U256 : Add256(e(k), x) \in U256
    BY <1>2, Sum256
  <2>2. 1 .. m \in SUBSET Nat
    BY <1>1
  <2> HIDE DEF m
  <2>. QED  BY <2>1, <2>2
<1> HIDE DEF adds
<1>6. PICK s \in [0 .. m -> U256] : Follows(s, m, Zero256, adds)
  BY <1>1, <1>4, Zero256Is, StepsExist
<1>7. PICK t \in [0 .. m -> Nat] : TotalRun(t, amounts) /\ Total(amounts) = t[m]
  BY TotalIs
<1>8. s[0] = Zero256 /\ \A k \in 1 .. m : s[k] = Add256(e(k), s[k - 1])
  <2>1. s[0] = Zero256
    BY <1>1, <1>6 DEF Follows
  <2>2. ASSUME NEW k \in 1 .. m  PROVE s[k] = Add256(e(k), s[k - 1])
    <3>1. k \in 0 .. m /\ k # 0 /\ k - 1 \in 0 .. m /\ s[k - 1] \in U256
      BY <1>1
    <3>2. s[k] = adds[k][s[k - 1]]
      BY <1>6, <3>1 DEF Follows
    <3>. QED  BY <1>4, <3>1, <3>2
  <2>. QED  BY <2>1, <2>2
<1>9. t[0] = 0 /\ \A k \in 1 .. m : t[k] = t[k - 1] + f(k)
  BY <1>7 DEF TotalRun, f
<1>10. \A k \in 0 .. m : k # 0 => k \in 1 .. m
  BY <1>1
<1>11. sum[m] = s[m]
  <2>1. s = [k \in 0 .. m |-> IF k = 0 THEN Zero256 ELSE Add256(e(k), s[k - 1])]
    <3>1. \A k \in 0 .. m : s[k] = IF k = 0 THEN Zero256 ELSE Add256(e(k), s[k - 1])
      BY <1>8, <1>10
    <3> HIDE DEF m, e
    <3>. QED  BY <3>1
  <2>2. sum = [k \in 0 .. m |-> IF k = 0 THEN Zero256 ELSE Add256(e(k), sum[k - 1])]
    BY <2>1
  <2> HIDE DEF sum
  <2>3. sum[0] = Zero256 /\ \A k \in 1 .. m : sum[k] = Add256(e(k), sum[k - 1])
    <3>1. \A k \in 0 .. m : sum[k] = IF k = 0 THEN Zero256 ELSE Add256(e(k), sum[k - 1])
      BY <2>2
    <3>2. 0 \in 0 .. m /\ \A k \in 1 .. m : k \in 0 .. m /\ k # 0
      BY <1>1
    <3>. QED  BY <3>1, <3>2
  <2>4. Alike(sum, s, m)
    BY <1>8, <2>3 DEF Alike
  <2>5. \A k \in 0 .. m : sum[k] = s[k]
    BY <1>1, <2>4, RunsAgree
  <2>. QED  BY <1>1, <2>5
<1> HIDE DEF sum, m
\* The totals only grow: all of them have 256 bits.
<1>13. t[m] < Modulus
  BY <1>7 DEF m
<1> DEFINE Fitting == {k \in Nat : k <= m => t[m - k] < Modulus}
<1>14. Fitting = Nat
  <2>1. 0 \in Fitting
    <3>1. m - 0 = m
      BY <1>1
    <3>. QED  BY <1>13, <3>1
  <2>2. ASSUME NEW k \in Fitting  PROVE k + 1 \in Fitting
    <3>1. SUFFICES ASSUME k + 1 <= m  PROVE t[m - (k + 1)] < Modulus
      OBVIOUS
    <3>2. /\ m - k \in 1 .. m /\ (m - k) - 1 = m - (k + 1) /\ m - (k + 1) \in 0 .. m
          /\ m - k \in 0 .. m /\ t[m - k] < Modulus
      BY <1>1, <3>1
    <3>3. t[m - k] = t[m - (k + 1)] + f(m - k) /\ f(m - k) \in Nat
      BY <1>2, <1>9, <3>2
    <3>4. t[m - (k + 1)] \in Nat /\ t[m - k] \in Nat
      BY <3>2
    <3>5. Modulus \in Nat
      BY Zero256Is, Value256Range
    <3> HIDE DEF Fitting
    <3>. QED  BY <3>2, <3>3, <3>4, <3>5
  <2>3. Fitting \in SUBSET Nat
    OBVIOUS
  <2> HIDE DEF Fitting
  <2>. QED  BY <2>1, <2>2, <2>3, Induction
<1>15. \A k \in 0 .. m : t[k] < Modulus
  <2>. TAKE k \in 0 .. m
  <2>1. m - k \in Nat /\ m - k <= m /\ m - (m - k) = k
    BY <1>1
  <2>2. m - k \in Fitting
    <3> HIDE DEF Fitting
    <3>. QED  BY <1>14, <2>1
  <2>. QED  BY <2>1, <2>2
<1> HIDE DEF Fitting
<1> DEFINE T == {k \in Nat : k <= m => Value256(s[k]) = t[k]}
<1>16. 0 \in T
  BY <1>8, <1>9, Zero256Is
<1>17. ASSUME NEW k \in T  PROVE k + 1 \in T
  <2>1. SUFFICES ASSUME k + 1 <= m  PROVE Value256(s[k + 1]) = t[k + 1]
    OBVIOUS
  <2>2. k \in Nat /\ k + 1 \in 1 .. m /\ k + 1 \in 0 .. m /\ (k + 1) - 1 = k /\ k \in 0 .. m
    BY <1>1, <2>1
  <2>3. Value256(s[k]) = t[k]
    BY <2>2
  <2> HIDE DEF T
  <2>4. s[k + 1] = Add256(e(k + 1), s[k]) /\ t[k + 1] = t[k] + f(k + 1)
    BY <1>8, <1>9, <2>2
  <2>5. e(k + 1) \in U256 /\ s[k] \in U256 /\ Value256(e(k + 1)) = f(k + 1) /\ f(k + 1) \in Nat
    BY <1>2, <2>2
  <2> DEFINE x == e(k + 1)
             y == s[k]
             z == Add256(x, y)
  <2>6. x \in U256 /\ y \in U256
    BY <2>5
  <2> HIDE DEF x, y
  <2>7. z \in U256 /\ \E carry \in {0, 1} : Value256(x) + Value256(y) = Value256(z) + carry * Modulus
    BY <2>6, Sum256
  <2>8. Value256(x) + Value256(y) = t[k + 1] /\ t[k + 1] < Modulus /\ t[k + 1] \in Nat
    <3>1. Value256(x) = f(k + 1) /\ Value256(y) = t[k] /\ t[k] \in Nat /\ f(k + 1) \in Nat
      BY <2>2, <2>3, <2>5 DEF x, y
    <3>. QED  BY <1>15, <2>2, <2>4, <3>1
  <2>9. Value256(z) \in Nat /\ Modulus \in Nat
    BY <2>7, Value256Range
  <2> HIDE DEF z
  <2>10. Value256(z) = t[k + 1]
    BY <2>7, <2>8, <2>9
  <2>. QED  BY <2>4, <2>10 DEF x, y, z
<1>18. T \in SUBSET Nat
  OBVIOUS
<1>19. T = Nat
  <2> HIDE DEF T
  <2>. QED  BY <1>16, <1>17, <1>18, Induction
<1>20. Value256(s[m]) = t[m]
  <2>1. m \in T /\ m <= m
    <3> HIDE DEF T
    <3>. QED  BY <1>1, <1>19
  <2>. QED  BY <2>1
<1>21. s[m] \in U256
  <2>1. m \in 0 .. m
    BY <1>1
  <2>. QED  BY <2>1
<1>. QED  BY <1>3, <1>7, <1>11, <1>20, <1>21 DEF m

\* A number has no more digits than a greater power of ten has zeros.
LEMMA TextLength ==
  ASSUME NEW n \in Nat, NEW s, TextOf(s, n), NEW m \in Nat \ {0}, n < Power(10, m)
  PROVE  Len(s) <= m
<1>1. Len(s) \in Nat \ {0} /\ (Len(s) = 1 \/ Power(10, Len(s) - 1) <= n)
  BY DEF TextOf
<1>2. ASSUME Power(10, Len(s) - 1) <= n, Len(s) > m  PROVE FALSE
  <2> DEFINE i == Len(s) - 1
  <2>1. i \in Nat /\ m \in Nat /\ m <= i /\ 10 \in Nat \ {0}
    BY <1>1, <1>2
  <2>2. Power(10, i) <= n
    BY <1>2
  <2> HIDE DEF i
  <2>3. Power(10, m) <= Power(10, i)
    BY <2>1, PowersGrow
  <2>4. Power(10, m) \in Nat /\ Power(10, i) \in Nat
    BY <2>1, Tens
  <2>. QED  BY <2>2, <2>3, <2>4
<1>3. Len(s) = 1 \/ ~(Len(s) > m)
  BY <1>1, <1>2
<1> DEFINE l == Len(s)
<1>4. l \in Nat /\ (l = 1 \/ ~(l > m))
  BY <1>1, <1>3
<1> HIDE DEF l
<1>5. l <= m
  BY <1>4
<1>. QED  BY <1>5 DEF l

LEMMA TextOfZero ==
  ASSUME NEW s, TextOf(s, 0)
  PROVE  s = <<0>>
<1>1. /\ s \in Seq(Digits) /\ Len(s) \in Nat \ {0} /\ PlainValue(s) = 0
      /\ (Len(s) = 1 \/ Power(10, Len(s) - 1) <= 0)
  BY DEF TextOf
<1>2. Len(s) = 1
  <2>1. Len(s) - 1 \in Nat
    BY <1>1
  <2>2. Power(10, Len(s) - 1) \in Nat \ {0}
    BY <2>1, Tens
  <2>. QED  BY <1>1, <2>2
<1>3. s = <<s[1]>> /\ s[1] \in Int
  <2>1. s[1] \in Int
    BY <1>1, <1>2, ElementOfSeq DEF Digits
  <2>2. s \in [1 .. 1 -> Digits]
    BY <1>1, <1>2, LenProperties
  <2>. QED  BY <2>1, <2>2
<1>4. PlainValue(<<s[1]>>) = s[1]
  BY <1>3, PlainOne
<1>. QED  BY <1>1, <1>3, <1>4

\* An amount on the screen.
AmountText(r, n, d) ==
  \E t : /\ r = [ok |-> TRUE, text |-> t]
         /\ Fits(t, TextLen) /\ Shows(t, d) = n
         /\ Point \in Range(t) => Last(t) # 0
         /\ \A room \in Nat : n < Power(10, room - 2) /\ d + 3 <= room => Fits(t, room)

\* __conv_mount_2 always has a text for a number, which shows it.
LEMMA ConvMount2Is ==
  ASSUME NEW number \in U256, NEW d \in Nat, d + 3 <= TextLen
  PROVE  AmountText(ConvMount2(number, d), Value256(number), d)
<1> DEFINE n == Value256(number)
           l == TextLen
<1>1. l \in Nat /\ l > 2 /\ l - 2 \in Nat \ {0} /\ l - 1 \in Nat /\ WordBase > 10
  BY FormatAssumption
<1>2. n \in Nat /\ n < Power(10, l - 2) /\ n < Power(10, l - 1)
  <2>1. n \in Nat /\ n < Modulus /\ Modulus \in Nat
    BY Value256Range
  <2>2. Modulus <= Power(10, l - 2)
    BY FormatAssumption
  <2> DEFINE i == l - 2
             j == l - 1
  <2>3. i \in Nat /\ j \in Nat /\ i <= j /\ 10 \in Nat \ {0}
    BY <1>1
  <2> HIDE DEF i, j, n
  <2>4. Power(10, i) <= Power(10, j)
    BY <2>3, PowersGrow
  <2>5. Power(10, i) \in Nat /\ Power(10, j) \in Nat
    BY <2>3, Tens
  <2>6. Modulus <= Power(10, i)
    BY <2>2 DEF i
  <2>7. n < Power(10, i) /\ n < Power(10, j)
    BY <2>1, <2>4, <2>5, <2>6
  <2>. QED  BY <2>1, <2>7 DEF i, j
<1>3. PICK s : ToString256(number, 10, l) = [ok |-> TRUE, text |-> s] /\ TextOf(s, n)
  <2>1. l > 1
    BY <1>1
  <2> HIDE DEF l
  <2>. QED  BY <1>1, <1>2, <2>1, ToString256Is
<1> HIDE DEF n
<1>4. s \in Seq(Digits) /\ PlainValue(s) = n /\ Len(s) \in Nat \ {0}
  BY <1>3 DEF TextOf
<1>5. s = <<0>> \/ PlainValue(s) # 0
  <2>1. n = 0 => s = <<0>>
    BY <1>3, TextOfZero
  <2>. QED  BY <1>4, <2>1
<1> DEFINE r == FormatDecimals(s, l, d)
<1>6. ConvMount2(number, d) = r
  <2>1. ConvMount2(number, d) =
          IF ToString256(number, 10, l).ok
          THEN FormatDecimals(ToString256(number, 10, l).text, l, d) ELSE Failed
    BY DEF ConvMount2
  <2> DEFINE temp == ToString256(number, 10, l)
  <2> HIDE DEF temp
  <2>2. temp.ok = TRUE /\ temp.text = s
    BY <1>3 DEF temp
  <2>3. ConvMount2(number, d) = IF temp.ok THEN FormatDecimals(temp.text, l, d) ELSE Failed
    BY <2>1 DEF temp
  <2>. QED  BY <2>2, <2>3
<1>7. Len(s) + 2 <= l /\ d + 3 <= l
  <2>1. Len(s) <= l - 2
    BY <1>1, <1>2, <1>3, TextLength
  <2>. QED  BY <1>1, <1>4, <2>1
<1>8. Formatted(r, s, d) /\ Len(r.text) + 1 <= l
  <2> HIDE DEF l
  <2>. QED  BY <1>1, <1>4, <1>7, FormatDecimalsIs
<1> HIDE DEF r
<1>9. PICK t : /\ r = [ok |-> TRUE, text |-> t]
               /\ Shows(t, d) = PlainValue(s)
               /\ Point \in Range(t) /\ (s = <<0>> \/ PlainValue(s) # 0) => Last(t) # 0
               /\ \A m \in Nat : Len(s) + 2 <= m /\ d + 3 <= m => Len(t) + 1 <= m
               /\ Len(t) \in Nat
  BY <1>8 DEF Formatted
<1>10. Fits(t, l)
  <2>1. r.text = t
    BY <1>9
  <2>. QED  BY <1>8, <2>1 DEF Fits
<1>11. ASSUME NEW room \in Nat, n < Power(10, room - 2), d + 3 <= room
       PROVE  Fits(t, room)
  <2>1. room - 2 \in Nat \ {0}
    BY <1>11
  <2>2. Len(s) <= room - 2
    BY <1>2, <1>3, <1>11, <2>1, TextLength
  <2>3. Len(s) + 2 <= room
    BY <1>4, <2>2
  <2>. QED  BY <1>9, <1>11, <2>3 DEF Fits
<1>12. Shows(t, d) = n /\ (Point \in Range(t) => Last(t) # 0)
  BY <1>4, <1>5, <1>9
<1>13. AmountText(r, n, d)
  BY <1>9, <1>10, <1>11, <1>12, Zenon DEF AmountText
<1>. QED  BY <1>6, <1>13 DEF n

\* The fee that is shown is the difference of the totals.
LEMMA FeeTextIs ==
  ASSUME NEW from \in Seq(Amount), NEW to \in Seq(Amount),
         Total(from) < Modulus, Total(to) <= Total(from)
  PROVE  AmountText(FeeText(from, to), Total(from) - Total(to), NulsDecimals)
<1> DEFINE x == SumOfAmounts(from)
           y == SumOfAmounts(to)
           z == Sub256(x, y)
           a == Total(from)
           b == Total(to)
<1>1. x \in U256 /\ Value256(x) = a /\ a \in Nat /\ Modulus \in Nat
  <2>1. x \in U256 /\ Value256(x) = a
    BY SumIs
  <2>. QED  BY <2>1, Value256Range
<1>2. y \in U256 /\ Value256(y) = b /\ b \in Nat
  <2>1. b \in Int => b < Modulus
    <3> HIDE DEF a, b
    <3>. QED  BY <1>1 DEF a, b
  <2>2. b \in Int
    <3>1. PICK t \in [0 .. Len(to) -> Nat] : b = t[Len(to)]
      BY TotalIs
    <3>2. Len(to) \in 0 .. Len(to)
      BY LenProperties
    <3> HIDE DEF b
    <3>. QED  BY <3>1, <3>2
  <2>3. y \in U256 /\ Value256(y) = b
    BY <2>1, <2>2, SumIs
  <2>. QED  BY <2>3, Value256Range
<1> HIDE DEF x, y, a, b
<1>3. z \in U256 /\ \E borrow \in {0, 1} : Value256(x) - Value256(y) = Value256(z) - borrow * Modulus
  BY <1>1, <1>2, Difference256
<1>4. Value256(z) \in 0 .. Modulus - 1
  BY <1>3, Value256Range
<1>5. Value256(z) = a - b
  <2> HIDE DEF z
  <2>1. b <= a
    BY DEF a, b
  <2>. QED  BY <1>1, <1>2, <1>3, <1>4, <2>1
<1>6. FeeText(from, to) = ConvMount2(z, NulsDecimals)
  BY DEF FeeText, x, y
<1>7. NulsDecimals \in Nat /\ NulsDecimals + 3 <= TextLen
  BY FormatAssumption
<1> HIDE DEF z
<1>8. AmountText(ConvMount2(z, NulsDecimals), Value256(z), NulsDecimals)
  BY <1>3, <1>7, ConvMount2Is
<1>. QED  BY <1>5, <1>6, <1>8 DEF a, b
=============================================================================
