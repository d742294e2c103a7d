--------------------------- MODULE Uint256Proofs ---------------------------
(***************************************************************************)
(* Sums, differences, comparisons, quotients and remainders of Uint256 are  *)
(* those of the numbers they stand for, for words of every width; with what *)
(* the proofs about numbers and texts need of induction and powers.         *)
(***************************************************************************)
EXTENDS Uint256, WellFoundedInduction, TLAPS

---------------------------------------------------------------------------
(* Induction and recursion.  The induction theorems of the library take a   *)
(* predicate; those below take sets and functions instead.                  *)

LEMMA LeastNumber ==
  ASSUME NEW T \in SUBSET Nat, T # {}
  PROVE  \E x \in T : \A y \in T : x <= y
<1> DEFINE R == {ss \in Nat \X Nat : ss[1] < ss[2]}
<1>1. IsWellFoundedOn(R, Nat)
  BY NatLessThanWellFounded DEF OpToRel
<1>2. \A x, y \in Nat : y < x => <<y, x>> \in R
  OBVIOUS
<1> HIDE DEF R
<1>3. PICK x \in T : \A y \in T : ~ (<<y, x>> \in R)
  BY <1>1, WFMin
<1>4. \A y \in T : x \in Nat /\ y \in Nat /\ ~ (y < x)
  BY <1>2, <1>3
<1>5. \A y \in T : x <= y
  BY <1>4
<1> QED
  BY <1>5

LEMMA Induction ==
  ASSUME NEW T \in SUBSET Nat, 0 \in T, \A n \in T : n + 1 \in T
  PROVE  T = Nat
<1> DEFINE U == Nat \ T
<1>1. SUFFICES ASSUME U # {} PROVE FALSE
  OBVIOUS
<1>2. U \in SUBSET Nat
  OBVIOUS
<1>3. PICK x \in U : \A y \in U : x <= y
  <2> HIDE DEF U
  <2> QED
    BY <1>1, <1>2, LeastNumber
<1>4. x - 1 \in Nat /\ x - 1 \in T
  BY <1>3
<1> QED
  BY <1>3, <1>4

Follows(g, m, a, step) == \A n \in 0 .. m : g[n] = IF n = 0 THEN a ELSE step[n][g[n - 1]]

LEMMA StepsExist ==
  ASSUME NEW S, NEW a \in S, NEW step \in [Nat -> [S -> S]], NEW m \in Nat
  PROVE  \E g \in [0 .. m -> S] : Follows(g, m, a, step)
<1> DEFINE Some(n) == \E g \in [0 .. n -> S] : Follows(g, n, a, step)
           T == {n \in Nat : Some(n)}
<1>1. 0 \in T
  <2> DEFINE g == [n \in 0 .. 0 |-> a]
  <2>1. g \in [0 .. 0 -> S] /\ Follows(g, 0, a, step)
    BY DEF Follows
  <2> HIDE DEF g
  <2> QED
    BY <2>1
<1>2. ASSUME NEW n \in T PROVE n + 1 \in T
  <2>1. n \in Nat /\ n + 1 \in Nat
    OBVIOUS
  <2>2. PICK g \in [0 .. n -> S] : Follows(g, n, a, step)
    OBVIOUS
  <2> DEFINE h == [k \in 0 .. n + 1 |-> IF k = n + 1 THEN step[n + 1][g[n]] ELSE g[k]]
  <2>3. h \in [0 .. n + 1 -> S]
    BY <2>1
  <2>4. ASSUME NEW k \in 0 .. n + 1
        PROVE  h[k] = IF k = 0 THEN a ELSE step[k][h[k - 1]]
    <3>1. CASE k = n + 1
      <4>1. h[k] = step[k][g[n]] /\ k - 1 = n /\ h[n] = g[n] /\ k # 0
        BY <3>1, <2>1
      <4> QED
        BY <4>1
    <3>2. CASE k # n + 1
      <4>1. /\ k \in 0 .. n /\ h[k] = g[k]
            /\ k # 0 => k - 1 \in 0 .. n /\ h[k - 1] = g[k - 1]
        BY <3>2, <2>1
      <4>2. g[k] = IF k = 0 THEN a ELSE step[k][g[k - 1]]
        BY <4>1, <2>2 DEF Follows
      <4> QED
        BY <4>1, <4>2
    <3> QED
      BY <3>1, <3>2
  <2> HIDE DEF h
  <2>5. Follows(h, n + 1, a, step)
    BY <2>4 DEF Follows
  <2>6. Some(n + 1)
    BY <2>3, <2>5
  <2> HIDE DEF Some
  <2> QED
    BY <2>1, <2>6
<1>3. T \in SUBSET Nat
  OBVIOUS
<1> HIDE DEF T
<1>4. T = Nat
  BY <1>1, <1>2, <1>3, Induction
<1> QED
  BY <1>4 DEF T

LEMMA StepsUnique ==
  ASSUME NEW S, NEW a \in S, NEW step, NEW m \in Nat, NEW n \in Nat, m <= n,
         NEW g, NEW h, Follows(g, m, a, step), Follows(h, n, a, step)
  PROVE  \A k \in 0 .. m : g[k] = h[k]
<1> DEFINE T == {k \in Nat : k <= m => g[k] = h[k]}
<1>1. 0 \in T
  BY DEF Follows
<1>2. ASSUME NEW k \in T PROVE k + 1 \in T
  <2>1. SUFFICES ASSUME k + 1 <= m PROVE g[k + 1] = h[k + 1]
    OBVIOUS
  <2>2. k + 1 \in 0 .. m /\ k + 1 \in 0 .. n /\ k + 1 # 0 /\ (k + 1) - 1 = k
    BY <2>1
  <2>3. g[k] = h[k]
    BY <2>1
  <2>4. g[k + 1] = step[k + 1][g[k]] /\ h[k + 1] = step[k + 1][h[k]]
    BY <2>2 DEF Follows
  <2> QED
    BY <2>3, <2>4
<1>3. T \in SUBSET Nat
  OBVIOUS
<1> HIDE DEF T
<1>4. T = Nat
  BY <1>1, <1>2, <1>3, Induction
<1> QED
  BY <1>4 DEF T

\* A function of the numbers is defined by its first value and by what each
\* one makes of the one before.
Stepwise(f, a, step) == \A n \in Nat : f[n] = IF n = 0 THEN a ELSE step[n][f[n - 1]]

LEMMA Recursion ==
  ASSUME NEW S, NEW a \in S, NEW step \in [Nat -> [S -> S]]
  PROVE  \E f \in [Nat -> S] : Stepwise(f, a, step)
<1> DEFINE G(m) == CHOOSE g \in [0 .. m -> S] : Follows(g, m, a, step)
           f == [m \in Nat |-> G(m)[m]]
<1>1. ASSUME NEW m \in Nat PROVE G(m) \in [0 .. m -> S] /\ Follows(G(m), m, a, step)
  BY StepsExist
<1> HIDE DEF G
<1>2. f \in [Nat -> S]
  BY <1>1
<1>3. ASSUME NEW n \in Nat PROVE f[n] = IF n = 0 THEN a ELSE step[n][f[n - 1]]
  <2>1. f[n] = G(n)[n] /\ n \in 0 .. n
    OBVIOUS
  <2>2. CASE n = 0
    BY <2>1, <2>2, <1>1 DEF Follows
  <2>3. CASE n # 0
    <3>1. n - 1 \in Nat /\ n - 1 \in 0 .. n - 1 /\ n - 1 <= n
      BY <2>3
    <3>2. f[n - 1] = G(n - 1)[n - 1]
      BY <3>1
    <3>3. Follows(G(n), n, a, step) /\ Follows(G(n - 1), n - 1, a, step)
      BY <1>1, <3>1
    <3>4. G(n - 1)[n - 1] = G(n)[n - 1]
      BY <3>1, <3>3, StepsUnique
    <3>5. G(n)[n] = step[n][G(n)[n - 1]]
      BY <2>1, <2>3, <3>3 DEF Follows
    <3> QED
      BY <2>1, <2>3, <3>2, <3>4, <3>5
  <2> QED
    BY <2>2, <2>3
<1> HIDE DEF f
<1>4. Stepwise(f, a, step)
  BY <1>3 DEF Stepwise
<1> QED
  BY <1>2, <1>4

Iterated(h, s, step) == \A n \in Nat : h[n] = IF n = 0 THEN s ELSE step[h[n - 1]]

LEMMA Iterates ==
  ASSUME NEW S, NEW s \in S, NEW step \in [S -> S]
  PROVE  \E h \in [Nat -> S] : Iterated(h, s, step)
<1> DEFINE same == [n \in Nat |-> step]
<1>1. s \in S /\ same \in [Nat -> [S -> S]] /\ \A n \in Nat : same[n] = step
  OBVIOUS
<1> HIDE DEF same
<1>2. \E h \in [Nat -> S] : Stepwise(h, s, same)
  BY <1>1, Recursion
<1>. QED  BY <1>1, <1>2 DEF Stepwise, Iterated

\* A loop that goes on with step while it is in G, and then gives out, is a function:
\* on the states from which it never ends it may be any.
Loops(f, S, G, step, out) == f = [s \in S |-> IF s \in G THEN f[step[s]] ELSE out[s]]

LEMMA LoopExists ==
  ASSUME NEW S, NEW step \in [S -> S], NEW G, NEW out
  PROVE  \E f : Loops(f, S, G, step, out)
<1> DEFINE H(s) == CHOOSE h \in [Nat -> S] : Iterated(h, s, step)
           Stops(s, t, n) == /\ n \in Nat /\ t = H(s)[n] /\ t \notin G
                            /\ \A m \in 0 .. n - 1 : H(s)[m] \in G
           Ends(s) == {t \in S : \E n \in Nat : Stops(s, t, n)}
           f == [s \in S |-> out[CHOOSE t : t \in Ends(s)]]
<1>1. ASSUME NEW s \in S  PROVE H(s) \in [Nat -> S] /\ Iterated(H(s), s, step)
  BY Iterates
<1> HIDE DEF H
<1>2. ASSUME NEW s \in S  PROVE \A n \in Nat : H(step[s])[n] = H(s)[n + 1]
  <2> DEFINE r == step[s]
             T == {n \in Nat : H(r)[n] = H(s)[n + 1]}
  <2>1. r \in S
    OBVIOUS
  <2>2. Iterated(H(s), s, step) /\ Iterated(H(r), r, step)
    BY <1>1, <2>1
  <2>3. 0 \in T
    <3>1. H(r)[0] = r /\ H(s)[0] = s
      BY <2>2 DEF Iterated
    <3>2. 1 \in Nat /\ 1 # 0 /\ 1 - 1 = 0 /\ 0 + 1 = 1
      OBVIOUS
    <3>3. H(s)[1] = step[H(s)[0]]
      BY <2>2, <3>2 DEF Iterated
    <3>. QED  BY <3>1, <3>2, <3>3
  <2>4. ASSUME NEW n \in T  PROVE n + 1 \in T
    <3>1. n \in Nat /\ n + 1 \in Nat /\ n + 1 # 0 /\ (n + 1) - 1 = n
          /\ (n + 1) + 1 \in Nat /\ (n + 1) + 1 # 0 /\ ((n + 1) + 1) - 1 = n + 1
      OBVIOUS
    <3>2. H(r)[n + 1] = step[H(r)[n]] /\ H(s)[(n + 1) + 1] = step[H(s)[n + 1]]
      BY <2>2, <3>1 DEF Iterated
    <3>3. H(r)[n] = H(s)[n + 1]
      OBVIOUS
    <3>. QED  BY <3>1, <3>2, <3>3
  <2>5. T \in SUBSET Nat
    OBVIOUS
  <2> HIDE DEF T
  <2>6. T = Nat
    BY <2>3, <2>4, <2>5, Induction
  <2>. QED  BY <2>6 DEF T
<1>3. ASSUME NEW s \in S  PROVE H(s)[0] = s
  BY <1>1 DEF Iterated
<1>4. ASSUME NEW s \in S, s \notin G  PROVE Ends(s) = {s}
  <2>1. Stops(s, s, 0)
    BY <1>3, <1>4
  <2>2. ASSUME NEW t, NEW n, Stops(s, t, n)  PROVE t = s
    <3>1. n \in Nat /\ (n # 0 => 0 \in 0 .. n - 1)
      BY <2>2
    <3>2. n = 0
      BY <1>3, <1>4, <2>2, <3>1
    <3>. QED  BY <1>3, <2>2, <3>2
  <2> HIDE DEF Stops
  <2>. QED  BY <2>1, <2>2
<1>5. ASSUME NEW s \in S, s \in G  PROVE Ends(s) = Ends(step[s])
  <2>1. ASSUME NEW t, NEW n, Stops(s, t, n)  PROVE \E m \in Nat : Stops(step[s], t, m)
    <3>1. n # 0 /\ n \in Nat
      BY <1>3, <1>5, <2>1
    <3>2. n - 1 \in Nat /\ (n - 1) + 1 = n
      BY <3>1
    <3>3. t = H(step[s])[n - 1] /\ t \notin G
      BY <1>2, <2>1, <3>2
    <3>4. ASSUME NEW m \in 0 .. (n - 1) - 1  PROVE H(step[s])[m] \in G
      <4>1. m \in Nat /\ m + 1 \in 0 .. n - 1
        BY <3>1
      <4>2. H(s)[m + 1] \in G
        BY <2>1, <4>1
      <4>. QED  BY <1>2, <4>1, <4>2
    <3>5. Stops(step[s], t, n - 1)
      BY <3>2, <3>3, <3>4
    <3> HIDE DEF Stops
    <3>. QED  BY <3>2, <3>5
  <2>2. ASSUME NEW t, NEW n, Stops(step[s], t, n)  PROVE \E m \in Nat : Stops(s, t, m)
    <3>1. n \in Nat /\ n + 1 \in Nat
      BY <2>2
    <3>2. t = H(s)[n + 1] /\ t \notin G
      BY <1>2, <2>2, <3>1
    <3>3. ASSUME NEW m \in 0 .. (n + 1) - 1  PROVE H(s)[m] \in G
      <4>1. CASE m = 0
        BY <1>3, <1>5, <4>1
      <4>2. CASE m # 0
        <5>1. m - 1 \in Nat /\ m - 1 \in 0 .. n - 1 /\ (m - 1) + 1 = m
          BY <3>1, <4>2
        <5>2. H(step[s])[m - 1] \in G
          BY <2>2, <5>1
        <5>. QED  BY <1>2, <5>1, <5>2
      <4>. QED  BY <4>1, <4>2
    <3>4. Stops(s, t, n + 1)
      BY <3>1, <3>2, <3>3
    <3> HIDE DEF Stops
    <3>. QED  BY <3>1, <3>4
  <2> HIDE DEF Stops
  <2>. QED  BY <2>1, <2>2
<1> HIDE DEF Ends
<1>6. ASSUME NEW s \in S  PROVE f[s] = IF s \in G THEN f[step[s]] ELSE out[s]
  <2>1. f[s] = out[CHOOSE t : t \in Ends(s)]
    OBVIOUS
  <2>2. CASE s \in G
    <3>1. step[s] \in S
      OBVIOUS
    <3>2. f[step[s]] = out[CHOOSE t : t \in Ends(step[s])]
      BY <3>1
    <3>. QED  BY <1>5, <2>1, <2>2, <3>2
  <2>3. CASE s \notin G
    <3>1. Ends(s) = {s}
      BY <1>4, <2>3
    <3>2. (CHOOSE t : t \in {s}) = s
      OBVIOUS
    <3>3. f[s] = out[s]
      BY <2>1, <3>1, <3>2
    <3>. QED  BY <2>3, <3>3
  <2>. QED  BY <2>2, <2>3
<1>7. f = [s \in S |-> IF s \in G THEN f[step[s]] ELSE out[s]]
  <2>1. \A s \in S : f[s] = IF s \in G THEN f[step[s]] ELSE out[s]
    BY <1>6
  <2> DEFINE g == [s \in S |-> IF s \in G THEN f[step[s]] ELSE out[s]]
  <2>2. \A s \in S : f[s] = g[s]
    BY <2>1
  <2>3. f = [s \in S |-> f[s]] /\ g = [s \in S |-> g[s]]
    OBVIOUS
  <2> HIDE DEF f, g
  <2>4. f = g
    BY <2>2, <2>3
  <2>. QED  BY <2>4 DEF g
<1> HIDE DEF f
<1>8. Loops(f, S, G, step, out)
  BY <1>7 DEF Loops
<1>. QED  BY <1>8

---------------------------------------------------------------------------
(* Powers.                                                                  *)

LEMMA Powers ==
  ASSUME NEW b \in Int
  PROVE  /\ Power(b, 0) = 1
         /\ \A n \in Nat : Power(b, n) \in Int /\ Power(b, n + 1) = b * Power(b, n)
<1> DEFINE p == CHOOSE p : p = [k \in Nat |-> IF k = 0 THEN 1 ELSE b * p[k - 1]]
           step == [n \in Nat |-> [x \in Int |-> b * x]]
<1>1. step \in [Nat -> [Int -> Int]]
  OBVIOUS
<1>2. \A n \in Nat, x \in Int : step[n][x] = b * x
  OBVIOUS
<1> HIDE DEF step
<1>3. PICK f \in [Nat -> Int] : Stepwise(f, 1, step)
  <2> DEFINE S == Int
             a == 1
  <2>1. a \in S /\ step \in [Nat -> [S -> S]]
    BY <1>1
  <2> HIDE DEF S, a
  <2>2. \E f \in [Nat -> S] : Stepwise(f, a, step)
    BY <2>1, Recursion
  <2> QED
    BY <2>2 DEF S, a
<1>4. f = [k \in Nat |-> IF k = 0 THEN 1 ELSE b * f[k - 1]]
  <2>1. ASSUME NEW k \in Nat PROVE f[k] = IF k = 0 THEN 1 ELSE b * f[k - 1]
    <3>1. k # 0 => k - 1 \in Nat /\ f[k - 1] \in Int
      OBVIOUS
    <3> QED
      BY <1>2, <1>3, <3>1 DEF Stepwise
  <2> QED
    BY <2>1
<1>5. p = [k \in Nat |-> IF k = 0 THEN 1 ELSE b * p[k - 1]]
  BY <1>4
<1>6. \A n : Power(b, n) = p[n]
  BY DEF Power
<1> HIDE DEF p
<1>7. p[0] = 1 /\ \A n \in Nat : p[n + 1] = b * p[n]
  BY <1>5
<1> DEFINE T == {n \in Nat : p[n] \in Int}
<1>8. T = Nat
  <2>1. 0 \in T /\ T \in SUBSET Nat
    BY <1>7
  <2>2. \A n \in T : n + 1 \in T
    BY <1>7
  <2> HIDE DEF T
  <2> QED
    BY <2>1, <2>2, Induction
<1> QED
  BY <1>6, <1>7, <1>8

---------------------------------------------------------------------------
(* Products, quotients and remainders.                                      *)

LEMMA Products ==
  ASSUME NEW m \in Nat, NEW a \in Int, NEW b \in Int
  PROVE  /\ m * (a + b) = m * a + m * b /\ m * (a - b) = m * a - m * b
         /\ m * a \in Int
         /\ a < b => m * a + m <= m * b
<1>1. m * (a + b) = m * a + m * b /\ m * (a - b) = m * a - m * b /\ m * a \in Int
  OBVIOUS
<1>2. ASSUME a < b  PROVE m * a + m <= m * b
  <2>1. b - a - 1 \in Nat
    BY <1>2
  <2>2. m * (b - a - 1) \in Nat
    BY <2>1
  <2>3. m * (b - a - 1) = m * b - m * a - m
    OBVIOUS
  <2>. QED  BY <2>2, <2>3
<1>. QED  BY <1>1, <1>2

LEMMA DivSplit ==
  ASSUME NEW n \in Nat, NEW b \in Nat \ {0}
  PROVE  n \div b \in Nat /\ n % b \in 0 .. b - 1 /\ n = b * (n \div b) + (n % b)
OBVIOUS

LEMMA DivUnique ==
  ASSUME NEW b \in Nat \ {0}, NEW w \in Nat, NEW r \in 0 .. b - 1
  PROVE  (b * w + r) \div b = w /\ (b * w + r) % b = r
<1> DEFINE n == b * w + r
           q == n \div b
           t == n % b
<1>1. n \in Nat /\ b \in Nat
  OBVIOUS
<1>2. q \in Nat /\ t \in 0 .. b - 1 /\ n = b * q + t
  <2> HIDE DEF n
  <2>. QED  BY <1>1, DivSplit
<1>3. b * q + t = b * w + r
  BY <1>2
<1> HIDE DEF q, t, n
<1>4. /\ q < w => b * q + b <= b * w
      /\ w < q => b * w + b <= b * q
      /\ b * q \in Int /\ b * w \in Int
  BY <1>1, <1>2, Products
<1>5. q = w
  BY <1>2, <1>3, <1>4
<1>6. t = r
  BY <1>2, <1>3, <1>4, <1>5
<1>. QED  BY <1>5, <1>6 DEF n, q, t

LEMMA DivTwice ==
  ASSUME NEW n \in Nat, NEW p \in Nat \ {0}, NEW b \in Nat \ {0}
  PROVE  n \div (b * p) = (n \div p) \div b
<1> DEFINE q == n \div p
           r == n % p
           u == q \div b
           s == q % b
<1>1. q \in Nat /\ r \in 0 .. p - 1 /\ n = p * q + r
  BY DivSplit
<1> HIDE DEF q, r
<1>2. u \in Nat /\ s \in 0 .. b - 1 /\ q = b * u + s
  BY <1>1, DivSplit
<1> HIDE DEF u, s
<1> DEFINE m == b * p
           t == p * s + r
<1>3. n = m * u + t
  BY <1>1, <1>2
<1>4. m \in Nat \ {0} /\ t \in 0 .. m - 1
  <2>1. p * s + p <= p * b /\ p * s \in Int
    <3>1. s < b /\ s \in Int /\ b \in Int /\ p \in Nat
      BY <1>2
    <3>. QED  BY <3>1, Products
  <2>2. p * b = m /\ p * s >= 0 /\ m \in Nat
    BY <1>2
  <2>. QED  BY <1>1, <2>1, <2>2
<1> HIDE DEF m, t
<1>5. (m * u + t) \div m = u
  BY <1>2, <1>4, DivUnique
<1>. QED  BY <1>3, <1>5 DEF m, u, q

LEMMA PowersPositive ==
  ASSUME NEW b \in Nat \ {0}
  PROVE  \A n \in Nat : Power(b, n) \in Nat \ {0} /\ Power(b, n + 1) >= Power(b, n)
<1> DEFINE T == {n \in Nat : Power(b, n) \in Nat \ {0}}
<1>1. b \in Int
  OBVIOUS
<1>2. Power(b, 0) = 1 /\ \A n \in Nat : Power(b, n + 1) = b * Power(b, n)
  BY <1>1, Powers
<1>3. ASSUME NEW x \in Nat \ {0}  PROVE b * x \in Nat \ {0} /\ b * x >= x
  <2>1. b - 1 \in Nat
    OBVIOUS
  <2>2. (b - 1) * x >= 0 /\ (b - 1) * x = b * x - x /\ b * x \in Int
    BY <2>1
  <2>. QED  BY <2>2
<1>4. 0 \in T
  BY <1>2
<1>5. \A n \in T : n + 1 \in T
  BY <1>2, <1>3
<1>6. T \in SUBSET Nat
  OBVIOUS
<1>7. T = Nat
  <2> HIDE DEF T
  <2>. QED  BY <1>4, <1>5, <1>6, Induction
<1>8. ASSUME NEW n \in Nat
      PROVE  Power(b, n) \in Nat \ {0} /\ Power(b, n + 1) >= Power(b, n)
  <2>1. Power(b, n) \in Nat \ {0}
    BY <1>7
  <2>. QED  BY <1>2, <1>3, <2>1
<1>. QED  BY <1>8

LEMMA PowersGrow ==
  ASSUME NEW b \in Nat \ {0}, NEW m \in Nat, NEW n \in Nat, m <= n
  PROVE  Power(b, m) <= Power(b, n)
<1> DEFINE T == {d \in Nat : Power(b, m) <= Power(b, m + d)}
<1>1. 0 \in T
  <2>1. m + 0 = m /\ Power(b, m) \in Nat
    BY PowersPositive
  <2>. QED  BY <2>1
<1>2. ASSUME NEW d \in T  PROVE d + 1 \in T
  <2>1. m + d \in Nat /\ m + (d + 1) = (m + d) + 1 /\ d + 1 \in Nat
    OBVIOUS
  <2>2. /\ Power(b, m) \in Nat /\ Power(b, m + d) \in Nat
        /\ Power(b, (m + d) + 1) \in Nat /\ Power(b, (m + d) + 1) >= Power(b, m + d)
    BY <2>1, PowersPositive
  <2>3. Power(b, m) <= Power(b, m + d)
    OBVIOUS
  <2>. QED  BY <2>1, <2>2, <2>3
<1>3. T \in SUBSET Nat
  OBVIOUS
<1>4. T = Nat
  <2> HIDE DEF T
  <2>. QED  BY <1>1, <1>2, <1>3, Induction
<1>5. n - m \in Nat /\ m + (n - m) = n
  OBVIOUS
<1>. QED  BY <1>4, <1>5

LEMMA PowerSum ==
  ASSUME NEW b \in Nat \ {0}, NEW m \in Nat, NEW n \in Nat
  PROVE  Power(b, m + n) = Power(b, m) * Power(b, n)
<1> DEFINE T == {d \in Nat : Power(b, m + d) = Power(b, m) * Power(b, d)}
<1>1. 0 \in T
  <2>1. m + 0 = m /\ Power(b, 0) = 1 /\ Power(b, m) \in Nat
    BY PowersPositive, Powers
  <2>. QED  BY <2>1
<1>2. ASSUME NEW d \in T  PROVE d + 1 \in T
  <2>1. m + d \in Nat /\ m + (d + 1) = (m + d) + 1 /\ d \in Nat /\ d + 1 \in Nat
    OBVIOUS
  <2> DEFINE p == Power(b, m)
             q == Power(b, d)
  <2>2. /\ p \in Nat /\ q \in Nat /\ Power(b, m + d) = p * q
        /\ Power(b, (m + d) + 1) = b * Power(b, m + d) /\ Power(b, d + 1) = b * q
    BY <2>1, PowersPositive, Powers
  <2>3. Power(b, m + (d + 1)) = p * Power(b, d + 1)
    <3> HIDE DEF p, q
    <3>1. b * (p * q) = p * (b * q)
      BY <2>2
    <3>. QED  BY <3>1, <2>1, <2>2
  <2>. QED  BY <2>1, <2>3
<1>3. T \in SUBSET Nat
  OBVIOUS
<1> HIDE DEF T
<1>4. T = Nat
  BY <1>1, <1>2, <1>3, Induction
<1>. QED  BY <1>4 DEF T

---------------------------------------------------------------------------
(* Words.                                                                   *)

\* A sum or a difference of words, with the carry the code finds by comparing.
LEMMA WordSum ==
  ASSUME NEW a \in Word, NEW b \in Word
  PROVE  /\ Plus(a, b) \in Word
         /\ Bit(Plus(a, b) < a) \in {0, 1}
         /\ a + b = Plus(a, b) + Bit(Plus(a, b) < a) * WordBase
BY WordAssumption DEF Plus, Word, Bit

LEMMA WordDifference ==
  ASSUME NEW a \in Word, NEW b \in Word
  PROVE  /\ Minus(a, b) \in Word
         /\ Bit(Minus(a, b) > a) \in {0, 1}
         /\ a - b = Minus(a, b) - Bit(Minus(a, b) > a) * WordBase
BY WordAssumption DEF Minus, Word, Bit

---------------------------------------------------------------------------
(* 128 bits.                                                                *)

Modulus128 == WordBase * WordBase

LEMMA Value128Range ==
  ASSUME NEW x \in U128
  PROVE  Value128(x) \in 0 .. Modulus128 - 1 /\ Modulus128 \in Nat
<1>1. x.upper \in 0 .. WordBase - 1 /\ x.lower \in 0 .. WordBase - 1
  BY DEF U128, Word
<1>2. WordBase * x.upper + WordBase <= WordBase * WordBase
      /\ WordBase * x.upper \in Nat /\ WordBase * WordBase \in Nat
  BY <1>1, WordAssumption, Products
<1>. QED  BY <1>1, <1>2, WordAssumption DEF Value128, Modulus128

\* gt128 and equal128 compare the numbers.
LEMMA Compare128 ==
  ASSUME NEW x \in U128, NEW y \in U128
  PROVE  /\ Gt128(x, y) <=> Value128(x) > Value128(y)
         /\ x = y <=> Value128(x) = Value128(y)
<1>1. /\ x.upper \in 0 .. WordBase - 1 /\ x.lower \in 0 .. WordBase - 1
      /\ y.upper \in 0 .. WordBase - 1 /\ y.lower \in 0 .. WordBase - 1
  BY DEF U128, Word
<1>2. /\ x.upper < y.upper => WordBase * x.upper + WordBase <= WordBase * y.upper
      /\ y.upper < x.upper => WordBase * y.upper + WordBase <= WordBase * x.upper
      /\ WordBase * x.upper \in Int /\ WordBase * y.upper \in Int
  BY <1>1, WordAssumption, Products
<1>3. x = y <=> x.upper = y.upper /\ x.lower = y.lower
  BY DEF U128
<1> DEFINE a == WordBase * x.upper
           b == WordBase * y.upper
<1>4. /\ a \in Int /\ b \in Int
      /\ x.upper < y.upper => a + WordBase <= b
      /\ y.upper < x.upper => b + WordBase <= a
      /\ x.upper = y.upper => a = b
      /\ Value128(x) = a + x.lower /\ Value128(y) = b + y.lower
  BY <1>2 DEF Value128
<1> HIDE DEF a, b
<1>5. Gt128(x, y) <=> Value128(x) > Value128(y)
  <2>1. CASE x.upper = y.upper
    BY <2>1, <1>1, <1>4 DEF Gt128
  <2>2. CASE x.upper < y.upper
    BY <2>2, <1>1, <1>4, WordAssumption DEF Gt128
  <2>3. CASE y.upper < x.upper
    BY <2>3, <1>1, <1>4, WordAssumption DEF Gt128
  <2>. QED  BY <1>1, <2>1, <2>2, <2>3
<1>6. Value128(x) = Value128(y) <=> x.upper = y.upper /\ x.lower = y.lower
  BY <1>1, <1>4, WordAssumption
<1>. QED  BY <1>3, <1>5, <1>6

LEMMA Sum128 ==
  ASSUME NEW x \in U128, NEW y \in U128
  PROVE  /\ Add128(x, y) \in U128
         /\ \E c \in {0, 1} :
              Value128(x) + Value128(y) = Value128(Add128(x, y)) + c * Modulus128
<1> DEFINE l == Plus(x.lower, y.lower)
           c == Bit(l < x.lower)
           t == Plus(x.upper, y.upper)
           u == Plus(t, c)
           d == Bit(t < x.upper)
           e == Bit(u < t)
<1>1. x.upper \in Word /\ x.lower \in Word /\ y.upper \in Word /\ y.lower \in Word
  BY DEF U128
<1>2. l \in Word /\ c \in {0, 1} /\ x.lower + y.lower = l + c * WordBase
  BY <1>1, WordSum
<1>3. t \in Word /\ d \in {0, 1} /\ x.upper + y.upper = t + d * WordBase
  BY <1>1, WordSum
<1>4. c \in Word
  BY <1>2, WordAssumption DEF Word
<1>5. u \in Word /\ e \in {0, 1} /\ t + c = u + e * WordBase
  BY <1>3, <1>4, WordSum
<1>6. Add128(x, y) = [upper |-> u, lower |-> l]
  BY DEF Add128
<1> HIDE DEF l, c, t, u, d, e
<1>7. /\ x.upper \in Int /\ x.lower \in Int /\ y.upper \in Int /\ y.lower \in Int
      /\ l \in Int /\ u \in 0 .. WordBase - 1 /\ t \in Int /\ WordBase \in Nat
      /\ x.upper <= WordBase - 1 /\ y.upper <= WordBase - 1
  BY <1>1, <1>2, <1>3, <1>5, WordAssumption DEF Word
<1>8. d + e \in {0, 1}
  BY <1>2, <1>3, <1>5, <1>7
<1>9. x.upper + y.upper + c = u + (d + e) * WordBase
  BY <1>2, <1>3, <1>5, <1>7
<1>10. WordBase * (x.upper + y.upper + c) = WordBase * u + (d + e) * Modulus128
  BY <1>7, <1>8, <1>9 DEF Modulus128
<1>11. WordBase * (x.upper + y.upper + c)
         = WordBase * x.upper + WordBase * y.upper + WordBase * c
  BY <1>2, <1>7
<1>12. Value128(x) + Value128(y) = WordBase * u + l + (d + e) * Modulus128
  <2> DEFINE ux == WordBase * x.upper
             uy == WordBase * y.upper
             wu == WordBase * u
             wc == WordBase * c
             m == (d + e) * Modulus128
  <2>1. ux \in Int /\ uy \in Int /\ wu \in Int /\ wc \in Int /\ m \in Int
    BY <1>2, <1>7, <1>8 DEF Modulus128
  <2>2. /\ ux + uy + wc = wu + m
        /\ x.lower + y.lower = l + wc
    BY <1>2, <1>7, <1>10, <1>11
  <2>3. Value128(x) = ux + x.lower /\ Value128(y) = uy + y.lower
    BY DEF Value128
  <2> HIDE DEF ux, uy, wu, wc, m
  <2>4. Value128(x) + Value128(y) = (ux + uy) + (x.lower + y.lower)
    BY <1>7, <2>1, <2>3
  <2>5. ux + uy = wu + m - wc
    BY <2>1, <2>2
  <2>6. Value128(x) + Value128(y) = wu + l + m
    BY <1>7, <2>1, <2>2, <2>4, <2>5
  <2>. QED  BY <2>6 DEF wu, m
<1>13. Add128(x, y) \in U128 /\ Value128(Add128(x, y)) = WordBase * u + l
  BY <1>2, <1>5, <1>6 DEF U128, Value128
<1>14. Value128(x) + Value128(y) = Value128(Add128(x, y)) + (d + e) * Modulus128
  BY <1>12, <1>13
<1>. QED  BY <1>8, <1>13, <1>14

LEMMA Difference128 ==
  ASSUME NEW x \in U128, NEW y \in U128
  PROVE  /\ Sub128(x, y) \in U128
         /\ \E c \in {0, 1} :
              Value128(x) - Value128(y) = Value128(Sub128(x, y)) - c * Modulus128
<1> DEFINE l == Minus(x.lower, y.lower)
           c == Bit(l > x.lower)
           t == Minus(x.upper, y.upper)
           u == Minus(t, c)
           d == Bit(t > x.upper)
           e == Bit(u > t)
<1>1. x.upper \in Word /\ x.lower \in Word /\ y.upper \in Word /\ y.lower \in Word
  BY DEF U128
<1>2. l \in Word /\ c \in {0, 1} /\ x.lower - y.lower = l - c * WordBase
  BY <1>1, WordDifference
<1>3. t \in Word /\ d \in {0, 1} /\ x.upper - y.upper = t - d * WordBase
  BY <1>1, WordDifference
<1>4. c \in Word
  BY <1>2, WordAssumption DEF Word
<1>5. u \in Word /\ e \in {0, 1} /\ t - c = u - e * WordBase
  BY <1>3, <1>4, WordDifference
<1>6. Sub128(x, y) = [upper |-> u, lower |-> l]
  BY DEF Sub128
<1> HIDE DEF l, c, t, u, d, e
<1>7. /\ x.upper \in Int /\ x.lower \in Int /\ y.upper \in Int /\ y.lower \in Int
      /\ l \in Int /\ u \in 0 .. WordBase - 1 /\ t \in Int /\ WordBase \in Nat
      /\ x.upper >= 0 /\ y.upper <= WordBase - 1
  BY <1>1, <1>2, <1>3, <1>5, WordAssumption DEF Word
<1>8. d + e \in {0, 1}
  BY <1>2, <1>3, <1>5, <1>7
<1>9. x.upper - y.upper - c = u - (d + e) * WordBase
  BY <1>2, <1>3, <1>5, <1>7
<1>10. WordBase * (x.upper - y.upper - c) = WordBase * u - (d + e) * Modulus128
  BY <1>7, <1>8, <1>9 DEF Modulus128
<1>11. WordBase * (x.upper - y.upper - c)
         = WordBase * x.upper - WordBase * y.upper - WordBase * c
  BY <1>2, <1>7
<1>12. Value128(x) - Value128(y) = (WordBase * u + l) - (d + e) * Modulus128
  <2> DEFINE ux == WordBase * x.upper
             uy == WordBase * y.upper
             wu == WordBase * u
             wc == WordBase * c
             m == (d + e) * Modulus128
  <2>1. ux \in Int /\ uy \in Int /\ wu \in Int /\ wc \in Int /\ m \in Int
    BY <1>2, <1>7, <1>8 DEF Modulus128
  <2>2. /\ ux - uy - wc = wu - m
        /\ x.lower - y.lower = l - wc
    BY <1>2, <1>7, <1>10, <1>11
  <2>3. Value128(x) = ux + x.lower /\ Value128(y) = uy + y.lower
    BY DEF Value128
  <2> HIDE DEF ux, uy, wu, wc, m
  <2>4. Value128(x) - Value128(y) = (ux - uy) + (x.lower - y.lower)
    BY <1>7, <2>1, <2>3
  <2>5. ux - uy = (wu - m) + wc
    BY <2>1, <2>2
  <2>6. ((wu - m) + wc) + (l - wc) = (wu + l) - m
    BY <1>7, <2>1
  <2>7. Value128(x) - Value128(y) = (wu + l) - m
    BY <2>2, <2>4, <2>5, <2>6
  <2>. QED  BY <2>7 DEF wu, m
<1>13. Sub128(x, y) \in U128 /\ Value128(Sub128(x, y)) = WordBase * u + l
  BY <1>2, <1>5, <1>6 DEF U128, Value128
<1>14. Value128(x) - Value128(y) = Value128(Sub128(x, y)) - (d + e) * Modulus128
  BY <1>12, <1>13
<1>. QED  BY <1>8, <1>13, <1>14

LEMMA OneIsOne == One128 \in U128 /\ Value128(One128) = 1
BY WordAssumption DEF One128, U128, Word, Value128

---------------------------------------------------------------------------
(* 256 bits.  The carry out of the lower halves is found by comparing a     *)
(* half with the sum, and the carry out of the upper halves is lost.        *)

LEMMA Halves ==
  ASSUME NEW x \in U256
  PROVE  /\ x.upper \in U128 /\ x.lower \in U128
         /\ Value256(x) = Modulus128 * Value128(x.upper) + Value128(x.lower)
BY DEF U256, Value256, Modulus128

\* add256, whose target may be its first operand, stores the sum of its
\* operands modulo 2^256: for words of every width, every pair of numbers and
\* every carry.
THEOREM Sum256 ==
  ASSUME NEW x \in U256, NEW y \in U256
  PROVE  /\ Add256(x, y) \in U256
         /\ \E carry \in {0, 1} :
              Value256(x) + Value256(y) = Value256(Add256(x, y)) + carry * Modulus
<1> DEFINE l == Add128(x.lower, y.lower)
           u == Add128(x.upper, y.upper)
           v == Add128(u, One128)
<1>1. x.upper \in U128 /\ x.lower \in U128 /\ y.upper \in U128 /\ y.lower \in U128
  BY Halves
<1>2. PICK c \in {0, 1} :
        Value128(x.lower) + Value128(y.lower) = Value128(l) + c * Modulus128
  BY <1>1, Sum128
<1>3. PICK d \in {0, 1} :
        Value128(x.upper) + Value128(y.upper) = Value128(u) + d * Modulus128
  BY <1>1, Sum128
<1>4. l \in U128 /\ u \in U128
  BY <1>1, Sum128
<1>5. v \in U128
  BY <1>4, OneIsOne, Sum128
<1>6. PICK e \in {0, 1} : Value128(u) + 1 = Value128(v) + e * Modulus128
  BY <1>4, OneIsOne, Sum128
<1>7. Gt128(x.lower, l) <=> Value128(x.lower) > Value128(l)
  BY <1>1, <1>4, Compare128
<1>8. Add256(x, y) = [upper |-> IF Gt128(x.lower, l) THEN v ELSE u, lower |-> l]
  BY DEF Add256
<1> HIDE DEF l, u, v
<1>9. /\ Value128(x.lower) \in 0 .. Modulus128 - 1 /\ Value128(y.lower) \in 0 .. Modulus128 - 1
      /\ Value128(x.upper) \in 0 .. Modulus128 - 1 /\ Value128(y.upper) \in 0 .. Modulus128 - 1
      /\ Value128(l) \in 0 .. Modulus128 - 1 /\ Value128(u) \in 0 .. Modulus128 - 1
      /\ Value128(v) \in 0 .. Modulus128 - 1 /\ Modulus128 \in Nat
  BY <1>1, <1>4, <1>5, Value128Range
<1>10. Gt128(x.lower, l) <=> c = 1
  BY <1>2, <1>7, <1>9
<1>11. PICK w \in U128, k \in {0, 1} :
         /\ Add256(x, y) = [upper |-> w, lower |-> l]
         /\ Value128(x.upper) + Value128(y.upper) + c = Value128(w) + k * Modulus128
  <2>1. CASE c = 1
    <3>1. Value128(x.upper) + Value128(y.upper) + c = Value128(v) + (d + e) * Modulus128
      BY <1>3, <1>6, <1>9, <2>1
    <3>2. d + e \in {0, 1}
      BY <3>1, <1>9, <2>1
    <3>3. Add256(x, y) = [upper |-> v, lower |-> l]
      BY <1>8, <1>10, <2>1
    <3>. QED  BY <1>5, <3>1, <3>2, <3>3
  <2>2. CASE c = 0
    BY <1>3, <1>4, <1>8, <1>9, <1>10, <2>2
  <2>. QED  BY <2>1, <2>2
<1>12. Value128(w) \in Nat
  BY <1>11, Value128Range
<1>13. Value256(Add256(x, y)) = Modulus128 * Value128(w) + Value128(l)
       /\ Add256(x, y) \in U256
  BY <1>4, <1>11 DEF Value256, Modulus128, U256
<1>14. Modulus128 * (Value128(x.upper) + Value128(y.upper) + c)
         = Modulus128 * Value128(x.upper) + Modulus128 * Value128(y.upper)
           + c * Modulus128
  BY <1>9
<1>15. Modulus128 * (Value128(x.upper) + Value128(y.upper) + c)
         = Modulus128 * Value128(w) + k * Modulus
  BY <1>9, <1>11, <1>12 DEF Modulus, Modulus128
<1>16. Value256(x) + Value256(y) = Value256(Add256(x, y)) + k * Modulus
  <2> DEFINE ux == Modulus128 * Value128(x.upper)
             uy == Modulus128 * Value128(y.upper)
             uw == Modulus128 * Value128(w)
             cm == c * Modulus128
             km == k * Modulus
  <2>1. ux \in Int /\ uy \in Int /\ uw \in Int /\ cm \in Int /\ km \in Int
    BY <1>9, <1>12, WordAssumption DEF Modulus
  <2>2. ux + uy + cm = uw + km
    BY <1>14, <1>15
  <2>3. /\ Value256(x) = ux + Value128(x.lower) /\ Value256(y) = uy + Value128(y.lower)
        /\ Value256(Add256(x, y)) = uw + Value128(l)
        /\ Value128(x.lower) + Value128(y.lower) = Value128(l) + cm
    BY <1>2, <1>13, Halves
  <2> HIDE DEF ux, uy, uw, cm, km
  <2>4. Value256(x) + Value256(y) = Value256(Add256(x, y)) + km
    BY <1>9, <2>1, <2>2, <2>3
  <2>. QED  BY <2>4 DEF km
<1>. QED  BY <1>13, <1>16

\* sub256 stores the difference of its operands modulo 2^256.
THEOREM Difference256 ==
  ASSUME NEW x \in U256, NEW y \in U256
  PROVE  /\ Sub256(x, y) \in U256
         /\ \E borrow \in {0, 1} :
              Value256(x) - Value256(y) = Value256(Sub256(x, y)) - borrow * Modulus
<1> DEFINE l == Sub128(x.lower, y.lower)
           u == Sub128(x.upper, y.upper)
           v == Sub128(u, One128)
<1>1. x.upper \in U128 /\ x.lower \in U128 /\ y.upper \in U128 /\ y.lower \in U128
  BY Halves
<1>2. PICK c \in {0, 1} :
        Value128(x.lower) - Value128(y.lower) = Value128(l) - c * Modulus128
  BY <1>1, Difference128
<1>3. PICK d \in {0, 1} :
        Value128(x.upper) - Value128(y.upper) = Value128(u) - d * Modulus128
  BY <1>1, Difference128
<1>4. l \in U128 /\ u \in U128
  BY <1>1, Difference128
<1>5. v \in U128
  BY <1>4, OneIsOne, Difference128
<1>6. PICK e \in {0, 1} : Value128(u) - 1 = Value128(v) - e * Modulus128
  BY <1>4, OneIsOne, Difference128
<1>7. Gt128(l, x.lower) <=> Value128(l) > Value128(x.lower)
  BY <1>1, <1>4, Compare128
<1>8. Sub256(x, y) = [upper |-> IF Gt128(l, x.lower) THEN v ELSE u, lower |-> l]
  BY DEF Sub256
<1> HIDE DEF l, u, v
<1>9. /\ Value128(x.lower) \in 0 .. Modulus128 - 1 /\ Value128(y.lower) \in 0 .. Modulus128 - 1
      /\ Value128(x.upper) \in 0 .. Modulus128 - 1 /\ Value128(y.upper) \in 0 .. Modulus128 - 1
      /\ Value128(l) \in 0 .. Modulus128 - 1 /\ Value128(u) \in 0 .. Modulus128 - 1
      /\ Value128(v) \in 0 .. Modulus128 - 1 /\ Modulus128 \in Nat
  BY <1>1, <1>4, <1>5, Value128Range
<1>10. Gt128(l, x.lower) <=> c = 1
  BY <1>2, <1>7, <1>9
<1>11. PICK w \in U128, k \in {0, 1} :
         /\ Sub256(x, y) = [upper |-> w, lower |-> l]
         /\ Value128(x.upper) - Value128(y.upper) - c = Value128(w) - k * Modulus128
  <2>1. CASE c = 1
    <3>1. Value128(x.upper) - Value128(y.upper) - c = Value128(v) - (d + e) * Modulus128
      BY <1>3, <1>6, <1>9, <2>1
    <3>2. d + e \in {0, 1}
      BY <3>1, <1>9, <2>1
    <3>3. Sub256(x, y) = [upper |-> v, lower |-> l]
      BY <1>8, <1>10, <2>1
    <3>. QED  BY <1>5, <3>1, <3>2, <3>3
  <2>2. CASE c = 0
    BY <1>3, <1>4, <1>8, <1>9, <1>10, <2>2
  <2>. QED  BY <2>1, <2>2
<1>12. Value128(w) \in Nat
  BY <1>11, Value128Range
<1>13. Value256(Sub256(x, y)) = Modulus128 * Value128(w) + Value128(l)
       /\ Sub256(x, y) \in U256
  BY <1>4, <1>11 DEF Value256, Modulus128, U256
<1>14. Modulus128 * (Value128(x.upper) - Value128(y.upper) - c)
         = Modulus128 * Value128(x.upper) - Modulus128 * Value128(y.upper)
           - c * Modulus128
  BY <1>9
<1>15. Modulus128 * (Value128(x.upper) - Value128(y.upper) - c)
         = Modulus128 * Value128(w) - k * Modulus
  BY <1>9, <1>11, <1>12 DEF Modulus, Modulus128
<1>16. Value256(x) - Value256(y) = Value256(Sub256(x, y)) - k * Modulus
  <2> DEFINE ux == Modulus128 * Value128(x.upper)
             uy == Modulus128 * Value128(y.upper)
             uw == Modulus128 * Value128(w)
             cm == c * Modulus128
             km == k * Modulus
  <2>1. ux \in Int /\ uy \in Int /\ uw \in Int /\ cm \in Int /\ km \in Int
    BY <1>9, <1>12, WordAssumption DEF Modulus
  <2>2. ux - uy - cm = uw - km
    BY <1>14, <1>15
  <2>3. /\ Value256(x) = ux + Value128(x.lower) /\ Value256(y) = uy + Value128(y.lower)
        /\ Value256(Sub256(x, y)) = uw + Value128(l)
        /\ Value128(x.lower) - Value128(y.lower) = Value128(l) - cm
    BY <1>2, <1>13, Halves
  <2> HIDE DEF ux, uy, uw, cm, km
  <2>4. Value256(x) - Value256(y) = Value256(Sub256(x, y)) - km
    BY <1>9, <2>1, <2>2, <2>3
  <2>. QED  BY <2>4 DEF km
<1>. QED  BY <1>13, <1>16

\* gt256 compares the numbers, and so does equal256, in which the test of the
\* fee and the loop of divmod256 stand.
THEOREM Compare256 ==
  ASSUME NEW x \in U256, NEW y \in U256
  PROVE  /\ Gt256(x, y) <=> Value256(x) > Value256(y)
         /\ Gte256(x, y) <=> Value256(x) >= Value256(y)
<1> DEFINE a == Modulus128 * Value128(x.upper)
           b == Modulus128 * Value128(y.upper)
<1>1. x.upper \in U128 /\ x.lower \in U128 /\ y.upper \in U128 /\ y.lower \in U128
  BY Halves
<1>2. /\ Value128(x.upper) \in 0 .. Modulus128 - 1 /\ Value128(x.lower) \in 0 .. Modulus128 - 1
      /\ Value128(y.upper) \in 0 .. Modulus128 - 1 /\ Value128(y.lower) \in 0 .. Modulus128 - 1
      /\ Modulus128 \in Nat
  BY <1>1, Value128Range
<1>3. /\ Value128(x.upper) < Value128(y.upper) => a + Modulus128 <= b
      /\ Value128(y.upper) < Value128(x.upper) => b + Modulus128 <= a
      /\ x.upper = y.upper => a = b
      /\ a \in Int /\ b \in Int
  BY <1>2, Products
<1>4. Value256(x) = a + Value128(x.lower) /\ Value256(y) = b + Value128(y.lower)
  BY Halves
<1>5. /\ Gt128(x.upper, y.upper) <=> Value128(x.upper) > Value128(y.upper)
      /\ x.upper = y.upper <=> Value128(x.upper) = Value128(y.upper)
      /\ Gt128(x.lower, y.lower) <=> Value128(x.lower) > Value128(y.lower)
      /\ x.lower = y.lower <=> Value128(x.lower) = Value128(y.lower)
  BY <1>1, Compare128
<1>6. x = y <=> x.upper = y.upper /\ x.lower = y.lower
  BY DEF U256
<1> HIDE DEF a, b
<1>7. CASE x.upper = y.upper
  BY <1>2, <1>3, <1>4, <1>5, <1>6, <1>7 DEF Gt256, Gte256
<1>8. CASE Value128(x.upper) < Value128(y.upper)
  BY <1>2, <1>3, <1>4, <1>5, <1>6, <1>8 DEF Gt256, Gte256
<1>9. CASE Value128(y.upper) < Value128(x.upper)
  BY <1>2, <1>3, <1>4, <1>5, <1>6, <1>9 DEF Gt256, Gte256
<1>. QED  BY <1>2, <1>5, <1>7, <1>8, <1>9

---------------------------------------------------------------------------
(* Shifts, of numbers of two halves that are 2^n each.                      *)

\* A number of two halves, each below P * Q, shifted: to the left by the width of P,
\* which leaves what is below the width of Q of the upper half, or to the right.
Shifted(P, Q, C, u, l) ==
  /\ (u % Q) * P + l \div Q \in 0 .. C - 1 /\ (l % Q) * P \in 0 .. C - 1
  /\ (u % P) * Q + l \div P \in 0 .. C - 1 /\ u \div P \in 0 .. C - 1
  /\ C * ((u % Q) * P + l \div Q) + (l % Q) * P = ((C * u + l) % (C * Q)) * P
  /\ C * (u \div P) + ((u % P) * Q + l \div P) = (C * u + l) \div P

LEMMA HalvesShifted ==
  ASSUME NEW P \in Nat \ {0}, NEW Q \in Nat \ {0}, NEW C, C = P * Q,
         NEW u \in 0 .. C - 1, NEW l \in 0 .. C - 1
  PROVE  Shifted(P, Q, C, u, l)
<1> DEFINE a == u \div Q
           b == u % Q
           c == l \div Q
           d == l % Q
           e == u \div P
           f == u % P
           g == l \div P
           h == l % P
<1>1. C \in Nat \ {0} /\ u \in Nat /\ l \in Nat /\ C * Q \in Nat \ {0}
  OBVIOUS
<1>2. /\ a \in Nat /\ b \in 0 .. Q - 1 /\ u = Q * a + b
      /\ c \in Nat /\ d \in 0 .. Q - 1 /\ l = Q * c + d
      /\ e \in Nat /\ f \in 0 .. P - 1 /\ u = P * e + f
      /\ g \in Nat /\ h \in 0 .. P - 1 /\ l = P * g + h
  BY <1>1, DivSplit
<1> HIDE DEF a, b, c, d, e, f, g, h
<1>3. c < P /\ g < Q /\ e < Q
  <2>1. /\ Q * P <= Q * c => FALSE
        /\ P * Q <= P * g => FALSE
        /\ P * Q <= P * e => FALSE
    BY <1>1, <1>2
  <2>2. /\ P < c => Q * P + Q <= Q * c
        /\ Q < g => P * Q + P <= P * g
        /\ Q < e => P * Q + P <= P * e
    BY <1>2, Products
  <2>. QED  BY <1>2, <2>1, <2>2
<1>4. /\ P * b + P <= P * Q /\ P * d + P <= P * Q /\ Q * f + Q <= Q * P
      /\ P * b \in Nat /\ P * d \in Nat /\ Q * f \in Nat
  BY <1>2, Products
<1>5. b * P = P * b /\ d * P = P * d /\ f * Q = Q * f /\ Q * P = C /\ P * Q = C
  BY <1>1, <1>2
<1>6. /\ b * P + c \in 0 .. C - 1 /\ d * P \in 0 .. C - 1 /\ f * Q + g \in 0 .. C - 1
  <2> DEFINE x == P * b
             y == P * d
             z == Q * f
  <2>1. x + P <= C /\ y + P <= C /\ z + Q <= C /\ x \in Nat /\ y \in Nat /\ z \in Nat
        /\ b * P = x /\ d * P = y /\ f * Q = z
    BY <1>4, <1>5
  <2> HIDE DEF x, y, z
  <2>2. x + c \in 0 .. C - 1 /\ y \in 0 .. C - 1 /\ z + g \in 0 .. C - 1
    BY <1>1, <1>2, <1>3, <2>1
  <2>. QED  BY <2>1, <2>2
<1>7. e \in 0 .. C - 1
  <2>1. P * e \in Nat /\ P * e >= e
    BY <1>2
  <2>. QED  BY <1>1, <1>2, <2>1
<1>8. C * (b * P + c) + d * P = ((C * u + l) % (C * Q)) * P
  <2> DEFINE m == C * Q
             t == C * b + l
  <2>1. C * u + l = m * a + t
    BY <1>1, <1>2
  <2>2. m \in Nat \ {0} /\ t \in 0 .. m - 1
    <3>1. C * b + C <= C * Q /\ C * b \in Nat
      BY <1>1, <1>2, Products
    <3>. QED  BY <1>1, <3>1
  <2> HIDE DEF m, t
  <2>3. (m * a + t) % m = t
    BY <1>2, <2>2, DivUnique
  <2>4. C * (b * P + c) + d * P = t * P
    <3>1. l * P = C * c + d * P
      BY <1>1, <1>2
    <3>2. (C * b + l) * P = C * (b * P) + l * P /\ C * (b * P + c) = C * (b * P) + C * c
      BY <1>1, <1>2
    <3>. QED  BY <1>1, <1>2, <3>1, <3>2 DEF t
  <2>. QED  BY <2>1, <2>3, <2>4 DEF m
<1>9. C * e + (f * Q + g) = (C * u + l) \div P
  <2> DEFINE w == C * e + (f * Q + g)
  <2>1. C * u + l = P * w + h
    <3>1. C * u = P * (C * e) + P * (f * Q)
      BY <1>1, <1>2
    <3>2. P * w = P * (C * e) + P * (f * Q) + P * g
      BY <1>1, <1>2
    <3>. QED  BY <1>1, <1>2, <3>1, <3>2
  <2>2. w \in Nat
    BY <1>1, <1>2
  <2> HIDE DEF w
  <2>3. (P * w + h) \div P = w
    BY <1>2, <2>2, DivUnique
  <2>. QED  BY <2>1, <2>3 DEF w
<1>. QED  BY <1>6, <1>7, <1>8, <1>9 DEF Shifted, a, b, c, d, e, f, g, h

\* 2^n, as a factor and as a divisor.
LEMMA TwoPowers ==
  /\ WordBits \in Nat \ {0} /\ WordBase = Power(2, WordBits)
  /\ Modulus128 = Power(2, 2 * WordBits) /\ Modulus = Power(2, 4 * WordBits)
  /\ Modulus = Modulus128 * Modulus128
  /\ \A n \in Nat : Power(2, n) \in Nat \ {0}
  /\ \A n \in Nat : Power(2, n + 1) = 2 * Power(2, n)
  /\ \A m, n \in Nat : Power(2, m + n) = Power(2, m) * Power(2, n)
<1>1. WordBits \in Nat \ {0} /\ WordBase = Power(2, WordBits)
  BY WordBitsAssumption
<1>2. \A m, n \in Nat : Power(2, m + n) = Power(2, m) * Power(2, n)
  BY PowerSum
<1>3. 2 * WordBits \in Nat /\ 2 * WordBits = WordBits + WordBits
      /\ 4 * WordBits = 2 * WordBits + 2 * WordBits
  BY <1>1
<1>4. Modulus128 = Power(2, 2 * WordBits)
  BY <1>1, <1>2, <1>3 DEF Modulus128
<1>5. Modulus = Modulus128 * Modulus128
  BY DEF Modulus, Modulus128
<1>6. Modulus = Power(2, 4 * WordBits)
  BY <1>2, <1>3, <1>4, <1>5
<1>7. \A n \in Nat : Power(2, n) \in Nat \ {0}
  BY PowersPositive
<1>8. \A n \in Nat : Power(2, n + 1) = 2 * Power(2, n)
  BY Powers
<1>. QED  BY <1>1, <1>2, <1>4, <1>5, <1>6, <1>7, <1>8

LEMMA WordShifts ==
  ASSUME NEW a \in Word, NEW n \in 0 .. WordBits
  PROVE  /\ ShiftWordL(a, n) = (a % Power(2, WordBits - n)) * Power(2, n)
         /\ ShiftWordR(a, n) = a \div Power(2, n)
         /\ ShiftWordL(a, n) \in Word /\ ShiftWordR(a, n) \in Word
<1> DEFINE P == Power(2, n)
           Q == Power(2, WordBits - n)
           q == a \div Q
           r == a % Q
<1>1. n \in Nat /\ WordBits - n \in Nat /\ n + (WordBits - n) = WordBits
  BY TwoPowers
<1>2. P \in Nat \ {0} /\ Q \in Nat \ {0} /\ WordBase = P * Q
  BY ZenonT(60), <1>1, TwoPowers
<1> HIDE DEF P, Q
<1>3. a \in 0 .. WordBase - 1 /\ WordBase \in Nat \ {0} /\ a \in Nat
  BY <1>2 DEF Word
<1>4. q \in Nat /\ r \in 0 .. Q - 1 /\ a = Q * q + r
  BY <1>2, <1>3, DivSplit
<1>5. a \div P \in Nat /\ a \div P <= a
  <2>1. a \div P \in Nat /\ a % P \in 0 .. P - 1 /\ a = P * (a \div P) + (a % P)
    BY <1>2, <1>3, DivSplit
  <2> DEFINE x == a \div P
             y == a % P
  <2>2. x \in Nat /\ y \in Nat /\ a = P * x + y
    BY <2>1
  <2> HIDE DEF x, y
  <2>3. P * x >= x
    BY <1>2, <2>2
  <2>4. P * x \in Nat
    BY <1>2, <2>2
  <2>5. x <= a
    BY <2>2, <2>3, <2>4
  <2>. QED  BY <2>2, <2>5 DEF x
<1> HIDE DEF q, r
<1>6. r * P \in 0 .. WordBase - 1
  <2>1. P * r + P <= P * Q /\ P * r \in Nat /\ P * r = r * P
    BY <1>2, <1>4, Products
  <2>. QED  BY <1>2, <2>1
<1>7. (a * P) % WordBase = r * P
  <2>1. a * P = WordBase * q + r * P
    BY <1>2, <1>3, <1>4
  <2>2. (WordBase * q + r * P) % WordBase = r * P
    <3> DEFINE t == r * P
    <3>1. t \in 0 .. WordBase - 1
      BY <1>6
    <3> HIDE DEF t
    <3>2. (WordBase * q + t) % WordBase = t
      BY <1>3, <1>4, <3>1, DivUnique
    <3>. QED  BY <3>2 DEF t
  <2>. QED  BY <2>1, <2>2
<1>8. ShiftWordL(a, n) = r * P /\ ShiftWordR(a, n) = a \div P
  BY <1>7 DEF ShiftWordL, ShiftWordR, P
<1>. QED  BY <1>3, <1>5, <1>6, <1>8 DEF Word, P, Q, r

\* Shifts by at least half of the width.
ShiftedFar(P, Q, C, u, l) ==
  /\ C * ((l % Q) * P) = ((C * u + l) % Q) * (C * P)
  /\ u \div P = (C * u + l) \div (C * P)

LEMMA FarShifts ==
  ASSUME NEW P \in Nat \ {0}, NEW Q \in Nat \ {0}, NEW C, C = P * Q,
         NEW u \in 0 .. C - 1, NEW l \in 0 .. C - 1
  PROVE  ShiftedFar(P, Q, C, u, l)
<1>1. C \in Nat \ {0} /\ u \in Nat /\ l \in Nat
  OBVIOUS
<1>2. (C * u + l) % Q = l % Q
  <2> DEFINE a == l \div Q
             b == l % Q
  <2>1. a \in Nat /\ b \in 0 .. Q - 1 /\ l = Q * a + b
    BY <1>1, DivSplit
  <2> HIDE DEF a, b
  <2> DEFINE w == P * u + a
  <2>2. C * u + l = Q * w + b
    BY <1>1, <2>1
  <2>3. w \in Nat
    BY <1>1, <2>1
  <2> HIDE DEF w
  <2>4. (Q * w + b) % Q = b
    BY <2>1, <2>3, DivUnique
  <2>. QED  BY <2>2, <2>4 DEF b
<1>3. (C * u + l) \div (C * P) = u \div P
  <2> DEFINE n == C * u + l
  <2>1. n \in Nat
    BY <1>1
  <2>2. n \div C = u
    BY <1>1, DivUnique
  <2> HIDE DEF n
  <2>3. n \div (P * C) = (n \div C) \div P
    BY <1>1, <2>1, DivTwice
  <2>4. P * C = C * P
    BY <1>1
  <2>. QED  BY <2>2, <2>3, <2>4 DEF n
<1>4. l % Q \in Nat
  BY <1>1, DivSplit
<1> DEFINE r == l % Q
<1>5. C * (r * P) = r * (C * P)
  <2>1. r \in Nat
    BY <1>4
  <2> HIDE DEF r
  <2>. QED  BY <1>1, <2>1
<1>. QED  BY <1>2, <1>3, <1>5 DEF ShiftedFar

LEMMA Zero128Is == Zero128 \in U128 /\ Value128(Zero128) = 0
BY WordAssumption DEF Zero128, U128, Word, Value128

LEMMA TwoSplit ==
  ASSUME NEW m \in Nat, NEW n \in Nat, NEW k, k = m + n
  PROVE  /\ Power(2, k) = Power(2, m) * Power(2, n)
         /\ Power(2, m) \in Nat \ {0} /\ Power(2, n) \in Nat \ {0}
<1>1. Power(2, m + n) = Power(2, m) * Power(2, n)
  BY PowerSum
<1>2. Power(2, m) \in Nat \ {0} /\ Power(2, n) \in Nat \ {0}
  BY TwoPowers
<1>. QED  BY <1>1, <1>2

LEMMA ShiftL128Is ==
  ASSUME NEW x \in U128, NEW n \in 0 .. 2 * WordBits
  PROVE  /\ ShiftL128(x, n) \in U128
         /\ Value128(ShiftL128(x, n))
              = (Value128(x) % Power(2, 2 * WordBits - n)) * Power(2, n)
<1> DEFINE u == x.upper
           l == x.lower
           C == WordBase
           K == WordBits
<1>1. /\ u \in Word /\ l \in Word /\ u \in 0 .. C - 1 /\ l \in 0 .. C - 1
      /\ Value128(x) = C * u + l /\ C \in Nat \ {0} /\ K \in Nat \ {0} /\ C = Power(2, K)
  BY WordAssumption, TwoPowers DEF U128, Word, Value128
<1>2. CASE n = 2 * K
  <2>1. ShiftL128(x, n) = Zero128
    BY <1>2 DEF ShiftL128
  <2>2. 2 * K - n = 0 /\ Power(2, 0) = 1 /\ Power(2, n) \in Nat
    BY <1>1, <1>2, TwoPowers, Powers
  <2>3. Value128(x) % 1 = 0
    BY Value128Range
  <2>. QED  BY <2>1, <2>2, <2>3, Zero128Is
<1>3. CASE n < 2 * K /\ n >= K
  <2> DEFINE m == n - K
             P == Power(2, m)
             Q == Power(2, K - m)
             v == ShiftWordL(l, m)
  <2>1. m \in 0 .. K /\ K - m \in Nat /\ m \in Nat /\ 2 * K - n = K - m /\ n = K + m
        /\ m + (K - m) = K
    BY <1>1, <1>3
  <2>2. P \in Nat \ {0} /\ Q \in Nat \ {0} /\ C = P * Q /\ Power(2, n) = C * P
        /\ Power(2, 2 * K - n) = Q
    <3>1. Power(2, K) = P * Q /\ P \in Nat \ {0} /\ Q \in Nat \ {0}
      BY <2>1, TwoSplit
    <3>2. Power(2, n) = Power(2, K) * P
      BY <1>1, <2>1, TwoSplit
    <3>. QED  BY <1>1, <2>1, <3>1, <3>2
  <2>3. v = (l % Q) * P /\ v \in Word
    BY <1>1, <2>1, WordShifts
  <2>4. C * ((l % Q) * P) = ((C * u + l) % Q) * (C * P)
    <3>1. u \in 0 .. C - 1 /\ l \in 0 .. C - 1
      BY <1>1
    <3> HIDE DEF u, l, C, K, m, P, Q
    <3>2. ShiftedFar(P, Q, C, u, l)
      BY <2>2, <3>1, FarShifts
    <3>. QED  BY <3>2 DEF ShiftedFar
  <2>5. ShiftL128(x, n) = [upper |-> v, lower |-> 0]
    BY <1>1, <1>3 DEF ShiftL128
  <2>6. ShiftL128(x, n) \in U128 /\ Value128(ShiftL128(x, n)) = C * v + 0
    BY <1>1, <2>3, <2>5 DEF U128, Value128, Word
  <2>7. C * v \in Nat
    BY <1>1, <2>3 DEF Word
  <2> HIDE DEF v, P, Q, C, u, l, K, m
  <2>. QED  BY <1>1, <2>2, <2>3, <2>4, <2>6, <2>7 DEF K
<1>4. CASE n = 0
  <2>1. ShiftL128(x, n) = x
    BY <1>1, <1>4 DEF ShiftL128
  <2>2. Power(2, n) = 1 /\ 2 * K - n = 2 * K /\ Power(2, 2 * K) = Modulus128
    BY <1>1, <1>4, Powers, TwoPowers
  <2>3. Value128(x) \in 0 .. Modulus128 - 1 /\ Modulus128 \in Nat
    BY Value128Range
  <2>4. Value128(x) % Modulus128 = Value128(x)
    <3> DEFINE y == Value128(x)
    <3>1. y \in 0 .. Modulus128 - 1 /\ Modulus128 \in Nat \ {0}
      BY <2>3
    <3> HIDE DEF y
    <3>. QED  BY <3>1 DEF y
  <2>5. Value128(x) * 1 = Value128(x)
    BY <2>3
  <2>. QED  BY <2>1, <2>2, <2>4, <2>5
<1>5. CASE 0 < n /\ n < K
  <2> DEFINE P == Power(2, n)
             Q == Power(2, K - n)
             v == Plus(ShiftWordL(u, n), ShiftWordR(l, K - n))
             w == ShiftWordL(l, n)
  <2>1. n \in 0 .. K /\ n \in Nat /\ K - n \in 0 .. K /\ K - n \in Nat /\ n + (K - n) = K
        /\ 2 * K - n = K + (K - n) /\ K - (K - n) = n
    BY <1>1, <1>5
  <2>2. P \in Nat \ {0} /\ Q \in Nat \ {0} /\ C = P * Q /\ Power(2, 2 * K - n) = C * Q
    <3>1. Power(2, K) = P * Q /\ P \in Nat \ {0} /\ Q \in Nat \ {0}
      BY <2>1, TwoSplit
    <3>2. Power(2, 2 * K - n) = Power(2, K) * Q
      BY <1>1, <2>1, TwoSplit
    <3>. QED  BY <1>1, <3>1, <3>2
  <2>3. /\ ShiftWordL(u, n) = (u % Q) * P /\ w = (l % Q) * P /\ w \in Word
        /\ ShiftWordR(l, K - n) = l \div Q
    BY <1>1, <2>1, WordShifts
  <2>4. /\ (u % Q) * P + l \div Q \in 0 .. C - 1
        /\ C * ((u % Q) * P + l \div Q) + (l % Q) * P = ((C * u + l) % (C * Q)) * P
    <3>1. u \in 0 .. C - 1 /\ l \in 0 .. C - 1
      BY <1>1
    <3> HIDE DEF u, l, C, K, P, Q
    <3>2. Shifted(P, Q, C, u, l)
      BY <2>2, <3>1, HalvesShifted
    <3>. QED  BY <3>2 DEF Shifted
  <2>5. v = (u % Q) * P + l \div Q /\ v \in Word
    BY <1>1, <2>3, <2>4 DEF Plus, Word
  <2>6. ShiftL128(x, n) = [upper |-> v, lower |-> w]
    <3>1. n # 0 /\ ~(n >= K) /\ ~(n >= 2 * K)
      BY <1>1, <1>5
    <3>. QED  BY <3>1 DEF ShiftL128
  <2>7. ShiftL128(x, n) \in U128 /\ Value128(ShiftL128(x, n)) = C * v + w
    BY <2>3, <2>5, <2>6 DEF U128, Value128
  <2> HIDE DEF v, w, P, Q, C, u, l, K
  <2>. QED  BY <1>1, <2>2, <2>3, <2>4, <2>5, <2>7 DEF K, P
<1>6. n < 2 * K \/ n = 2 * K
  BY <1>1
<1>7. n \in Nat
  BY <1>1
<1>. QED  BY <1>1, <1>2, <1>3, <1>4, <1>5, <1>6, <1>7

LEMMA ShiftR128Is ==
  ASSUME NEW x \in U128, NEW n \in 0 .. 2 * WordBits
  PROVE  /\ ShiftR128(x, n) \in U128
         /\ Value128(ShiftR128(x, n)) = Value128(x) \div Power(2, n)
<1> DEFINE u == x.upper
           l == x.lower
           C == WordBase
           K == WordBits
<1>1. /\ u \in Word /\ l \in Word /\ u \in 0 .. C - 1 /\ l \in 0 .. C - 1
      /\ Value128(x) = C * u + l /\ C \in Nat \ {0} /\ K \in Nat \ {0} /\ C = Power(2, K)
  BY WordAssumption, TwoPowers DEF U128, Word, Value128
<1>2. CASE n = 2 * K
  <2>1. ShiftR128(x, n) = Zero128
    BY <1>2 DEF ShiftR128
  <2>2. Power(2, n) = Modulus128 /\ Modulus128 \in Nat \ {0}
    BY <1>1, <1>2, TwoPowers
  <2> DEFINE y == Value128(x)
  <2>3. y \in 0 .. Modulus128 - 1
    BY Value128Range
  <2> HIDE DEF y
  <2>4. y \div Modulus128 = 0
    BY <2>2, <2>3
  <2>. QED  BY <2>1, <2>2, <2>4, Zero128Is DEF y
<1>3. CASE n < 2 * K /\ n >= K
  <2> DEFINE m == n - K
             P == Power(2, m)
             Q == Power(2, K - m)
             v == ShiftWordR(u, m)
  <2>1. m \in 0 .. K /\ K - m \in Nat /\ m \in Nat /\ n = K + m /\ m + (K - m) = K
    BY <1>1, <1>3
  <2>2. P \in Nat \ {0} /\ Q \in Nat \ {0} /\ C = P * Q /\ Power(2, n) = C * P
    <3>1. Power(2, K) = P * Q /\ P \in Nat \ {0} /\ Q \in Nat \ {0}
      BY <2>1, TwoSplit
    <3>2. Power(2, n) = Power(2, K) * P
      BY <1>1, <2>1, TwoSplit
    <3>. QED  BY <1>1, <3>1, <3>2
  <2>3. v = u \div P /\ v \in Word
    BY <1>1, <2>1, WordShifts
  <2>4. u \div P = (C * u + l) \div (C * P)
    <3>1. u \in 0 .. C - 1 /\ l \in 0 .. C - 1
      BY <1>1
    <3> HIDE DEF u, l, C, K, m, P, Q
    <3>2. ShiftedFar(P, Q, C, u, l)
      BY <2>2, <3>1, FarShifts
    <3>. QED  BY <3>2 DEF ShiftedFar
  <2>5. ShiftR128(x, n) = [upper |-> 0, lower |-> v]
    BY <1>1, <1>3 DEF ShiftR128
  <2>6. ShiftR128(x, n) \in U128 /\ Value128(ShiftR128(x, n)) = v
    BY <1>1, <2>3, <2>5 DEF U128, Value128, Word
  <2>. QED  BY <1>1, <2>2, <2>3, <2>4, <2>6
<1>4. CASE n = 0
  <2>1. ShiftR128(x, n) = x
    BY <1>1, <1>4 DEF ShiftR128
  <2>2. Power(2, n) = 1
    BY <1>1, <1>4, Powers
  <2>3. Value128(x) \div 1 = Value128(x)
    BY Value128Range
  <2>. QED  BY <2>1, <2>2, <2>3
<1>5. CASE 0 < n /\ n < K
  <2> DEFINE P == Power(2, n)
             Q == Power(2, K - n)
             v == ShiftWordR(u, n)
             w == Plus(ShiftWordL(u, K - n), ShiftWordR(l, n))
  <2>1. n \in 0 .. K /\ n \in Nat /\ K - n \in 0 .. K /\ K - n \in Nat /\ n + (K - n) = K
        /\ K - (K - n) = n
    BY <1>1, <1>5
  <2>2. P \in Nat \ {0} /\ Q \in Nat \ {0} /\ C = P * Q
    <3>1. Power(2, K) = P * Q /\ P \in Nat \ {0} /\ Q \in Nat \ {0}
      BY <2>1, TwoSplit
    <3>. QED  BY <1>1, <3>1
  <2>3. /\ ShiftWordL(u, K - n) = (u % P) * Q /\ v = u \div P /\ v \in Word
        /\ ShiftWordR(l, n) = l \div P
    BY <1>1, <2>1, WordShifts
  <2>4. /\ (u % P) * Q + l \div P \in 0 .. C - 1
        /\ C * (u \div P) + ((u % P) * Q + l \div P) = (C * u + l) \div P
    <3>1. u \in 0 .. C - 1 /\ l \in 0 .. C - 1
      BY <1>1
    <3> HIDE DEF u, l, C, K, P, Q
    <3>2. Shifted(P, Q, C, u, l)
      BY <2>2, <3>1, HalvesShifted
    <3>. QED  BY <3>2 DEF Shifted
  <2>5. w = (u % P) * Q + l \div P /\ w \in Word
    BY <1>1, <2>3, <2>4 DEF Plus, Word
  <2>6. ShiftR128(x, n) = [upper |-> v, lower |-> w]
    <3>1. n # 0 /\ ~(n >= K) /\ ~(n >= 2 * K)
      BY <1>1, <1>5
    <3>. QED  BY <3>1 DEF ShiftR128
  <2>7. ShiftR128(x, n) \in U128 /\ Value128(ShiftR128(x, n)) = C * v + w
    BY <2>3, <2>5, <2>6 DEF U128, Value128
  <2> HIDE DEF v, w, P, Q, C, u, l, K
  <2>. QED  BY <1>1, <2>3, <2>4, <2>5, <2>7 DEF P
<1>6. n < 2 * K \/ n = 2 * K
  BY <1>1
<1>7. n \in Nat
  BY <1>1
<1>. QED  BY <1>1, <1>2, <1>3, <1>4, <1>5, <1>6, <1>7

LEMMA Zero256Is == Zero256 \in U256 /\ Value256(Zero256) = 0
<1>1. Zero256 \in U256 /\ Zero256.upper = Zero128 /\ Zero256.lower = Zero128
  BY Zero128Is DEF Zero256, U256
<1>. QED  BY <1>1, Zero128Is, WordAssumption DEF Value256

LEMMA Value256Range ==
  ASSUME NEW x \in U256
  PROVE  /\ Value256(x) \in 0 .. Modulus - 1 /\ Modulus \in Nat \ {0}
         /\ Modulus128 \in Nat \ {0}
         /\ Value128(x.upper) \in 0 .. Modulus128 - 1
         /\ Value128(x.lower) \in 0 .. Modulus128 - 1
         /\ Value256(x) = Modulus128 * Value128(x.upper) + Value128(x.lower)
<1> DEFINE u == Value128(x.upper)
           l == Value128(x.lower)
           C == Modulus128
<1>1. u \in 0 .. C - 1 /\ l \in 0 .. C - 1 /\ Value256(x) = C * u + l
  BY Halves, Value128Range
<1>2. C \in Nat \ {0} /\ Modulus = C * C
  BY TwoPowers, WordAssumption
<1> HIDE DEF u, l, C
<1>3. C * u + C <= C * C /\ C * u \in Nat /\ C * C \in Nat \ {0}
  BY <1>1, <1>2, Products
<1>4. C * u + l \in 0 .. C * C - 1
  BY <1>1, <1>2, <1>3
<1>. QED  BY <1>1, <1>2, <1>3, <1>4 DEF u, l, C

\* Two halves that add up to one: no carry.
LEMMA AddedInside ==
  ASSUME NEW x \in U128, NEW y \in U128, Value128(x) + Value128(y) < Modulus128
  PROVE  Add128(x, y) \in U128 /\ Value128(Add128(x, y)) = Value128(x) + Value128(y)
<1>1. Add128(x, y) \in U128
  BY Sum128
<1>2. \E carry \in {0, 1} :
        Value128(x) + Value128(y) = Value128(Add128(x, y)) + carry * Modulus128
  BY Sum128
<1>3. /\ Value128(x) \in Nat /\ Value128(y) \in Nat /\ Value128(Add128(x, y)) \in Nat
      /\ Modulus128 \in Nat
  BY <1>1, Value128Range
<1>. QED  BY <1>1, <1>2, <1>3

LEMMA ShiftL256Is ==
  ASSUME NEW x \in U256, NEW n \in 0 .. 4 * WordBits
  PROVE  /\ ShiftL256(x, n) \in U256
         /\ Value256(ShiftL256(x, n))
              = (Value256(x) % Power(2, 4 * WordBits - n)) * Power(2, n)
<1> DEFINE u == Value128(x.upper)
           l == Value128(x.lower)
           C == Modulus128
           K == 2 * WordBits
           y == ShiftL256(x, n)
<1>1. /\ u \in 0 .. C - 1 /\ l \in 0 .. C - 1 /\ x.upper \in U128 /\ x.lower \in U128
      /\ Value256(x) = C * u + l /\ C \in Nat \ {0} /\ C = Power(2, K)
  BY Value256Range, Halves, TwoPowers
<1>2. K \in Nat \ {0} /\ 4 * WordBits = 2 * K /\ n \in 0 .. 2 * K
  BY TwoPowers
<1>3. CASE n = 2 * K
  <2>1. y = Zero256
    BY <1>2, <1>3 DEF ShiftL256
  <2>2. 2 * K - n = 0 /\ Power(2, 0) = 1 /\ Power(2, n) \in Nat
    BY <1>2, <1>3, TwoPowers, Powers
  <2>3. Value256(x) % 1 = 0
    BY Value256Range
  <2>. QED  BY <2>1, <2>2, <2>3, <1>2, Zero256Is
<1>4. CASE n < 2 * K /\ n >= K
  <2> DEFINE m == n - K
             P == Power(2, m)
             Q == Power(2, K - m)
             v == ShiftL128(x.lower, m)
  <2>1. m \in 0 .. K /\ K - m \in Nat /\ m \in Nat /\ 2 * K - n = K - m /\ n = K + m
        /\ m + (K - m) = K
    <3>1. K \in Nat /\ n \in Nat /\ n < 2 * K /\ n >= K
      BY <1>2, <1>4
    <3> HIDE DEF K
    <3>. QED  BY <3>1
  <2>2. P \in Nat \ {0} /\ Q \in Nat \ {0} /\ C = P * Q /\ Power(2, n) = C * P
        /\ Power(2, 2 * K - n) = Q
    <3>1. Power(2, K) = P * Q /\ P \in Nat \ {0} /\ Q \in Nat \ {0}
      BY <2>1, TwoSplit
    <3>2. Power(2, n) = Power(2, K) * P
      BY <1>2, <2>1, TwoSplit
    <3>. QED  BY <1>1, <2>1, <3>1, <3>2
  <2>3. v \in U128 /\ Value128(v) = (l % Q) * P
    BY <1>1, <2>1, ShiftL128Is
  <2>4. C * ((l % Q) * P) = ((C * u + l) % Q) * (C * P)
    <3>1. u \in 0 .. C - 1 /\ l \in 0 .. C - 1
      BY <1>1
    <3> HIDE DEF u, l, C, K, m, P, Q
    <3>2. ShiftedFar(P, Q, C, u, l)
      BY <2>2, <3>1, FarShifts
    <3>. QED  BY <3>2 DEF ShiftedFar
  <2>5. y = [upper |-> v, lower |-> Zero128]
    BY <1>2, <1>4 DEF ShiftL256
  <2>6. y \in U256 /\ y.upper = v /\ y.lower = Zero128
    BY <2>3, <2>5, Zero128Is DEF U256
  <2>7. Value256(y) = C * Value128(v) + 0
    BY <2>6, Zero128Is, Halves
  <2> DEFINE w == Value128(v)
  <2>8. Value256(y) = C * w + 0 /\ w = (l % Q) * P /\ w \in Nat
    BY <2>3, <2>7, Value128Range
  <2>9. Value256(y) = C * ((l % Q) * P)
    <3> HIDE DEF w, C, l, Q, P
    <3>. QED  BY <1>1, <2>8
  <2>. QED  BY <1>1, <1>2, <2>2, <2>4, <2>6, <2>9
<1>5. CASE n = 0
  <2>1. y = x
    BY <1>2, <1>5 DEF ShiftL256
  <2>2. Power(2, n) = 1 /\ 2 * K - n = 2 * K /\ Power(2, 2 * K) = Modulus
    BY <1>2, <1>5, Powers, TwoPowers
  <2>3. Value256(x) \in 0 .. Modulus - 1 /\ Modulus \in Nat \ {0}
    BY Value256Range
  <2>4. Value256(x) % Modulus = Value256(x) /\ Value256(x) * 1 = Value256(x)
    <3> DEFINE z == Value256(x)
    <3>1. z \in 0 .. Modulus - 1 /\ Modulus \in Nat \ {0}
      BY <2>3
    <3> HIDE DEF z
    <3>2. z % Modulus = z /\ z * 1 = z
      BY <3>1
    <3>. QED  BY <3>2 DEF z
  <2>. QED  BY <1>2, <2>1, <2>2, <2>4
<1>6. CASE 0 < n /\ n < K
  <2> DEFINE P == Power(2, n)
             Q == Power(2, K - n)
             a == ShiftL128(x.upper, n)
             b == ShiftR128(x.lower, K - n)
             v == Add128(a, b)
             w == ShiftL128(x.lower, n)
  <2>1. n \in 0 .. K /\ n \in Nat /\ K - n \in 0 .. K /\ K - n \in Nat /\ n + (K - n) = K
        /\ 2 * K - n = K + (K - n)
    BY <1>2, <1>6
  <2>2. P \in Nat \ {0} /\ Q \in Nat \ {0} /\ C = P * Q /\ Power(2, 2 * K - n) = C * Q
    <3>1. Power(2, K) = P * Q /\ P \in Nat \ {0} /\ Q \in Nat \ {0}
      BY <2>1, TwoSplit
    <3>2. Power(2, 2 * K - n) = Power(2, K) * Q
      BY <1>2, <2>1, TwoSplit
    <3>. QED  BY <1>1, <3>1, <3>2
  <2>3. /\ a \in U128 /\ Value128(a) = (u % Q) * P
        /\ w \in U128 /\ Value128(w) = (l % Q) * P
    BY <1>1, <2>1, ShiftL128Is
  <2>4. b \in U128 /\ Value128(b) = l \div Q
    BY <1>1, <2>1, ShiftR128Is
  <2>5. /\ (u % Q) * P + l \div Q \in 0 .. C - 1
        /\ C * ((u % Q) * P + l \div Q) + (l % Q) * P = ((C * u + l) % (C * Q)) * P
    <3>1. u \in 0 .. C - 1 /\ l \in 0 .. C - 1
      BY <1>1
    <3> HIDE DEF u, l, C, K, P, Q
    <3>2. Shifted(P, Q, C, u, l)
      BY <2>2, <3>1, HalvesShifted
    <3>. QED  BY <3>2 DEF Shifted
  <2>6. v \in U128 /\ Value128(v) = (u % Q) * P + l \div Q
    <3>1. Value128(a) + Value128(b) < C
      <4> DEFINE s == (u % Q) * P + l \div Q
      <4>1. s \in 0 .. C - 1 /\ Value128(a) + Value128(b) = s
        BY <2>3, <2>4, <2>5
      <4> HIDE DEF s
      <4>. QED  BY <1>1, <4>1
    <3>. QED  BY <2>3, <2>4, <3>1, AddedInside
  <2>7. y = [upper |-> v, lower |-> w]
    <3>1. n # 0 /\ ~(n >= K) /\ ~(n >= 4 * WordBits)
      BY <1>2, <1>6
    <3>. QED  BY <3>1 DEF ShiftL256
  <2>8. y \in U256 /\ y.upper = v /\ y.lower = w
    BY <2>3, <2>6, <2>7 DEF U256
  <2>9. Value256(y) = C * Value128(v) + Value128(w)
    BY <2>8, Halves
  <2>. QED  BY <1>1, <1>2, <2>2, <2>3, <2>5, <2>6, <2>8, <2>9
<1>7. n < 2 * K \/ n = 2 * K
  BY <1>2
<1>8. n \in Nat
  BY <1>2
<1>. QED  BY <1>2, <1>3, <1>4, <1>5, <1>6, <1>7, <1>8

\* By one place, which is all that divmod256 shifts to the right.
LEMMA HalfOf256 ==
  ASSUME NEW x \in U256
  PROVE  ShiftR256(x, 1) \in U256 /\ Value256(ShiftR256(x, 1)) = Value256(x) \div 2
<1> DEFINE u == Value128(x.upper)
           l == Value128(x.lower)
           C == Modulus128
           K == 2 * WordBits
           y == ShiftR256(x, 1)
           P == Power(2, 1)
           Q == Power(2, K - 1)
           v == ShiftR128(x.upper, 1)
           a == ShiftR128(x.lower, 1)
           b == ShiftL128(x.upper, K - 1)
           w == Add128(a, b)
<1>1. /\ u \in 0 .. C - 1 /\ l \in 0 .. C - 1 /\ x.upper \in U128 /\ x.lower \in U128
      /\ Value256(x) = C * u + l /\ C \in Nat \ {0} /\ C = Power(2, K)
  BY Value256Range, Halves, TwoPowers
<1>2. /\ K \in Nat /\ K >= 2 /\ 4 * WordBits >= 4 /\ 1 \in 0 .. K /\ K - 1 \in 0 .. K
      /\ K - 1 \in Nat /\ 1 + (K - 1) = K /\ K - (K - 1) = 1 /\ 4 * WordBits \in Nat
  BY TwoPowers
<1>3. P = 2 /\ P \in Nat \ {0} /\ Q \in Nat \ {0} /\ C = P * Q
  <2>1. Power(2, K) = P * Q /\ P \in Nat \ {0} /\ Q \in Nat \ {0}
    BY <1>2, TwoSplit
  <2>2. P = 2
    <3>1. Power(2, 0) = 1 /\ Power(2, 0 + 1) = 2 * Power(2, 0)
      BY Powers
    <3>. QED  BY <3>1
  <2>. QED  BY <1>1, <2>1, <2>2
<1>4. /\ v \in U128 /\ Value128(v) = u \div P
      /\ a \in U128 /\ Value128(a) = l \div P
  BY <1>1, <1>2, ShiftR128Is
<1>5. b \in U128 /\ Value128(b) = (u % P) * Q
  BY <1>1, <1>2, ShiftL128Is
<1>6. /\ (u % P) * Q + l \div P \in 0 .. C - 1
      /\ C * (u \div P) + ((u % P) * Q + l \div P) = (C * u + l) \div P
  <2>1. u \in 0 .. C - 1 /\ l \in 0 .. C - 1
    BY <1>1
  <2> HIDE DEF u, l, C, K, P, Q
  <2>2. Shifted(P, Q, C, u, l)
    BY <1>3, <2>1, HalvesShifted
  <2>. QED  BY <2>2 DEF Shifted
<1>7. w \in U128 /\ Value128(w) = (u % P) * Q + l \div P
  <2> DEFINE e == Value128(a)
             f == Value128(b)
  <2>1. e \in Nat /\ f \in Nat /\ f + e \in 0 .. C - 1 /\ f + e = (u % P) * Q + l \div P
    BY <1>4, <1>5, <1>6, Value128Range
  <2> HIDE DEF e, f
  <2>2. e + f < C /\ e + f = f + e
    BY <1>1, <2>1
  <2>3. w \in U128 /\ Value128(w) = e + f
    BY <1>4, <1>5, <2>2, AddedInside DEF e, f
  <2>. QED  BY <2>1, <2>2, <2>3
<1>8. y = [upper |-> v, lower |-> w]
  <2>1. ~(1 >= K) /\ ~(1 >= 4 * WordBits) /\ 1 # 0
    BY SMTT(30), <1>2
  <2>. QED  BY <2>1 DEF ShiftR256
<1>9. y \in U256 /\ y.upper = v /\ y.lower = w
  BY <1>4, <1>7, <1>8 DEF U256
<1>10. Value256(y) = C * Value128(v) + Value128(w)
  BY <1>9, Halves
<1>. QED  BY <1>1, <1>3, <1>4, <1>6, <1>7, <1>9, <1>10

---------------------------------------------------------------------------
(* Numbers of bits.                                                         *)

\* The number of bits of a number: the least power of two above it.
Bits(v, k) == k \in Nat /\ v < Power(2, k) /\ (k > 0 => Power(2, k - 1) <= v)

LEMMA BitsExist ==
  ASSUME NEW v \in Nat, NEW m \in Nat, v < Power(2, m)
  PROVE  \E k \in 0 .. m : Bits(v, k)
<1> DEFINE T == {k \in Nat : v < Power(2, k)}
<1>1. m \in T /\ T \in SUBSET Nat /\ T # {}
  OBVIOUS
<1> HIDE DEF T
<1>2. PICK k \in T : \A j \in T : k <= j
  BY <1>1, LeastNumber
<1>3. k \in 0 .. m /\ v < Power(2, k)
  BY <1>1, <1>2 DEF T
<1>4. k > 0 => Power(2, k - 1) <= v
  <2>. SUFFICES ASSUME k > 0, ~(Power(2, k - 1) <= v)  PROVE FALSE
    OBVIOUS
  <2>1. k - 1 \in Nat /\ k - 1 < k
    BY <1>3
  <2>2. Power(2, k - 1) \in Nat
    BY <2>1, TwoPowers
  <2>3. k - 1 \in T
    BY <2>1, <2>2 DEF T
  <2>. QED  BY <1>2, <1>3, <2>1, <2>3
<1>. QED  BY <1>3, <1>4 DEF Bits

\* Half of a number has a bit less.
LEMMA BitsOfHalf ==
  ASSUME NEW v \in Nat \ {0}, NEW k, Bits(v, k)
  PROVE  k > 0 /\ Bits(v \div 2, k - 1)
<1>1. k \in Nat /\ v < Power(2, k) /\ (k > 0 => Power(2, k - 1) <= v)
  BY DEF Bits
<1>2. k > 0
  <2>1. Power(2, 0) = 1
    BY Powers
  <2>. QED  BY <1>1, <2>1
<1>3. PICK j \in Nat : j = k - 1 /\ k = j + 1
  BY <1>1, <1>2
<1> DEFINE p == Power(2, j)
<1>4. p \in Nat \ {0} /\ Power(2, k) = 2 * p /\ p <= v
  BY <1>1, <1>2, <1>3, TwoPowers
<1>5. j > 0 => j - 1 \in Nat /\ Power(2, j - 1) \in Nat /\ p = 2 * Power(2, j - 1)
  <2>. SUFFICES ASSUME j > 0  PROVE j - 1 \in Nat /\ Power(2, j - 1) \in Nat /\ p = 2 * Power(2, j - 1)
    OBVIOUS
  <2>1. j - 1 \in Nat /\ (j - 1) + 1 = j
    OBVIOUS
  <2>2. Power(2, (j - 1) + 1) = 2 * Power(2, j - 1) /\ Power(2, j - 1) \in Nat
    BY <2>1, TwoPowers
  <2>. QED  BY <2>1, <2>2
<1> HIDE DEF p
<1>6. v \div 2 < p
  BY <1>1, <1>4
<1>7. j > 0 => Power(2, j - 1) <= v \div 2
  <2>. SUFFICES ASSUME j > 0  PROVE Power(2, j - 1) <= v \div 2
    OBVIOUS
  <2> DEFINE q == Power(2, j - 1)
  <2>1. q \in Nat /\ 2 * q <= v
    BY <1>4, <1>5
  <2> HIDE DEF q
  <2>2. q <= v \div 2
    BY <2>1
  <2>. QED  BY <2>2 DEF q
<1>. QED  BY <1>2, <1>3, <1>6, <1>7 DEF Bits, p

LEMMA BitsUnique ==
  ASSUME NEW v \in Nat, NEW j, NEW k, Bits(v, j), Bits(v, k)
  PROVE  j = k
<1>1. ASSUME NEW m, NEW n, Bits(v, m), Bits(v, n), m < n  PROVE FALSE
  <2>1. m \in Nat /\ n \in Nat /\ v < Power(2, m) /\ Power(2, n - 1) <= v /\ n - 1 \in Nat
        /\ m <= n - 1
    BY <1>1 DEF Bits
  <2>2. Power(2, m) <= Power(2, n - 1)
    <3> DEFINE i == n - 1
    <3>1. i \in Nat /\ m <= i
      BY <2>1
    <3> HIDE DEF i
    <3>2. Power(2, m) <= Power(2, i)
      BY <2>1, <3>1, PowersGrow
    <3>. QED  BY <3>2 DEF i
  <2>3. Power(2, m) \in Nat /\ Power(2, n - 1) \in Nat
    BY <2>1, TwoPowers
  <2>. QED  BY <2>1, <2>2, <2>3
<1>2. j \in Nat /\ k \in Nat
  BY DEF Bits
<1>. QED  BY <1>1, <1>2

\* bits128 counts them.
LEMMA CountBitsIs ==
  ASSUME NEW x \in U128
  PROVE  Bits(Value128(x), CountBits[x]) /\ CountBits[x] \in 0 .. 2 * WordBits
<1> DEFINE K == 2 * WordBits
           half(y) == ShiftR128(y, 1)
           f == [y \in U128 |-> CHOOSE k \in 0 .. K : Bits(Value128(y), k)]
<1>1. K \in Nat /\ 1 \in 0 .. K /\ Modulus128 = Power(2, K)
  BY TwoPowers
<1>2. ASSUME NEW y \in U128  PROVE f[y] \in 0 .. K /\ Bits(Value128(y), f[y])
  <2>1. Value128(y) \in Nat /\ Value128(y) < Power(2, K)
    BY <1>1, Value128Range
  <2> HIDE DEF K
  <2>2. \E k \in 0 .. K : Bits(Value128(y), k)
    BY <1>1, <2>1, BitsExist
  <2>. QED  BY <2>2
<1>3. Power(2, 1) = 2
  <2>1. Power(2, 0) = 1 /\ Power(2, 0 + 1) = 2 * Power(2, 0)
    BY Powers
  <2>. QED  BY <2>1
<1>4. ASSUME NEW y \in U128
      PROVE  half(y) \in U128 /\ Value128(half(y)) = Value128(y) \div 2
  BY <1>1, <1>3, ShiftR128Is
<1> HIDE DEF half, K
<1>5. ASSUME NEW y \in U128
      PROVE  f[y] = IF y = Zero128 THEN 0 ELSE 1 + f[half(y)]
  <2> HIDE DEF f
  <2>1. CASE y = Zero128
    <3>1. Bits(0, 0)
      BY TwoPowers DEF Bits
    <3>2. Bits(0, f[y])
      BY <1>2, <2>1, Zero128Is
    <3>3. f[y] = 0
      BY <3>1, <3>2, BitsUnique
    <3>. QED  BY <2>1, <3>3
  <2>2. CASE y # Zero128
    <3> DEFINE v == Value128(y)
    <3>1. v \in Nat \ {0}
      BY <2>2, Zero128Is, Compare128, Value128Range
    <3>2. f[y] > 0 /\ Bits(v \div 2, f[y] - 1) /\ f[y] \in Nat
      <4>1. Bits(v, f[y]) /\ f[y] \in Nat
        BY <1>1, <1>2
      <4> HIDE DEF v
      <4>. QED  BY <3>1, <4>1, BitsOfHalf
    <3>3. Bits(v \div 2, f[half(y)]) /\ f[half(y)] \in Nat
      BY <1>1, <1>2, <1>4
    <3>4. v \div 2 \in Nat
      BY <3>1
    <3> HIDE DEF v
    <3>5. f[y] - 1 = f[half(y)]
      BY <3>2, <3>3, <3>4, BitsUnique
    <3>. QED  BY <2>2, <3>2, <3>3, <3>5
  <2>. QED  BY <2>1, <2>2
<1> DEFINE g == [y \in U128 |-> IF y = Zero128 THEN 0 ELSE 1 + f[half(y)]]
<1>6. f = g
  <2>1. f = [y \in U128 |-> f[y]] /\ g = [y \in U128 |-> g[y]]
    OBVIOUS
  <2>2. \A y \in U128 : f[y] = g[y]
    BY <1>5
  <2> HIDE DEF f, g
  <2>. QED  BY <2>1, <2>2
<1>7. \E h : h = [y \in U128 |-> IF y = Zero128 THEN 0 ELSE 1 + h[half(y)]]
  <2>1. f = [y \in U128 |-> IF y = Zero128 THEN 0 ELSE 1 + f[half(y)]]
    BY <1>6
  <2> HIDE DEF f
  <2>. QED  BY <2>1
<1> DEFINE c == CHOOSE h : h = [y \in U128 |-> IF y = Zero128 THEN 0 ELSE 1 + h[half(y)]]
<1>8. c = [y \in U128 |-> IF y = Zero128 THEN 0 ELSE 1 + c[half(y)]]
  <2> HIDE DEF f, g
  <2>. QED  BY <1>7
<1>9. CountBits = c
  BY DEF CountBits, half
<1> HIDE DEF c, f, g
<1>10. ASSUME NEW y \in U128
       PROVE  CountBits[y] = IF y = Zero128 THEN 0 ELSE 1 + CountBits[half(y)]
  BY <1>8, <1>9
\* Two functions with this equation agree, by induction on the bits.
<1> DEFINE T == {k \in Nat : \A y \in U128 : f[y] = k => CountBits[y] = k}
<1>11. 0 \in T
  <2>1. ASSUME NEW y \in U128, f[y] = 0  PROVE CountBits[y] = 0
    <3>1. y = Zero128
      <4>1. y # Zero128 => half(y) \in U128 /\ f[half(y)] \in Nat /\ f[y] = 1 + f[half(y)]
        BY <1>1, <1>2, <1>4, <1>5
      <4>. QED  BY <2>1, <4>1
    <3>. QED  BY <1>10, <3>1
  <2>. QED  BY <2>1
<1>12. ASSUME NEW k \in T  PROVE k + 1 \in T
  <2>1. ASSUME NEW y \in U128, f[y] = k + 1  PROVE CountBits[y] = k + 1
    <3>1. y # Zero128 /\ f[y] = 1 + f[half(y)]
      BY <1>5, <2>1
    <3>2. half(y) \in U128 /\ f[half(y)] \in Nat
      BY <1>1, <1>2, <1>4
    <3>3. f[half(y)] = k
      BY <2>1, <3>1, <3>2
    <3>4. CountBits[half(y)] = k
      BY <3>2, <3>3
    <3>. QED  BY <1>10, <3>1, <3>4
  <2>. QED  BY <2>1
<1>13. T \in SUBSET Nat
  OBVIOUS
<1>14. T = Nat
  <2> HIDE DEF T
  <2>. QED  BY <1>11, <1>12, <1>13, Induction
<1>15. f[x] \in Nat
  BY <1>1, <1>2
<1>16. CountBits[x] = f[x]
  BY <1>14, <1>15
<1>. QED  BY <1>2, <1>16 DEF K

\* bits256 counts them.
LEMMA Bits256Is ==
  ASSUME NEW x \in U256
  PROVE  Bits(Value256(x), Bits256(x)) /\ Bits256(x) \in 0 .. 4 * WordBits
<1> DEFINE u == Value128(x.upper)
           l == Value128(x.lower)
           C == Modulus128
           K == 2 * WordBits
<1>1. /\ u \in 0 .. C - 1 /\ l \in 0 .. C - 1 /\ x.upper \in U128 /\ x.lower \in U128
      /\ Value256(x) = C * u + l /\ C \in Nat \ {0} /\ C = Power(2, K)
      /\ K \in Nat /\ 4 * WordBits = 2 * K
  BY Value256Range, Halves, TwoPowers
<1>2. CASE x.upper = Zero128
  <2>1. u = 0
    BY <1>2, Zero128Is
  <2>2. Bits256(x) = CountBits[x.lower]
    BY <1>2 DEF Bits256
  <2>3. Bits(l, CountBits[x.lower]) /\ CountBits[x.lower] \in 0 .. K
    BY <1>1, CountBitsIs
  <2>4. Value256(x) = l
    <3> HIDE DEF u, l, C, K
    <3>. QED  BY <1>1, <2>1
  <2>. QED  BY <1>1, <2>2, <2>3, <2>4
<1>3. CASE x.upper # Zero128
  <2> DEFINE n == CountBits[x.upper]
             p == Power(2, n)
             q == Power(2, n - 1)
  <2>1. u \in Nat \ {0}
    <3>1. Zero128 \in U128 /\ Value128(Zero128) = 0
      BY Zero128Is
    <3>2. x.upper = Zero128 <=> Value128(x.upper) = Value128(Zero128)
      BY <1>1, <3>1, Compare128
    <3>3. u # 0
      BY <1>3, <3>1, <3>2
    <3>4. u \in 0 .. C - 1 /\ C \in Nat
      BY <1>1
    <3> HIDE DEF u, C
    <3>. QED  BY <3>3, <3>4
  <2>2. Bits(u, n) /\ n \in 0 .. K
    BY <1>1, CountBitsIs
  <2>3. n > 0 /\ n - 1 \in Nat /\ n \in Nat /\ u < p /\ q <= u
    <3>1. n > 0
      BY <2>1, <2>2, BitsOfHalf
    <3>. QED  BY <2>2, <3>1 DEF Bits
  <2>4. Bits256(x) = K + n
    BY <1>3 DEF Bits256
  <2>5. Power(2, K + n) = C * p /\ p \in Nat
    <3>1. n \in Nat
      BY <2>3
    <3> HIDE DEF K, n
    <3>. QED  BY <1>1, <3>1, TwoSplit
  <2>6. Power(2, (K + n) - 1) = C * q /\ q \in Nat
    <3> DEFINE i == n - 1
    <3>1. i \in Nat /\ (K + n) - 1 = K + i
      BY <1>1, <2>3
    <3> HIDE DEF K, i
    <3>2. Power(2, K + i) = Power(2, K) * Power(2, i) /\ Power(2, i) \in Nat
      BY <1>1, <3>1, TwoSplit
    <3>. QED  BY <1>1, <3>1, <3>2 DEF i
  <2> HIDE DEF u, l, C, K, n, p, q
  <2>7. C * u + C <= C * p /\ C * u \in Nat /\ C * p \in Nat
    BY <1>1, <2>1, <2>3, <2>5, Products
  <2>8. C * q <= C * u
    <3>1. q < u => C * q + C <= C * u
      BY <1>1, <2>1, <2>6, Products
    <3>2. C * q \in Nat
      BY <1>1, <2>6
    <3>. QED  BY <1>1, <2>1, <2>3, <2>6, <2>7, <3>1, <3>2
  <2>9. Value256(x) < Power(2, K + n) /\ Power(2, (K + n) - 1) <= Value256(x)
    <3>1. C * q \in Nat
      BY <1>1, <2>6
    <3>. QED  BY <1>1, <2>5, <2>6, <2>7, <2>8, <3>1
  <2>10. K + n \in Nat /\ K + n \in 0 .. 2 * K
    BY <1>1, <2>2, <2>3
  <2>. QED  BY <1>1, <2>4, <2>9, <2>10 DEF Bits
<1>. QED  BY <1>2, <1>3

---------------------------------------------------------------------------
(* The union of bits, which is the sum when they have none in common.       *)

\* The bits of a number, and two numbers without a common one.
BitOf(v, k) == (v \div Power(2, k)) % 2
Disjoint(v, w) == \A k \in Nat : BitOf(v, k) + BitOf(w, k) <= 1

LEMMA BitsAre ==
  ASSUME NEW v \in Nat, NEW k \in Nat
  PROVE  /\ BitOf(v, k) \in {0, 1}
         /\ v % Power(2, k + 1) = (v % Power(2, k)) + Power(2, k) * BitOf(v, k)
<1> DEFINE p == Power(2, k)
           q == v \div p
           r == v % p
           s == q \div 2
           t == q % 2
<1>1. p \in Nat \ {0} /\ Power(2, k + 1) = 2 * p
  BY TwoPowers
<1>2. q \in Nat /\ r \in 0 .. p - 1 /\ v = p * q + r
  <2> HIDE DEF p
  <2>. QED  BY <1>1, DivSplit
<1>3. BitOf(v, k) = t
  BY DEF BitOf
<1> HIDE DEF p, q, r
<1>4. s \in Nat /\ t \in {0, 1} /\ q = 2 * s + t
  BY <1>2
<1> HIDE DEF s, t
<1> DEFINE m == 2 * p
           w == p * t + r
<1>5. v = m * s + w
  BY <1>1, <1>2, <1>4
<1>6. m \in Nat \ {0} /\ w \in 0 .. m - 1
  <2>1. CASE t = 0
    BY <1>1, <1>2, <2>1
  <2>2. CASE t = 1
    BY <1>1, <1>2, <2>2
  <2>. QED  BY <1>4, <2>1, <2>2
<1> HIDE DEF m, w
<1>7. (m * s + w) % m = w
  BY <1>4, <1>6, DivUnique
<1>8. v % Power(2, k + 1) = w
  BY <1>1, <1>5, <1>7 DEF m
<1>9. w = r + p * t
  BY <1>1, <1>2, <1>4 DEF w
<1>. QED  BY <1>3, <1>4, <1>8, <1>9 DEF p, r

\* The bits of the halves of a number.
LEMMA HalfBits ==
  ASSUME NEW K \in Nat, NEW C, C = Power(2, K), NEW u \in Nat, NEW l \in 0 .. C - 1,
         NEW k \in Nat
  PROVE  /\ BitOf(u, k) = BitOf(C * u + l, K + k)
         /\ BitOf(l, k) = IF k < K THEN BitOf(C * u + l, k) ELSE 0
<1> DEFINE p == Power(2, k)
           n == C * u + l
<1>1. C \in Nat \ {0} /\ p \in Nat \ {0}
  BY TwoPowers
<1>2. n \in Nat /\ l \in Nat /\ C \in Nat
  BY <1>1
<1>3. n \div C = u
  BY <1>1, DivUnique
<1>4. BitOf(u, k) = BitOf(n, K + k)
  <2>1. Power(2, K + k) = C * p
    BY TwoPowers
  <2> HIDE DEF p, n
  <2>2. n \div (p * C) = (n \div C) \div p
    BY <1>1, <1>2, DivTwice
  <2>3. p * C = C * p
    BY <1>1
  <2>. QED  BY <1>3, <2>1, <2>2, <2>3 DEF BitOf, p
<1>5. ASSUME k < K  PROVE BitOf(l, k) = BitOf(n, k)
  <2> DEFINE d == K - k
             e == K - (k + 1)
             P == Power(2, d)
             Q == Power(2, e)
             g == l \div p
             h == l % p
  <2>1. d \in Nat /\ e \in Nat /\ d = e + 1 /\ K = k + d
    BY <1>5
  <2>2. P \in Nat /\ Q \in Nat /\ P = 2 * Q /\ C = p * P
    <3> HIDE DEF d, e
    <3>. QED  BY <2>1, TwoPowers
  <2>3. g \in Nat /\ h \in 0 .. p - 1 /\ l = p * g + h
    <3> HIDE DEF p
    <3>. QED  BY <1>1, <1>2, DivSplit
  <2>4. BitOf(l, k) = g % 2 /\ BitOf(n, k) = (n \div p) % 2
    BY DEF BitOf
  <2> HIDE DEF p, P, Q, g, h
  <2> DEFINE w == P * u + g
  <2>5. n = p * w + h /\ w \in Nat
    BY <1>1, <2>2, <2>3
  <2>6. w = 2 * (Q * u) + g /\ Q * u \in Nat
    BY <2>2, <2>3
  <2> HIDE DEF w, n
  <2>7. (p * w + h) \div p = w
    BY <1>1, <2>3, <2>5, DivUnique
  <2>8. w % 2 = g % 2
    <3> DEFINE z == Q * u
    <3>1. w = 2 * z + g /\ z \in Nat
      BY <2>6
    <3> HIDE DEF z
    <3>. QED  BY <2>3, <3>1
  <2>. QED  BY <2>4, <2>5, <2>7, <2>8
<1>6. ASSUME k >= K  PROVE BitOf(l, k) = 0
  <2>1. C <= p
    BY <1>6, PowersGrow
  <2>2. l < p
    BY <1>1, <1>2, <2>1
  <2>3. BitOf(l, k) = (l \div p) % 2
    BY DEF BitOf
  <2> HIDE DEF p, n
  <2>4. l \div p = 0
    BY <1>1, <1>2, <2>2
  <2>. QED  BY <2>3, <2>4
<1>7. ~(k < K) => k >= K
  OBVIOUS
<1>. QED  BY <1>4, <1>5, <1>6, <1>7

LEMMA HalvesDisjoint ==
  ASSUME NEW K \in Nat, NEW C, C = Power(2, K), NEW u \in Nat, NEW v \in Nat,
         NEW l \in 0 .. C - 1, NEW m \in 0 .. C - 1, Disjoint(C * u + l, C * v + m)
  PROVE  Disjoint(u, v) /\ Disjoint(l, m)
<1>1. ASSUME NEW k \in Nat  PROVE BitOf(u, k) + BitOf(v, k) <= 1
  <2>1. BitOf(u, k) = BitOf(C * u + l, K + k) /\ BitOf(v, k) = BitOf(C * v + m, K + k)
    BY HalfBits
  <2>2. K + k \in Nat
    OBVIOUS
  <2>. QED  BY <2>1, <2>2 DEF Disjoint
<1>2. ASSUME NEW k \in Nat  PROVE BitOf(l, k) + BitOf(m, k) <= 1
  <2>1. /\ BitOf(l, k) = IF k < K THEN BitOf(C * u + l, k) ELSE 0
        /\ BitOf(m, k) = IF k < K THEN BitOf(C * v + m, k) ELSE 0
    BY HalfBits
  <2>2. BitOf(C * u + l, k) + BitOf(C * v + m, k) <= 1
    BY DEF Disjoint
  <2>. QED  BY <2>1, <2>2
<1>. QED  BY <1>1, <1>2 DEF Disjoint

\* A power of two has no bit in common with what has none below it or at its place.
LEMMA PlacesDisjoint ==
  ASSUME NEW c \in Nat, NEW j \in Nat
  PROVE  Disjoint(Power(2, j + 1) * c, Power(2, j))
<1> DEFINE X == Power(2, j + 1) * c
           Y == Power(2, j)
<1>1. Y \in Nat \ {0} /\ Power(2, j + 1) \in Nat /\ X \in Nat
  <2>1. j + 1 \in Nat
    OBVIOUS
  <2>2. \A n \in Nat : Power(2, n) \in Nat \ {0}
    BY TwoPowers
  <2>3. Y \in Nat \ {0} /\ Power(2, j + 1) \in Nat
    BY <2>1, <2>2
  <2> HIDE DEF Y
  <2>. QED  BY <2>3
<1>2. ASSUME NEW k \in Nat  PROVE BitOf(X, k) + BitOf(Y, k) <= 1
  <2> DEFINE p == Power(2, k)
  <2>1. p \in Nat \ {0}
    BY TwoPowers
  <2>2. BitOf(X, k) = (X \div p) % 2 /\ BitOf(Y, k) = (Y \div p) % 2
    BY DEF BitOf
  <2>3. CASE k <= j
    <3> DEFINE d == j - k
               q == Power(2, d)
    <3>1. d \in Nat /\ j = k + d /\ j + 1 = k + (d + 1)
      BY <2>3
    <3>2. q \in Nat /\ Power(2, j + 1) = p * (2 * q)
      <4> HIDE DEF d
      <4>1. d + 1 \in Nat
        BY <3>1
      <4>2. Power(2, k + (d + 1)) = Power(2, k) * Power(2, d + 1) /\ Power(2, d + 1) = 2 * q
        BY <3>1, <4>1, TwoPowers
      <4>. QED  BY <3>1, <4>2, TwoPowers
    <3> DEFINE w == 2 * (q * c)
    <3>3. X = p * w + 0 /\ w \in Nat /\ q * c \in Nat
      <4> HIDE DEF p, q
      <4>. QED  BY <2>1, <3>2
    <3>4. w % 2 = 0
      <4> DEFINE z == q * c
      <4>1. z \in Nat
        BY <3>3
      <4> HIDE DEF z
      <4>2. (2 * z) % 2 = 0
        BY <4>1
      <4>. QED  BY <4>2 DEF z
    <3> HIDE DEF p, w, X
    <3>5. (p * w + 0) \div p = w
      BY <2>1, <3>3, DivUnique
    <3>6. BitOf(X, k) = 0
      BY <2>2, <3>3, <3>4, <3>5
    <3>7. BitOf(Y, k) \in {0, 1}
      <4> HIDE DEF Y
      <4>. QED  BY <1>1, BitsAre
    <3>. QED  BY <3>6, <3>7
  <2>4. CASE k > j
    <3>1. Power(2, j + 1) <= p /\ Power(2, j + 1) = 2 * Y
      <4>1. j + 1 \in Nat /\ j + 1 <= k
        BY <2>4
      <4>2. Power(2, j + 1) <= Power(2, k)
        BY <4>1, PowersGrow
      <4>3. Power(2, j + 1) = 2 * Power(2, j)
        BY TwoPowers
      <4>. QED  BY <4>2, <4>3
    <3>2. Y < p
      BY <1>1, <2>1, <3>1
    <3> HIDE DEF p, X, Y
    <3>3. Y \div p = 0
      BY <1>1, <2>1, <3>2
    <3>4. BitOf(Y, k) = 0
      BY <2>2, <3>3
    <3>5. BitOf(X, k) \in {0, 1}
      BY <1>1, BitsAre
    <3>. QED  BY <3>4, <3>5
  <2>. QED  BY <2>3, <2>4
<1> HIDE DEF X, Y
<1>3. Disjoint(X, Y)
  BY <1>2 DEF Disjoint
<1>. QED  BY <1>3 DEF X, Y

LEMMA OrWordIs ==
  ASSUME NEW a \in Word, NEW b \in Word
  PROVE  OrWord(a, b) \in Word /\ (Disjoint(a, b) => OrWord(a, b) = a + b)
<1> DEFINE put(k) == Power(2, k) * Bit(BitOf(a, k) + BitOf(b, k) > 0)
           or == CHOOSE or : or = [k \in Nat |-> IF k = 0 THEN 0 ELSE or[k - 1] + put(k - 1)]
           step == [n \in Nat |-> [x \in Int |-> IF n = 0 THEN x ELSE x + put(n - 1)]]
<1>1. a \in Nat /\ b \in Nat /\ a < WordBase /\ b < WordBase /\ WordBase \in Nat
  BY WordAssumption DEF Word
<1>2. ASSUME NEW k \in Nat
      PROVE  /\ BitOf(a, k) \in {0, 1} /\ BitOf(b, k) \in {0, 1} /\ put(k) \in 0 .. Power(2, k)
             /\ Power(2, k) \in Nat
  <2>1. BitOf(a, k) \in {0, 1} /\ BitOf(b, k) \in {0, 1} /\ Power(2, k) \in Nat
    BY <1>1, BitsAre, TwoPowers
  <2> DEFINE p == Power(2, k)
  <2> HIDE DEF p
  <2>2. p * 0 = 0 /\ p * 1 = p
    BY <2>1 DEF p
  <2>. QED  BY <2>1, <2>2 DEF Bit, p
<1> HIDE DEF put
<1>3. step \in [Nat -> [Int -> Int]]
  <2>1. ASSUME NEW n \in Nat, NEW x \in Int
        PROVE  (IF n = 0 THEN x ELSE x + put(n - 1)) \in Int
    <3>1. CASE n # 0
      <4>1. n - 1 \in Nat
        BY <3>1
      <4>2. put(n - 1) \in 0 .. Power(2, n - 1) /\ Power(2, n - 1) \in Nat
        BY <1>2, <4>1
      <4>. QED  BY <3>1, <4>2
    <3>. QED  BY <3>1
  <2>. QED  BY <2>1
<1>4. \A n \in Nat, x \in Int : step[n][x] = IF n = 0 THEN x ELSE x + put(n - 1)
  OBVIOUS
<1> HIDE DEF step
<1>5. PICK f \in [Nat -> Int] : Stepwise(f, 0, step)
  <2> DEFINE S == Int
             z == 0
  <2>1. z \in S /\ step \in [Nat -> [S -> S]]
    BY <1>3
  <2> HIDE DEF S, z
  <2>2. \E f \in [Nat -> S] : Stepwise(f, z, step)
    BY <2>1, Recursion
  <2>. QED  BY <2>2 DEF S, z
<1>6. f = [k \in Nat |-> IF k = 0 THEN 0 ELSE f[k - 1] + put(k - 1)]
  <2>1. ASSUME NEW k \in Nat PROVE f[k] = IF k = 0 THEN 0 ELSE f[k - 1] + put(k - 1)
    <3>1. k # 0 => k - 1 \in Nat /\ f[k - 1] \in Int
      OBVIOUS
    <3>. QED  BY <1>4, <1>5, <3>1 DEF Stepwise
  <2>. QED  BY <2>1
<1>7. or = [k \in Nat |-> IF k = 0 THEN 0 ELSE or[k - 1] + put(k - 1)]
  BY <1>6
<1>8. OrWord(a, b) = or[WordBits]
  BY DEF OrWord, put, BitOf
<1> HIDE DEF or
<1>9. or[0] = 0 /\ \A n \in Nat : or[n + 1] = or[n] + put(n)
  BY <1>7
<1> DEFINE T == {n \in Nat : /\ or[n] \in 0 .. Power(2, n) - 1
                             /\ Disjoint(a, b) => or[n] = (a % Power(2, n)) + (b % Power(2, n))}
<1>10. 0 \in T
  <2>1. Power(2, 0) = 1 /\ a % 1 = 0 /\ b % 1 = 0
    BY <1>1, Powers
  <2>. QED  BY <1>9, <2>1
<1>11. ASSUME NEW n \in T  PROVE n + 1 \in T
  <2> DEFINE p == Power(2, n)
             i == BitOf(a, n)
             j == BitOf(b, n)
             c == a % p
             d == b % p
  <2>1. n \in Nat /\ n + 1 \in Nat /\ or[n] \in 0 .. p - 1 /\ (Disjoint(a, b) => or[n] = c + d)
    OBVIOUS
  <2>2. /\ a % Power(2, n + 1) = c + p * i /\ b % Power(2, n + 1) = d + p * j
        /\ i \in {0, 1} /\ j \in {0, 1}
    BY <1>1, <2>1, BitsAre
  <2>3. p \in Nat \ {0} /\ Power(2, n + 1) = 2 * p
    BY <2>1, TwoPowers
  <2>4. or[n + 1] = or[n] + put(n) /\ put(n) \in 0 .. p
    BY <1>2, <1>9, <2>1
  <2>5. put(n) = IF i + j > 0 THEN p ELSE 0
    <3>1. p * 0 = 0 /\ p * 1 = p
      BY <2>3
    <3>. QED  BY <3>1 DEF put, Bit
  <2>6. Disjoint(a, b) => i + j <= 1
    BY <2>1 DEF Disjoint
  <2>7. c \in Nat /\ d \in Nat
    <3> HIDE DEF p
    <3>1. a % p \in 0 .. p - 1 /\ b % p \in 0 .. p - 1
      BY <1>1, <2>3, DivSplit
    <3>. QED  BY <2>3, <3>1
  <2> HIDE DEF p, i, j, c, d
  <2>8. or[n + 1] \in 0 .. Power(2, n + 1) - 1
    BY <2>1, <2>3, <2>4
  <2>9. ASSUME Disjoint(a, b)
        PROVE  or[n + 1] = (a % Power(2, n + 1)) + (b % Power(2, n + 1))
    <3>1. i + j <= 1 /\ or[n] = c + d
      BY <2>1, <2>6, <2>9
    <3>2. put(n) = p * i + p * j
      BY <2>2, <2>3, <2>5, <3>1
    <3>3. p * i \in Nat /\ p * j \in Nat
      BY <2>2, <2>3
    <3>. QED  BY <2>2, <2>4, <2>7, <3>1, <3>2, <3>3
  <2>. QED  BY <2>1, <2>8, <2>9
<1>12. T \in SUBSET Nat
  OBVIOUS
<1> HIDE DEF T
<1>13. T = Nat
  BY <1>10, <1>11, <1>12, Induction
<1>14. WordBits \in Nat /\ Power(2, WordBits) = WordBase
  BY TwoPowers
<1>15. a % WordBase = a /\ b % WordBase = b
  <2> DEFINE B == WordBase
  <2>1. a \in 0 .. B - 1 /\ b \in 0 .. B - 1 /\ B \in Nat
    BY <1>1
  <2> HIDE DEF B
  <2>2. a % B = a /\ b % B = b
    BY <2>1
  <2>. QED  BY <2>2 DEF B
<1>16. or[WordBits] \in 0 .. WordBase - 1 /\ (Disjoint(a, b) => or[WordBits] = a + b)
  BY <1>13, <1>14, <1>15 DEF T
<1>. QED  BY <1>8, <1>16 DEF Word

LEMMA Or128Is ==
  ASSUME NEW x \in U128, NEW y \in U128
  PROVE  /\ Or128(x, y) \in U128
         /\ Disjoint(Value128(x), Value128(y)) => Value128(Or128(x, y)) = Value128(x) + Value128(y)
<1> DEFINE C == WordBase
           u == x.upper
           l == x.lower
           v == y.upper
           m == y.lower
<1>1. /\ u \in Word /\ l \in Word /\ v \in Word /\ m \in Word
      /\ C \in Nat /\ C = Power(2, WordBits) /\ WordBits \in Nat
  BY WordAssumption, TwoPowers DEF U128
<1>2. OrWord(u, v) \in Word /\ OrWord(l, m) \in Word
  BY <1>1, OrWordIs
<1>3. Or128(x, y) = [upper |-> OrWord(u, v), lower |-> OrWord(l, m)]
  BY DEF Or128
<1>4. /\ u \in 0 .. C - 1 /\ l \in 0 .. C - 1 /\ v \in 0 .. C - 1 /\ m \in 0 .. C - 1
      /\ u \in Nat /\ v \in Nat
  BY <1>1 DEF Word
<1>5. /\ Value128(x) = C * u + l /\ Value128(y) = C * v + m
      /\ Value128(Or128(x, y)) = C * OrWord(u, v) + OrWord(l, m)
  BY <1>3 DEF Value128
<1>6. ASSUME Disjoint(Value128(x), Value128(y))
      PROVE  Value128(Or128(x, y)) = Value128(x) + Value128(y)
  <2>0. Disjoint(C * u + l, C * v + m)
    BY <1>5, <1>6
  <2> HIDE DEF C, u, v, l, m
  <2>1. Disjoint(u, v) /\ Disjoint(l, m)
    BY <1>1, <1>4, <2>0, HalvesDisjoint
  <2>2. OrWord(u, v) = u + v /\ OrWord(l, m) = l + m
    BY <1>1, <2>1, OrWordIs
  <2>3. C * (u + v) + (l + m) = (C * u + l) + (C * v + m)
    BY <1>1, <1>4
  <2>. QED  BY <1>5, <2>2, <2>3
<1>. QED  BY <1>2, <1>3, <1>6 DEF U128

LEMMA Or256Is ==
  ASSUME NEW x \in U256, NEW y \in U256
  PROVE  /\ Or256(x, y) \in U256
         /\ Disjoint(Value256(x), Value256(y)) => Value256(Or256(x, y)) = Value256(x) + Value256(y)
<1> DEFINE C == Modulus128
           K == 2 * WordBits
           u == Value128(x.upper)
           l == Value128(x.lower)
           v == Value128(y.upper)
           m == Value128(y.lower)
           s == Or128(x.upper, y.upper)
           t == Or128(x.lower, y.lower)
<1>1. /\ C \in Nat /\ C = Power(2, K) /\ K \in Nat
      /\ u \in 0 .. C - 1 /\ l \in 0 .. C - 1 /\ v \in 0 .. C - 1 /\ m \in 0 .. C - 1
      /\ Value256(x) = C * u + l /\ Value256(y) = C * v + m
  BY Value256Range, TwoPowers
<1>2. x.upper \in U128 /\ x.lower \in U128 /\ y.upper \in U128 /\ y.lower \in U128
  BY DEF U256
<1>3. /\ s \in U128 /\ t \in U128
      /\ Disjoint(u, v) => Value128(s) = u + v
      /\ Disjoint(l, m) => Value128(t) = l + m
  BY <1>2, Or128Is
<1>4. Or256(x, y) = [upper |-> s, lower |-> t]
  BY DEF Or256
<1>5. Or256(x, y) \in U256
  BY <1>3, <1>4 DEF U256
<1>6. Value256(Or256(x, y)) = C * Value128(s) + Value128(t)
  BY <1>4 DEF Value256, Modulus128
<1>7. ASSUME Disjoint(Value256(x), Value256(y))
      PROVE  Value256(Or256(x, y)) = Value256(x) + Value256(y)
  <2>0. Disjoint(C * u + l, C * v + m)
    BY <1>1, <1>7
  <2> HIDE DEF C, K, u, v, l, m, s, t
  <2>1. u \in Nat /\ v \in Nat /\ l \in Nat /\ m \in Nat
    BY <1>1
  <2>2. Disjoint(u, v) /\ Disjoint(l, m)
    BY <1>1, <2>0, <2>1, HalvesDisjoint
  <2>3. Value128(s) = u + v /\ Value128(t) = l + m
    BY <1>3, <2>2
  <2>4. C * (u + v) + (l + m) = (C * u + l) + (C * v + m)
    BY <1>1, <2>1
  <2>. QED  BY <1>1, <1>6, <2>3, <2>4
<1>. QED  BY <1>5, <1>7

---------------------------------------------------------------------------
(* Division.                                                                *)

DivState == [mod : U256, div : U256, copyd : U256, adder : U256]

\* The loop of divmod256, with the divisor moved by j places: what is divided is
\* shared between the quotient found, which has no bit at place j or below, and
\* what is left, which is less than twice the divisor moved.
Dividing(s, R, L, j) ==
  /\ s \in DivState
  /\ Value256(s.copyd) = R * Power(2, j)
  /\ Value256(s.adder) = Power(2, j)
  /\ \E c \in Nat : Value256(s.div) = Power(2, j + 1) * c
  /\ L = Value256(s.div) * R + Value256(s.mod)
  /\ Value256(s.mod) < 2 * (R * Power(2, j))

Divided(s, R, L) ==
  /\ s.div \in U256 /\ s.mod \in U256
  /\ L = Value256(s.div) * R + Value256(s.mod) /\ Value256(s.mod) < R

\* A step of the loop.
LEMMA DivStepIs ==
  ASSUME NEW R \in Nat \ {0}, NEW L \in Nat, NEW j \in Nat, NEW s, Dividing(s, R, L, j)
  PROVE  /\ DivStep(s) \in DivState
         /\ Value256(DivStep(s).copyd) = (R * Power(2, j)) \div 2
         /\ Value256(DivStep(s).adder) = Power(2, j) \div 2
         /\ \E c \in Nat : Value256(DivStep(s).div) = Power(2, j) * c
         /\ L = Value256(DivStep(s).div) * R + Value256(DivStep(s).mod)
         /\ Value256(DivStep(s).mod) < R * Power(2, j)
<1> DEFINE t == DivStep(s)
           p == Power(2, j)
           D == R * p
           mv == Value256(s.mod)
           dv == Value256(s.div)
           sub == Sub256(s.mod, s.copyd)
           orr == Or256(s.div, s.adder)
<1>1. /\ s.mod \in U256 /\ s.div \in U256 /\ s.copyd \in U256 /\ s.adder \in U256
      /\ Value256(s.copyd) = D /\ Value256(s.adder) = p
      /\ L = dv * R + mv /\ mv < 2 * D
  BY DEF Dividing, DivState
<1>2. PICK c \in Nat : dv = Power(2, j + 1) * c
  BY DEF Dividing
<1>3. p \in Nat \ {0} /\ Power(2, j + 1) = 2 * p /\ Power(2, j + 1) \in Nat
  <2>1. p \in Nat \ {0} /\ Power(2, j + 1) = 2 * p
    BY TwoPowers
  <2> HIDE DEF p
  <2>. QED  BY <2>1
<1>4. mv \in 0 .. Modulus - 1 /\ dv \in Nat /\ D \in 0 .. Modulus - 1 /\ Modulus \in Nat
  BY <1>1, Value256Range
<1>5. Gte256(s.mod, s.copyd) <=> mv >= D
  BY <1>1, Compare256
<1>6. sub \in U256 /\ orr \in U256
  BY <1>1, Difference256, Or256Is
<1>7. mv >= D => Value256(sub) = mv - D
  <2>1. PICK borrow \in {0, 1} : mv - D = Value256(sub) - borrow * Modulus
    BY <1>1, Difference256
  <2>2. Value256(sub) \in 0 .. Modulus - 1
    BY <1>6, Value256Range
  <2> HIDE DEF mv, D, sub
  <2>. QED  BY <1>4, <2>1, <2>2
<1>8. Value256(orr) = dv + p
  <2>1. Disjoint(dv, p)
    BY <1>2, PlacesDisjoint
  <2>. QED  BY <1>1, <2>1, Or256Is
<1>9. /\ t.mod = IF Gte256(s.mod, s.copyd) THEN sub ELSE s.mod
      /\ t.div = IF Gte256(s.mod, s.copyd) THEN orr ELSE s.div
      /\ t.copyd = ShiftR256(s.copyd, 1) /\ t.adder = ShiftR256(s.adder, 1)
      /\ t = [mod |-> t.mod, div |-> t.div, copyd |-> t.copyd, adder |-> t.adder]
  BY DEF DivStep
<1>10. /\ t.copyd \in U256 /\ Value256(t.copyd) = D \div 2
       /\ t.adder \in U256 /\ Value256(t.adder) = p \div 2
  BY <1>1, <1>9, HalfOf256
<1> DEFINE tm == Value256(t.mod)
           td == Value256(t.div)
<1>11. /\ t.mod \in U256 /\ t.div \in U256
       /\ tm = IF mv >= D THEN mv - D ELSE mv
       /\ td = IF mv >= D THEN dv + p ELSE dv
  BY <1>1, <1>5, <1>6, <1>7, <1>8, <1>9
<1>12. t \in DivState
  BY <1>9, <1>10, <1>11 DEF DivState
<1> HIDE DEF t, p, mv, dv, sub, orr, tm, td
<1>13. D \in Nat /\ mv \in Nat /\ D = R * p
  BY <1>4
<1>14. \E b \in Nat : td = p * b
  <2>1. dv = p * (2 * c) /\ dv + p = p * (2 * c + 1)
    BY <1>2, <1>3
  <2>2. 2 * c \in Nat /\ 2 * c + 1 \in Nat
    OBVIOUS
  <2>. QED  BY <1>11, <2>1, <2>2
<1>15. (dv + p) * R = dv * R + D /\ dv * R \in Nat
  BY <1>3, <1>4, <1>13
<1> HIDE DEF D
<1>16. L = td * R + tm /\ tm < D
  <2>1. CASE mv >= D
    <3>1. td * R = dv * R + D /\ tm = mv - D
      BY <1>11, <1>15, <2>1
    <3>. QED  BY <1>1, <1>13, <1>15, <2>1, <3>1
  <2>2. CASE ~(mv >= D)
    <3>1. td * R = dv * R /\ tm = mv
      BY <1>11, <2>2
    <3>. QED  BY <1>1, <1>13, <1>15, <2>2, <3>1
  <2>. QED  BY <2>1, <2>2
<1>. QED  BY <1>10, <1>12, <1>14, <1>16 DEF t, D, p, td, tm

\* It leaves the divisor moved by a place less.
LEMMA DivStepKeeps ==
  ASSUME NEW R \in Nat \ {0}, NEW L \in Nat, NEW j \in Nat, NEW s, Dividing(s, R, L, j + 1)
  PROVE  Dividing(DivStep(s), R, L, j)
<1> DEFINE t == DivStep(s)
           p == Power(2, j)
           i == j + 1
<1>1. p \in Nat \ {0} /\ Power(2, i) = 2 * p /\ i \in Nat
  <2>1. Power(2, j) \in Nat \ {0} /\ Power(2, j + 1) = 2 * Power(2, j)
    BY TwoPowers
  <2>. QED  BY <2>1
<1>2. /\ t \in DivState
      /\ Value256(t.copyd) = (R * Power(2, i)) \div 2
      /\ Value256(t.adder) = Power(2, i) \div 2
      /\ \E c \in Nat : Value256(t.div) = Power(2, i) * c
      /\ L = Value256(t.div) * R + Value256(t.mod)
      /\ Value256(t.mod) < R * Power(2, i)
  <2>1. Dividing(s, R, L, i)
    OBVIOUS
  <2> HIDE DEF i
  <2>. QED  BY <1>1, <2>1, DivStepIs
<1>3. R * Power(2, i) = 2 * (R * p) /\ (R * Power(2, i)) \div 2 = R * p /\ Power(2, i) \div 2 = p
  <2> DEFINE q == Power(2, i)
  <2>1. q = 2 * p
    BY <1>1
  <2> HIDE DEF p, q
  <2>2. R * q = 2 * (R * p) /\ R * p \in Nat
    BY <1>1, <2>1
  <2> DEFINE z == R * p
  <2>3. z \in Nat /\ R * q = 2 * z
    BY <2>2
  <2> HIDE DEF z
  <2>4. (2 * z) \div 2 = z /\ (2 * p) \div 2 = p
    BY <1>1, <2>3
  <2>. QED  BY <2>1, <2>3, <2>4 DEF q, z
<1>4. /\ Value256(t.copyd) = R * p /\ Value256(t.adder) = p
      /\ Value256(t.mod) < 2 * (R * p)
  BY <1>2, <1>3
<1> HIDE DEF t
<1>. QED  BY <1>2, <1>4 DEF Dividing, t

LEMMA Equal256 ==
  ASSUME NEW x \in U256, NEW y \in U256
  PROVE  x = y <=> Value256(x) = Value256(y)
<1> DEFINE C == Modulus128
           u == Value128(x.upper)
           l == Value128(x.lower)
           v == Value128(y.upper)
           m == Value128(y.lower)
<1>1. x.upper \in U128 /\ x.lower \in U128 /\ y.upper \in U128 /\ y.lower \in U128
  BY DEF U256
<1>2. x = y <=> x.upper = y.upper /\ x.lower = y.lower
  BY DEF U256
<1>3. (x.upper = y.upper <=> u = v) /\ (x.lower = y.lower <=> l = m)
  BY <1>1, Compare128
<1>4. /\ u \in 0 .. C - 1 /\ v \in 0 .. C - 1 /\ l \in 0 .. C - 1 /\ m \in 0 .. C - 1
      /\ C \in Nat \ {0} /\ Value256(x) = C * u + l /\ Value256(y) = C * v + m
  BY Value256Range
<1> HIDE DEF C, u, l, v, m
<1>5. ASSUME C * u + l = C * v + m  PROVE u = v /\ l = m
  <2>1. u \in Nat /\ v \in Nat
    BY <1>4
  <2>2. /\ (C * u + l) \div C = u /\ (C * u + l) % C = l
        /\ (C * v + m) \div C = v /\ (C * v + m) % C = m
    BY <1>4, <2>1, DivUnique
  <2>. QED  BY <1>5, <2>2
<1>. QED  BY <1>2, <1>3, <1>4, <1>5

\* Where it starts: the divisor is moved by the difference of the numbers of bits,
\* or by one place less when that is too far, and loses no bit.
LEMMA StartIs ==
  ASSUME NEW l \in U256, NEW r \in U256, r # Zero256, ~Gt256(r, l)
  PROVE  \E j \in Nat : Dividing(Start(l, r), Value256(r), Value256(l), j)
<1> DEFINE R == Value256(r)
           L == Value256(l)
           W == 4 * WordBits
           bl == Bits256(l)
           br == Bits256(r)
           n == bl - br
           one == Small256(1)
           far == ShiftL256(r, n)
           unit == ShiftL256(one, n)
           high == Gt256(far, l)
           s == Start(l, r)
<1>1. /\ R \in Nat /\ L \in 0 .. Modulus - 1 /\ L \in Nat /\ Modulus \in Nat
      /\ Modulus = Power(2, W) /\ W \in Nat
  BY Value256Range, TwoPowers
<1>2. R <= L
  <2>1. Gt256(r, l) <=> R > L
    BY Compare256
  <2> HIDE DEF R, L
  <2>. QED  BY <1>1, <2>1
<1>3. R # 0
  <2>1. r = Zero256 <=> Value256(r) = Value256(Zero256)
    BY Zero256Is, Equal256
  <2>. QED  BY <2>1, Zero256Is
<1>4. Bits(L, bl) /\ Bits(R, br) /\ bl \in 0 .. W /\ br \in 0 .. W
  BY Bits256Is
<1> HIDE DEF R, L, W, bl, br
<1> DEFINE b == br - 1
           p == Power(2, n)
           q == Power(2, b)
<1>5. br > 0 /\ b \in Nat /\ br = b + 1 /\ q <= R /\ R < Power(2, br)
  <2>1. Power(2, 0) = 1
    BY Powers
  <2>2. br \in Nat /\ R < Power(2, br) /\ (br > 0 => q <= R)
    BY <1>4 DEF Bits
  <2>3. br # 0
    BY <1>1, <1>3, <2>1, <2>2
  <2>. QED  BY <2>2, <2>3
<1>6. L < Power(2, bl)
  BY <1>4 DEF Bits
<1>7. n \in Nat /\ bl = br + n /\ bl = b + (n + 1)
  <2>1. CASE bl < br
    <3>1. Power(2, bl) <= Power(2, b)
      <4>1. bl \in Nat /\ bl <= b
        BY <1>4, <1>5, <2>1
      <4> HIDE DEF b
      <4>. QED  BY <1>5, <4>1, PowersGrow
    <3>2. Power(2, bl) \in Nat /\ Power(2, b) \in Nat
      <4> HIDE DEF b
      <4>. QED  BY <1>4, <1>5, TwoPowers
    <3>. QED  BY <1>1, <1>2, <1>5, <1>6, <3>1, <3>2
  <2>2. CASE ~(bl < br)
    BY <1>4, <1>5, <2>2
  <2>. QED  BY <2>1, <2>2
<1> HIDE DEF b, n
<1> DEFINE m == W - n
<1>8. /\ p \in Nat \ {0} /\ q \in Nat \ {0} /\ Power(2, n + 1) = 2 * p
      /\ Power(2, br) = 2 * q /\ Power(2, bl) = q * (2 * p) /\ Power(2, bl) = (2 * q) * p
  <2>1. n + 1 \in Nat
    BY <1>7
  <2>2. p \in Nat \ {0} /\ Power(2, n + 1) = 2 * p
    BY <1>7, TwoPowers
  <2>3. q \in Nat \ {0} /\ Power(2, br) = 2 * q
    BY <1>5, TwoPowers
  <2>4. Power(2, b + (n + 1)) = q * Power(2, n + 1)
    BY <1>5, <2>1, TwoPowers
  <2>5. Power(2, bl) = q * (2 * p)
    BY <1>7, <2>2, <2>4
  <2>6. q * (2 * p) = (2 * q) * p
    <3> HIDE DEF p, q
    <3>. QED  BY <2>2, <2>3
  <2>. QED  BY <2>2, <2>3, <2>5, <2>6
<1>9. m \in Nat \ {0} /\ W = m + n /\ br <= m /\ n \in 0 .. W
  BY <1>1, <1>4, <1>5, <1>7
<1> HIDE DEF m
<1>10. Modulus = Power(2, m) * p /\ Power(2, m) \in Nat \ {0} /\ Power(2, br) <= Power(2, m)
       /\ Power(2, m) > 1
  <2>1. Power(2, m) \in Nat \ {0} /\ Power(2, m) * p = Modulus
    BY <1>1, <1>7, <1>9, TwoPowers
  <2>2. Power(2, br) <= Power(2, m)
    BY <1>4, <1>9, PowersGrow
  <2>. QED  BY <1>8, <2>1, <2>2
<1> HIDE DEF p, q
<1>11. R < Power(2, m) /\ R % Power(2, m) = R /\ 1 % Power(2, m) = 1
  <2> DEFINE M == Power(2, m)
  <2>1. R < M /\ M \in Nat /\ M > 1
    BY <1>1, <1>5, <1>8, <1>10
  <2> HIDE DEF M
  <2>2. R % M = R /\ 1 % M = 1
    BY <1>1, <2>1
  <2>. QED  BY <2>1, <2>2 DEF M
<1>12. one \in U256 /\ Value256(one) = 1
  <2>1. 0 \in Word /\ 1 \in Word
    BY WordAssumption DEF Word
  <2>2. one = [upper |-> Zero128, lower |-> One128] /\ one \in U256
    BY Zero128Is, OneIsOne DEF Small256, One128, U256
  <2>. QED  BY <2>2, Zero128Is, OneIsOne, WordAssumption DEF Value256
<1>13. W - n = m
  BY <1>1, <1>7, <1>9
<1>14. far \in U256 /\ Value256(far) = R * p
  <2>1. far \in U256 /\ Value256(far) = (R % Power(2, W - n)) * p
    BY <1>9, ShiftL256Is DEF W, R, p
  <2>. QED  BY <1>11, <1>13, <2>1
<1>15. unit \in U256 /\ Value256(unit) = p
  <2>1. unit \in U256 /\ Value256(unit) = (Value256(one) % Power(2, W - n)) * p
    BY <1>9, <1>12, ShiftL256Is DEF W, p
  <2>. QED  BY <1>8, <1>11, <1>12, <1>13, <2>1
<1>16. high <=> R * p > L
  <2>1. high <=> Value256(far) > Value256(l)
    BY <1>14, Compare256
  <2>. QED  BY <1>14, <2>1 DEF L
<1>17. L < 2 * (R * p)
  <2>1. 2 * p \in Nat /\ q * (2 * p) <= R * (2 * p)
    <3>1. 2 * p \in Nat /\ R - q \in Nat
      BY <1>1, <1>5, <1>8
    <3>2. (R - q) * (2 * p) \in Nat
      BY <3>1
    <3>3. (R - q) * (2 * p) = R * (2 * p) - q * (2 * p)
      BY <1>1, <1>8
    <3>4. R * (2 * p) \in Int /\ q * (2 * p) \in Int
      BY <1>1, <1>8
    <3>. QED  BY <3>1, <3>2, <3>3, <3>4
  <2>2. R * (2 * p) = 2 * (R * p)
    BY <1>1, <1>8
  <2>3. R * (2 * p) \in Nat /\ q * (2 * p) \in Nat
    BY <1>1, <1>8
  <2>. QED  BY <1>1, <1>6, <1>8, <2>1, <2>2, <2>3
<1>18. /\ s.mod = l /\ s.div = Zero256
       /\ s.copyd = IF high THEN ShiftR256(far, 1) ELSE far
       /\ s.adder = IF high THEN ShiftR256(unit, 1) ELSE unit
       /\ s = [mod |-> s.mod, div |-> s.div, copyd |-> s.copyd, adder |-> s.adder]
  BY DEF Start, n, bl, br
<1>19. /\ ShiftR256(far, 1) \in U256 /\ Value256(ShiftR256(far, 1)) = (R * p) \div 2
       /\ ShiftR256(unit, 1) \in U256 /\ Value256(ShiftR256(unit, 1)) = p \div 2
  BY <1>14, <1>15, HalfOf256
<1>20. s \in DivState
  BY <1>14, <1>15, <1>18, <1>19, Zero256Is DEF DivState
<1>21. /\ Value256(s.div) = 0 /\ Value256(s.mod) = L
       /\ Value256(s.copyd) = IF high THEN (R * p) \div 2 ELSE R * p
       /\ Value256(s.adder) = IF high THEN p \div 2 ELSE p
  BY <1>14, <1>15, <1>18, <1>19, Zero256Is DEF L
<1> HIDE DEF far, unit, high, s, one
<1>22. ASSUME NEW j \in Nat
       PROVE  /\ \E c \in Nat : Value256(s.div) = Power(2, j + 1) * c
              /\ L = Value256(s.div) * R + Value256(s.mod)
  <2>1. j + 1 \in Nat
    OBVIOUS
  <2>2. Power(2, j + 1) \in Nat
    BY <2>1, TwoPowers
  <2> DEFINE z == Power(2, j + 1)
  <2>3. z * 0 = 0
    <3> HIDE DEF z
    <3>. QED  BY <2>2 DEF z
  <2>4. 0 * R + L = L
    BY <1>1
  <2>. QED  BY <1>21, <2>3, <2>4
<1>23. CASE ~high
  <2>1. Value256(s.mod) < 2 * (R * p) /\ Value256(s.copyd) = R * p /\ Value256(s.adder) = p
    BY <1>17, <1>21, <1>23
  <2>2. Dividing(s, R, L, n)
    BY <1>7, <1>20, <1>22, <2>1 DEF Dividing, p
  <2>. QED  BY <1>7, <2>2 DEF s, R, L
<1>24. CASE high
  <2>1. L < R * p
    BY <1>1, <1>8, <1>16, <1>24
  <2>2. n # 0
    <3>1. n = 0 => p = 1
      BY Powers DEF p
    <3>2. p = 1 => R * p = R
      BY <1>1
    <3>. QED  BY <1>1, <1>2, <2>1, <3>1, <3>2
  <2> DEFINE i == n - 1
             h == Power(2, i)
  <2>3. i \in Nat /\ n = i + 1
    BY <1>7, <2>2
  <2>4. h \in Nat \ {0} /\ p = 2 * h
    <3> HIDE DEF i
    <3>. QED  BY <2>3, TwoPowers DEF p
  <2> HIDE DEF i, h
  <2>5. p \div 2 = h /\ (R * p) \div 2 = R * h /\ R * p = 2 * (R * h)
    <3>1. R * p = 2 * (R * h) /\ R * h \in Nat
      BY <1>1, <2>4
    <3> DEFINE z == R * h
    <3>2. R * p = 2 * z /\ z \in Nat
      BY <3>1
    <3> HIDE DEF z
    <3>3. (2 * z) \div 2 = z /\ (2 * h) \div 2 = h
      BY <2>4, <3>2
    <3>. QED  BY <2>4, <3>2, <3>3 DEF z
  <2>6. Value256(s.mod) < 2 * (R * h) /\ Value256(s.copyd) = R * h /\ Value256(s.adder) = h
    BY <1>21, <1>24, <2>1, <2>5
  <2>7. Dividing(s, R, L, i)
    BY <1>20, <1>22, <2>3, <2>6 DEF Dividing, h
  <2>. QED  BY <2>3, <2>7 DEF s, R, L
<1>. QED  BY <1>23, <1>24

\* divmod256 computes the quotient and the remainder of its operands: for words
\* of every width, every number and every divisor but zero.
THEOREM Quotient256 ==
  ASSUME NEW l \in U256, NEW r \in U256 \ {Zero256}
  PROVE  /\ Divmod256(l, r).div \in U256 /\ Divmod256(l, r).mod \in U256
         /\ Value256(l) = Value256(Divmod256(l, r).div) * Value256(r)
                          + Value256(Divmod256(l, r).mod)
         /\ Value256(Divmod256(l, r).mod) < Value256(r)
<1> DEFINE R == Value256(r)
           L == Value256(l)
           loop == CHOOSE loop : loop =
             [s \in DivState |-> IF Gte256(s.mod, r) THEN loop[DivStep(s)] ELSE s]
           result(s) == [div |-> s.div, mod |-> s.mod]
           step == [s \in DivState |-> DivStep(s)]
           G == {s \in DivState : Gte256(s.mod, r)}
           out == [s \in DivState |-> s]
<1>1. R \in Nat \ {0} /\ L \in Nat
  <2>1. R \in Nat /\ L \in Nat
    BY Value256Range
  <2>2. r = Zero256 <=> Value256(r) = Value256(Zero256)
    BY Zero256Is, Equal256
  <2>. QED  BY <2>1, <2>2, Zero256Is
<1>2. ASSUME NEW s \in DivState
      PROVE  DivStep(s) \in DivState /\ Value256(s.mod) \in Nat
             /\ (Gte256(s.mod, r) <=> Value256(s.mod) >= R)
  <2>1. s.mod \in U256 /\ s.div \in U256 /\ s.copyd \in U256 /\ s.adder \in U256
    BY DEF DivState
  <2>2. /\ Sub256(s.mod, s.copyd) \in U256 /\ Or256(s.div, s.adder) \in U256
        /\ ShiftR256(s.copyd, 1) \in U256 /\ ShiftR256(s.adder, 1) \in U256
    BY <2>1, Difference256, Or256Is, HalfOf256
  <2>3. DivStep(s) \in DivState
    BY <2>1, <2>2 DEF DivStep, DivState
  <2>4. Value256(s.mod) \in Nat
    BY <2>1, Value256Range
  <2>. QED  BY <2>1, <2>3, <2>4, Compare256
<1>3. loop = [s \in DivState |-> IF Gte256(s.mod, r) THEN loop[DivStep(s)] ELSE s]
  <2>1. step \in [DivState -> DivState]
    BY <1>2
  <2>2. \A s \in DivState : /\ step[s] = DivStep(s) /\ out[s] = s
                            /\ s \in G <=> Gte256(s.mod, r)
    OBVIOUS
  <2> HIDE DEF step, out, G
  <2>3. PICK f : Loops(f, DivState, G, step, out)
    BY <2>1, LoopExists
  <2>4. f = [s \in DivState |-> IF Gte256(s.mod, r) THEN f[DivStep(s)] ELSE s]
    BY <2>2, <2>3 DEF Loops
  <2>. QED  BY <2>4
<1>4. Divmod256(l, r) = IF Gt256(r, l) THEN [div |-> Zero256, mod |-> l]
                                       ELSE result(loop[Start(l, r)])
  BY DEF Divmod256, DivState
<1> HIDE DEF loop
<1>5. ASSUME NEW s \in DivState
      PROVE  loop[s] = IF Value256(s.mod) >= R THEN loop[DivStep(s)] ELSE s
  BY <1>2, <1>3
<1> HIDE DEF R, L
<1> DEFINE T == {j \in Nat : \A s \in DivState : Dividing(s, R, L, j) => Divided(loop[s], R, L)}
<1>6. ASSUME NEW j \in Nat, NEW s \in DivState, Dividing(s, R, L, j), ~(Value256(s.mod) >= R)
      PROVE  Divided(loop[s], R, L)
  <2>1. loop[s] = s
    BY <1>5, <1>6
  <2>2. s.div \in U256 /\ s.mod \in U256
    BY DEF DivState
  <2>. QED  BY <1>1, <1>2, <1>6, <2>1, <2>2 DEF Dividing, Divided
<1>7. 0 \in T
  <2>1. ASSUME NEW s \in DivState, Dividing(s, R, L, 0), Value256(s.mod) >= R
        PROVE  Divided(loop[s], R, L)
    <3> DEFINE t == DivStep(s)
    <3>1. /\ t \in DivState /\ L = Value256(t.div) * R + Value256(t.mod)
          /\ Value256(t.mod) < R * Power(2, 0)
      BY <1>1, <2>1, DivStepIs
    <3>2. Power(2, 0) = 1 /\ R * 1 = R
      BY <1>1, Powers
    <3>3. loop[s] = loop[t]
      BY <1>5, <2>1
    <3> HIDE DEF t
    <3>4. Value256(t.mod) < R /\ Value256(t.mod) \in Nat
      BY <1>2, <3>1, <3>2
    <3>5. loop[t] = t
      BY <1>1, <1>5, <3>1, <3>4
    <3>6. t.div \in U256 /\ t.mod \in U256
      BY <3>1 DEF DivState
    <3>. QED  BY <3>1, <3>3, <3>4, <3>5, <3>6 DEF Divided
  <2>. QED  BY <1>6, <2>1
<1>8. ASSUME NEW j \in T  PROVE j + 1 \in T
  <2>1. ASSUME NEW s \in DivState, Dividing(s, R, L, j + 1), Value256(s.mod) >= R
        PROVE  Divided(loop[s], R, L)
    <3>1. j \in Nat
      OBVIOUS
    <3>2. Dividing(DivStep(s), R, L, j)
      BY <1>1, <2>1, <3>1, DivStepKeeps
    <3>3. DivStep(s) \in DivState
      BY <1>2
    <3>4. Divided(loop[DivStep(s)], R, L)
      BY <3>2, <3>3
    <3>5. loop[s] = loop[DivStep(s)]
      BY <1>5, <2>1
    <3>. QED  BY <3>4, <3>5
  <2>2. j + 1 \in Nat
    OBVIOUS
  <2>. QED  BY <1>6, <2>1, <2>2
<1>9. T \in SUBSET Nat
  OBVIOUS
<1> HIDE DEF T
<1>10. T = Nat
  BY <1>7, <1>8, <1>9, Induction
<1> DEFINE d == Divmod256(l, r)
<1>11. CASE Gt256(r, l)
  <2>1. d.div = Zero256 /\ d.mod = l
    BY <1>4, <1>11
  <2>2. L < R
    <3>1. R > L
      BY <1>11, Compare256 DEF R, L
    <3>. QED  BY <1>1, <3>1
  <2>3. 0 * R + L = L
    BY <1>1
  <2>. QED  BY <2>1, <2>2, <2>3, Zero256Is DEF R, L
<1>12. CASE ~Gt256(r, l)
  <2> DEFINE s == Start(l, r)
  <2>1. PICK j \in Nat : Dividing(s, R, L, j)
    BY <1>12, StartIs DEF R, L
  <2>2. s \in DivState
    BY <2>1 DEF Dividing
  <2>3. Divided(loop[s], R, L)
    BY <1>10, <2>1, <2>2 DEF T
  <2>4. d.div = loop[s].div /\ d.mod = loop[s].mod
    BY <1>4, <1>12
  <2>. QED  BY <2>3, <2>4 DEF Divided, R, L
<1>. QED  BY <1>11, <1>12
=============================================================================
