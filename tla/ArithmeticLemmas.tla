------------------------- MODULE ArithmeticLemmas -------------------------
(* Facts about numbers that the proofs share: about the remainder, which     *)
(* index arithmetic rests on (what wrapping subtraction returns, and that    *)
(* masking an index that has already wrapped yields the slot of the index    *)
(* that has not), and induction and recursion over the naturals, with sets   *)
(* and functions where the library's theorems take operators.                *)
EXTENDS Integers, TLAPS, WellFoundedInduction

(* Division with remainder.                                                  *)
LEMMA DivMod ==
  ASSUME NEW n \in Nat, n > 0, NEW a \in Int
  PROVE  /\ a \div n \in Int
         /\ a % n \in 0..n - 1
         /\ a = n * (a \div n) + (a % n)
  OBVIOUS

(* Quotient and remainder are unique.                                        *)
LEMMA DivModUnique ==
  ASSUME NEW n \in Nat, n > 0, NEW q1 \in Int, NEW q2 \in Int,
         NEW r1 \in 0..n - 1, NEW r2 \in 0..n - 1,
         n * q1 + r1 = n * q2 + r2
  PROVE  r1 = r2 /\ q1 = q2
<1>1. ~ (q1 < q2)
  <2>1. SUFFICES ASSUME q1 + 1 <= q2 PROVE FALSE
    OBVIOUS
  <2>2. n * (q2 - q1) >= n
    BY <2>1
  <2>3. n * q2 - n * q1 = n * (q2 - q1)
    OBVIOUS
  <2> QED BY <2>2, <2>3
<1>2. ~ (q2 < q1)
  <2>1. SUFFICES ASSUME q2 + 1 <= q1 PROVE FALSE
    OBVIOUS
  <2>2. n * (q1 - q2) >= n
    BY <2>1
  <2>3. n * q1 - n * q2 = n * (q1 - q2)
    OBVIOUS
  <2> QED BY <2>2, <2>3
<1> QED BY <1>1, <1>2

(* A number written as a multiple of n plus r < n has remainder r.           *)
LEMMA ModUnique ==
  ASSUME NEW n \in Nat, n > 0, NEW a \in Int, NEW q \in Int,
         NEW r \in 0..n - 1, a = n * q + r
  PROVE  a % n = r
<1>1. a \div n \in Int /\ a % n \in 0..n - 1 /\ a = n * (a \div n) + (a % n)
  BY DivMod
<1>2. n * (a \div n) + (a % n) = n * q + r
  BY <1>1
<1> QED BY <1>1, <1>2, DivModUnique

(* A number below n is its own remainder.                                    *)
LEMMA ModSmall ==
  ASSUME NEW n \in Nat, n > 0, NEW a \in 0..n - 1
  PROVE  a % n = a
<1>1. a = n * 0 + a
  OBVIOUS
<1> QED BY <1>1, ModUnique

(* Reducing modulo a multiple of n first does not change the remainder.      *)
LEMMA ModMod ==
  ASSUME NEW n \in Nat, n > 0, NEW w \in Nat, w > 0, NEW a \in Int
  PROVE  (a % (w * n)) % n = a % n
<1> DEFINE b == a % (w * n)
           q == a \div (w * n)
           p == b \div n
           r == b % n
<1>1. w * n \in Nat /\ w * n > 0
  OBVIOUS
<1>2. q \in Int /\ b \in 0..w * n - 1 /\ a = (w * n) * q + b
  BY <1>1, DivMod
<1>3. b \in Int
  BY <1>1, <1>2
<1>4. p \in Int /\ r \in 0..n - 1 /\ b = n * p + r
  BY <1>3, DivMod
<1> HIDE DEF b, q, p, r
<1>5. a = n * (w * q + p) + r
  <2>1. (w * n) * q = n * (w * q)
    BY <1>2
  <2>2. n * (w * q + p) = n * (w * q) + n * p
    BY <1>2, <1>4
  <2> QED BY <2>1, <2>2, <1>2, <1>4
<1>6. w * q + p \in Int
  BY <1>2, <1>4
<1>7. a % n = r
  BY <1>4, <1>5, <1>6, ModUnique
<1> QED BY <1>7 DEF r, b

(* The left term of a sum may be reduced first.                              *)
LEMMA ModAdd ==
  ASSUME NEW n \in Nat, n > 0, NEW a \in Int, NEW b \in Int
  PROVE  ((a % n) + b) % n = (a + b) % n
<1> DEFINE r == a % n
           q == a \div n
           s == (r + b) % n
           p == (r + b) \div n
<1>1. q \in Int /\ r \in 0..n - 1 /\ a = n * q + r
  BY DivMod
<1>2. p \in Int /\ s \in 0..n - 1 /\ r + b = n * p + s
  BY <1>1, DivMod
<1> HIDE DEF r, q, s, p
<1>3. n * (q + p) = n * q + n * p
  BY <1>1, <1>2
<1>4. a + b = n * (q + p) + s
  BY <1>1, <1>2, <1>3
<1>5. q + p \in Int /\ a + b \in Int
  BY <1>1, <1>2
<1>6. (a + b) % n = s
  BY <1>2, <1>4, <1>5, ModUnique
<1> QED BY <1>6 DEF s, r

(* Wrapping subtraction of two counters less than n apart is exact.          *)
LEMMA ModSub ==
  ASSUME NEW n \in Nat, n > 0, NEW a \in Nat, NEW b \in Nat,
         b <= a, a - b < n
  PROVE  ((a % n) - (b % n)) % n = a - b
<1> DEFINE s == -(b % n)
           q == b \div n
<1>1. q \in Int /\ -s \in 0..n - 1 /\ s \in Int /\ b = n * q - s
  BY DivMod
<1>2. (a % n) - (b % n) = (a % n) + s
  BY DivMod
<1> HIDE DEF s, q
<1>3. ((a % n) + s) % n = (a + s) % n
  <2>1. a \in Int /\ s \in Int
    BY <1>1
  <2> QED BY <2>1, ModAdd
<1>4. a + s = n * q + (a - b) /\ a + s \in Int /\ a - b \in 0..n - 1
  BY <1>1
<1>5. (a + s) % n = a - b
  BY <1>1, <1>4, ModUnique
<1> QED BY <1>2, <1>3, <1>5

(* Two counters less than n apart have different remainders.                 *)
LEMMA ModDistinct ==
  ASSUME NEW n \in Nat, n > 0, NEW a \in Nat, NEW b \in Nat,
         b < a, a - b < n
  PROVE  a % n # b % n
<1>1. SUFFICES ASSUME a % n = b % n PROVE FALSE
  OBVIOUS
<1>2. b <= a
  OBVIOUS
<1>3. ((a % n) - (b % n)) % n = a - b
  BY <1>2, ModSub
<1>4. a % n \in 0..n - 1
  BY DivMod
<1>5. (a % n) - (b % n) = 0
  BY <1>1, <1>4
<1>6. 0 % n = 0
  BY ModSmall
<1> QED BY <1>3, <1>5, <1>6
-----------------------------------------------------------------------------
(* A set of naturals that has a member has a least one.                      *)
LEMMA LeastNatural ==
  ASSUME NEW T \in SUBSET Nat, T # {}
  PROVE  \E x \in T : \A y \in T : x <= y
<1>1. PICK x \in T : \A y \in T : ~ (<<y, x>> \in OpToRel(<, Nat))
  BY WFMin, NatLessThanWellFounded
<1>2. ASSUME NEW y \in T, ~ (x <= y) PROVE FALSE
  <2>1. y < x
    BY <1>2
  <2>2. <<y, x>> \in OpToRel(<, Nat)
    BY <2>1 DEF OpToRel
  <2> QED BY <1>1, <2>2
<1> QED BY <1>2

(* Induction, with the induction hypothesis as membership of a set.          *)
LEMMA Induction ==
  ASSUME NEW S, 0 \in S, \A n \in Nat : n \in S => n + 1 \in S
  PROVE  \A n \in Nat : n \in S
<1> SUFFICES ASSUME Nat \ S # {} PROVE FALSE
  OBVIOUS
<1>1. PICK x \in Nat \ S : \A y \in Nat \ S : x <= y
  BY LeastNatural
<1>2. x # 0 /\ x - 1 \in Nat
  BY <1>1
<1>3. x - 1 \in S
  BY <1>1, <1>2
<1> QED BY <1>1, <1>2, <1>3

(* Induction up to a bound.                                                  *)
LEMMA BoundedInduction ==
  ASSUME NEW n \in Nat, NEW S, 0 \in S, \A i \in 1..n : i - 1 \in S => i \in S
  PROVE  \A i \in 0..n : i \in S
<1> DEFINE T == {i \in Nat : i <= n => i \in S}
<1>1. 0 \in T
  OBVIOUS
<1>2. ASSUME NEW i \in Nat, i \in T PROVE i + 1 \in T
  <2>1. CASE i + 1 <= n
    <3>1. i + 1 \in 1..n /\ (i + 1) - 1 = i
      BY <2>1
    <3> QED BY <1>2, <2>1, <3>1
  <2> QED BY <2>1
<1> HIDE DEF T
<1>3. \A i \in Nat : i \in T
  BY <1>1, <1>2, Induction
<1> QED BY <1>3 DEF T

(* Definition by recursion: a value from X for 0, and a step for each n.     *)
StepsOn(X) == [Nat -> [X -> X]]
Sequels(X, first, step) ==
  {f \in [Nat -> X] : f[0] = first /\ \A n \in Nat : f[n + 1] = step[n][f[n]]}

(* There is a function that is defined so.                                   *)
LEMMA Recursion ==
  ASSUME NEW X, NEW first \in X, NEW step \in StepsOn(X)
  PROVE  Sequels(X, first, step) # {}
<1> USE DEF StepsOn
<1> SUFFICES \E f \in [Nat -> X] : f[0] = first /\ \A n \in Nat : f[n + 1] = step[n][f[n]]
  BY DEF Sequels
<1> DEFINE Good(n, g) == g[0] = first /\ \A i \in 0..(n - 1) : g[i + 1] = step[i][g[i]]
<1> DEFINE S == {n \in Nat : \E g \in [0..n -> X] : Good(n, g)}
<1>0. \A n \in Nat, x \in X : step[n][x] \in X
  OBVIOUS
<1>1. 0 \in S
  <2>1. [i \in 0..0 |-> first] \in [0..0 -> X] /\ Good(0, [i \in 0..0 |-> first])
    OBVIOUS
  <2> QED BY <2>1
<1>2. ASSUME NEW n \in Nat, n \in S PROVE n + 1 \in S
  <2>1. PICK g \in [0..n -> X] : Good(n, g)
    BY <1>2
  <2> DEFINE x == step[n][g[n]]
             h == [i \in 0..(n + 1) |-> IF i = n + 1 THEN x ELSE g[i]]
  <2>2. x \in X
    BY <1>0
  <2> HIDE DEF x
  <2>3. h \in [0..(n + 1) -> X]
    <3>1. ASSUME NEW i \in 0..(n + 1) PROVE (IF i = n + 1 THEN x ELSE g[i]) \in X
      <4>1. CASE i = n + 1
        BY <2>2, <4>1
      <4>2. CASE i # n + 1
        BY <4>2
      <4> QED BY <4>1, <4>2
    <3> QED BY <3>1
  <2>4. \A i \in 0..n : h[i] = g[i]
    OBVIOUS
  <2>5. h[n + 1] = step[n][g[n]]
    BY DEF x
  <2> HIDE DEF h
  <2>6. ASSUME NEW i \in 0..n PROVE h[i + 1] = step[i][h[i]]
    <3>1. CASE i = n
      BY <2>4, <2>5, <3>1
    <3>2. CASE i # n
      <4>1. i \in 0..(n - 1) /\ i + 1 \in 0..n
        BY <3>2
      <4> QED BY <2>1, <2>4, <4>1
    <3> QED BY <3>1, <3>2
  <2>7. h[0] = first
    BY <2>1, <2>4
  <2>8. Good(n + 1, h)
    BY <2>6, <2>7
  <2> QED BY <2>3, <2>8
<1>3. \A n \in Nat : n \in S
  <2> HIDE DEF S
  <2> QED BY <1>1, <1>2, Induction
<1>4. ASSUME NEW n \in Nat, NEW m \in Nat, NEW g \in [0..n -> X], NEW h \in [0..m -> X],
             Good(n, g), Good(m, h), NEW i \in Nat, i <= n, i <= m
      PROVE  g[i] = h[i]
  <2> DEFINE E == {j \in Nat : j <= n /\ j <= m => g[j] = h[j]}
  <2>1. 0 \in E
    BY <1>4
  <2>2. ASSUME NEW j \in Nat, j \in E PROVE j + 1 \in E
    <3>1. CASE j + 1 <= n /\ j + 1 <= m
      <4>1. j \in 0..(n - 1) /\ j \in 0..(m - 1)
        BY <3>1
      <4>2. g[j] = h[j]
        BY <2>2, <3>1
      <4>3. g[j + 1] = step[j][g[j]] /\ h[j + 1] = step[j][h[j]]
        BY <1>4, <4>1
      <4> QED BY <4>2, <4>3
    <3> QED BY <3>1
  <2> HIDE DEF E
  <2>3. i \in E
    BY <2>1, <2>2, Induction
  <2> QED BY <2>3, <1>4 DEF E
<1> DEFINE G(n) == CHOOSE g \in [0..n -> X] : Good(n, g)
<1>5. \A n \in Nat : G(n) \in [0..n -> X] /\ Good(n, G(n))
  BY <1>3
<1> DEFINE f == [n \in Nat |-> G(n)[n]]
<1> HIDE DEF G
<1>6. \A n \in Nat : f[n + 1] = step[n][f[n]]
  <2> TAKE n \in Nat
  <2>1. n \in 0..((n + 1) - 1) /\ n + 1 \in Nat
    OBVIOUS
  <2>2. G(n + 1)[n + 1] = step[n][G(n + 1)[n]]
    BY <1>5, <2>1
  <2>3. G(n + 1)[n] = G(n)[n]
    <3>1. /\ G(n) \in [0..n -> X] /\ Good(n, G(n))
          /\ G(n + 1) \in [0..(n + 1) -> X] /\ Good(n + 1, G(n + 1))
      BY <1>5, <2>1
    <3> DEFINE g == G(n)
               h == G(n + 1)
    <3> HIDE DEF Good, g, h
    <3>2. g[n] = h[n]
      <4>1. n <= n /\ n <= n + 1
        OBVIOUS
      <4>2. g \in [0..n -> X] /\ Good(n, g) /\ h \in [0..(n + 1) -> X] /\ Good(n + 1, h)
        BY <3>1 DEF g, h
      <4> QED BY <1>4, <2>1, <4>1, <4>2
    <3> QED BY <3>2 DEF g, h
  <2> QED BY <2>2, <2>3
<1>7. f \in [Nat -> X]
  <2> HIDE DEF Good
  <2>1. ASSUME NEW n \in Nat PROVE G(n)[n] \in X
    BY <1>5
  <2> QED BY <2>1
<1>8. f[0] = first
  BY <1>5
<1> HIDE DEF f
<1> QED BY <1>6, <1>7, <1>8

(* The same up to a bound, as a recursive function is written.               *)
BoundedSteps(n, X) == [1..n -> [X -> X]]
BoundedSequels(n, X, first, step) ==
  {f \in [0..n -> X] :
     f = [i \in 0..n |-> IF i = 0 THEN first ELSE step[i][f[i - 1]]]}

(* There is one of these, too.                                               *)
LEMMA BoundedRecursion ==
  ASSUME NEW n \in Nat, NEW X, NEW first \in X, NEW step \in BoundedSteps(n, X)
  PROVE  BoundedSequels(n, X, first, step) # {}
<1> USE DEF BoundedSteps
<1> DEFINE total == [i \in Nat |-> IF i + 1 \in 1..n THEN step[i + 1] ELSE [x \in X |-> x]]
<1>1. total \in [Nat -> [X -> X]]
  OBVIOUS
<1>2. PICK g \in [Nat -> X] : g[0] = first /\ \A i \in Nat : g[i + 1] = total[i][g[i]]
  <2>1. total \in StepsOn(X)
    BY <1>1 DEF StepsOn
  <2> HIDE DEF total
  <2>2. Sequels(X, first, total) # {}
    BY <2>1, Recursion
  <2> QED BY <2>2 DEF Sequels
<1> DEFINE f == [i \in 0..n |-> g[i]]
<1>3. f \in [0..n -> X]
  OBVIOUS
<1>4. ASSUME NEW i \in 0..n
      PROVE  f[i] = IF i = 0 THEN first ELSE step[i][f[i - 1]]
  <2>1. CASE i = 0
    BY <1>2, <2>1
  <2>2. CASE i # 0
    <3>1. i - 1 \in Nat /\ i - 1 \in 0..n /\ i \in 1..n /\ (i - 1) + 1 = i
      BY <2>2
    <3>2. g[i] = total[i - 1][g[i - 1]]
      BY <1>2, <3>1
    <3>3. total[i - 1] = step[i]
      BY <3>1
    <3> QED BY <2>2, <3>1, <3>2, <3>3
  <2> QED BY <2>1, <2>2
<1>5. f = [i \in 0..n |-> IF i = 0 THEN first ELSE step[i][f[i - 1]]]
  BY <1>4
<1>6. f \in BoundedSequels(n, X, first, step)
  BY <1>3, <1>5 DEF BoundedSequels
<1> QED BY <1>6
=============================================================================
