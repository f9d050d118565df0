------------------------ MODULE FirmwareClient_proofs ------------------------
(***************************************************************************)
(* The firmware's arithmetic and its authentication client, for limbs of   *)
(* any width and numbers of any length: ModExact, ChebyshevExact and       *)
(* DeviceKeyAgrees.                                                        *)
(***************************************************************************)
EXTENDS FirmwareClient, WellFoundedInduction, TLAPS

-----------------------------------------------------------------------------
(* Induction and recursion over the naturals, without operators as         *)
(* parameters: the naturals are well-ordered, and a step function has its  *)
(* iteration.                                                              *)
LEMMA LeastNatural ==
  ASSUME NEW X, X \subseteq Nat, X # {} PROVE \E i \in X : \A j \in X : i <= j
<1> DEFINE R == OpToRel(<, Nat)
<1>1. IsWellFoundedOn(R, Nat)
  BY NatLessThanWellFounded, Zenon
<1>2. R = {ss \in Nat \X Nat : ss[1] < ss[2]}
  BY DEF OpToRel
<1> HIDE DEF R
<1>3. PICK i \in X : \A j \in X : ~(<<j, i>> \in R)
  BY <1>1, WFMin
<1>4. \A j \in X : ~(j < i)
  BY <1>2, <1>3
<1> QED
  BY <1>4

(* A set of naturals that has 0 and with n always n + 1 has them all.      *)
LEMMA SetInduction ==
  ASSUME NEW X, 0 \in X, \A n \in Nat : n \in X => n + 1 \in X PROVE \A n \in Nat : n \in X
<1> DEFINE Y == {n \in Nat : n \notin X}
<1> SUFFICES ASSUME Y # {} PROVE FALSE
  OBVIOUS
<1>1. Y \subseteq Nat
  OBVIOUS
<1> HIDE DEF Y
<1>2. PICK i \in Y : \A j \in Y : i <= j
  BY <1>1, LeastNatural, Zenon
<1>3. i \in Nat /\ i \notin X
  BY DEF Y
<1>4. i - 1 \in Nat
  BY <1>3
<1>5. i - 1 \notin Y
  BY <1>2, <1>3, <1>4
<1>6. i - 1 \in X
  BY <1>4, <1>5 DEF Y
<1>7. (i - 1) + 1 \in X
  BY <1>4, <1>6
<1> QED
  BY <1>3, <1>7

(* g is the iteration of st from s0 up to n.                               *)
Iterates(g, n, S, s0, st) ==
    /\ g \in [0..n -> S] /\ g[0] = s0
    /\ \A k \in 0..(n - 1) : g[k + 1] = st[<<k, g[k]>>]

LEMMA IterationExists ==
  ASSUME NEW S, NEW s0 \in S, NEW st \in [Nat \X S -> S]
  PROVE  \A n \in Nat : \E g : Iterates(g, n, S, s0, st)
<1> DEFINE X == {n \in Nat : \E g : Iterates(g, n, S, s0, st)}
<1>1. 0 \in X
  <2>1. Iterates([k \in 0..0 |-> s0], 0, S, s0, st)
    BY DEF Iterates
  <2> QED
    BY <2>1
<1>2. ASSUME NEW n \in Nat, n \in X PROVE n + 1 \in X
  <2>1. PICK g : Iterates(g, n, S, s0, st)
    BY <1>2
  <2> DEFINE h == [k \in 0..(n + 1) |-> IF k = n + 1 THEN st[<<n, g[n]>>] ELSE g[k]]
  <2>2. g \in [0..n -> S] /\ g[n] \in S /\ st[<<n, g[n]>>] \in S
    BY <2>1 DEF Iterates
  <2>3. h \in [0..(n + 1) -> S]
    BY <2>2
  <2>4. h[0] = s0
    BY <2>1 DEF Iterates
  <2>5. ASSUME NEW k \in 0..n PROVE h[k + 1] = st[<<k, h[k]>>]
    <3>1. k \in 0..(n + 1) /\ k # n + 1
      OBVIOUS
    <3>4. h[k] = g[k]
      BY <3>1, Zenon
    <3>5. n + 1 \in 0..(n + 1)
      OBVIOUS
    <3>6. h[n + 1] = st[<<n, g[n]>>]
      BY <3>5, Zenon
    <3>2. CASE k = n
      BY <3>2, <3>4, <3>6
    <3>3. CASE k # n
      <4>1. k \in 0..(n - 1) /\ h[k + 1] = g[k + 1]
        BY <3>3
      <4> QED
        BY <2>1, <3>4, <4>1 DEF Iterates
    <3> QED
      BY <3>2, <3>3
  <2>6. (n + 1) - 1 = n
    OBVIOUS
  <2> HIDE DEF h
  <2>7. Iterates(h, n + 1, S, s0, st)
    BY <2>3, <2>4, <2>5, <2>6 DEF Iterates
  <2> QED
    BY <2>7
<1> HIDE DEF X
<1>3. \A n \in Nat : n \in X
  BY <1>1, <1>2, SetInduction
<1> QED
  BY <1>3 DEF X

(* Two iterations agree as far as both go.                                 *)
LEMMA IterationUnique ==
  ASSUME NEW S, NEW s0, NEW st, NEW g, NEW h, NEW n \in Nat, NEW m \in Nat,
         Iterates(g, n, S, s0, st), Iterates(h, m, S, s0, st)
  PROVE  \A k \in Nat : k <= n /\ k <= m => g[k] = h[k]
<1> DEFINE X == {k \in Nat : k <= n /\ k <= m => g[k] = h[k]}
<1>1. 0 \in X
  BY DEF Iterates
<1>2. ASSUME NEW k \in Nat, k \in X PROVE k + 1 \in X
  <2> SUFFICES ASSUME k + 1 <= n, k + 1 <= m PROVE g[k + 1] = h[k + 1]
    OBVIOUS
  <2>1. g[k] = h[k] /\ k \in 0..(n - 1) /\ k \in 0..(m - 1)
    BY <1>2
  <2> QED
    BY <2>1 DEF Iterates
<1> HIDE DEF X
<1>3. \A k \in Nat : k \in X
  BY <1>1, <1>2, SetInduction
<1> QED
  BY <1>3 DEF X

(* f is the iteration of st from s0.                                       *)
IsIteration(f, S, s0, st) ==
    f \in [Nat -> S] /\ f[0] = s0 /\ \A n \in Nat : f[n + 1] = st[<<n, f[n]>>]

LEMMA Iteration ==
  ASSUME NEW S, NEW s0 \in S, NEW st \in [Nat \X S -> S]
  PROVE  \E f : IsIteration(f, S, s0, st)
<1> DEFINE G(n) == CHOOSE g : Iterates(g, n, S, s0, st)
           f == [n \in Nat |-> G(n)[n]]
<1>1. \A n \in Nat : Iterates(G(n), n, S, s0, st)
  BY IterationExists, Zenon
<1> HIDE DEF G
<1>2. ASSUME NEW n \in Nat PROVE G(n)[n] \in S
  BY <1>1 DEF Iterates
<1>3. f \in [Nat -> S]
  BY <1>2
<1>4. f[0] = s0
  BY <1>1 DEF Iterates
<1>5. ASSUME NEW n \in Nat PROVE f[n + 1] = st[<<n, f[n]>>]
  <2>1. n + 1 \in Nat /\ n <= n /\ n <= n + 1 /\ n \in 0..((n + 1) - 1)
    OBVIOUS
  <2>2. Iterates(G(n), n, S, s0, st) /\ Iterates(G(n + 1), n + 1, S, s0, st)
    BY <1>1, <2>1
  <2>3. G(n)[n] = G(n + 1)[n]
    BY <2>1, <2>2, IterationUnique
  <2>4. G(n + 1)[n + 1] = st[<<n, G(n + 1)[n]>>]
    BY <2>1, <2>2 DEF Iterates
  <2> QED
    BY <2>1, <2>3, <2>4
<1> HIDE DEF f
<1>6. IsIteration(f, S, s0, st)
  BY <1>3, <1>4, <1>5 DEF IsIteration
<1> QED
  BY <1>6

-----------------------------------------------------------------------------
(* Powers of two.                                                          *)
LEMMA Pow2Exists == Pow2 = [n \in Nat |-> IF n = 0 THEN 1 ELSE 2 * Pow2[n - 1]] /\ Pow2 \in [Nat -> Nat]
<1> DEFINE S  == Nat
           s0 == 1
           st == [s \in Nat \X S |-> 2 * s[2]]
<1>1. s0 \in S /\ st \in [Nat \X S -> S]
  OBVIOUS
<1>2. \A n, v \in Nat : st[<<n, v>>] = 2 * v
  OBVIOUS
<1> HIDE DEF st, S, s0
<1>10. PICK f : IsIteration(f, S, s0, st)
  BY <1>1, Iteration
<1>3. f \in [Nat -> Nat] /\ f[0] = 1 /\ \A n \in Nat : f[n + 1] = st[<<n, f[n]>>]
  BY <1>10, Zenon DEF S, s0, IsIteration
<1>4. ASSUME NEW n \in Nat PROVE f[n] = IF n = 0 THEN 1 ELSE 2 * f[n - 1]
  <2>1. CASE n = 0
    BY <1>3, <2>1
  <2>2. CASE n # 0
    <3>1. n - 1 \in Nat /\ (n - 1) + 1 = n
      BY <2>2
    <3>2. f[n] = st[<<n - 1, f[n - 1]>>]
      BY <1>3, <3>1
    <3> QED
      BY <1>2, <1>3, <2>2, <3>1, <3>2
  <2> QED
    BY <2>1, <2>2
<1>5. f = [n \in Nat |-> IF n = 0 THEN 1 ELSE 2 * f[n - 1]]
  BY <1>3, <1>4
<1>6. Pow2 = [n \in Nat |-> IF n = 0 THEN 1 ELSE 2 * Pow2[n - 1]]
  BY <1>5, Zenon DEF Pow2
<1> DEFINE X == {n \in Nat : Pow2[n] \in Nat}
<1> HIDE DEF Pow2
<1>7. Pow2[0] = 1 /\ \A n \in Nat : Pow2[n + 1] = 2 * Pow2[n]
  BY <1>6
<1>8. 0 \in X /\ \A n \in Nat : n \in X => n + 1 \in X
  BY <1>7
<1> HIDE DEF X
<1>9. \A n \in Nat : n \in X
  BY <1>8, SetInduction
<1>11. \A n \in Nat : Pow2[n] \in Nat
  BY <1>9 DEF X
<1> QED
  BY <1>6, <1>11

LEMMA Pow2Step ==
  /\ Pow2[0] = 1
  /\ \A n \in Nat : Pow2[n] \in Nat /\ Pow2[n + 1] = 2 * Pow2[n]
<1> HIDE DEF Pow2
<1>1. Pow2[0] = 1
  BY Pow2Exists
<1>2. ASSUME NEW n \in Nat PROVE Pow2[n] \in Nat /\ Pow2[n + 1] = 2 * Pow2[n]
  BY Pow2Exists
<1> QED
  BY <1>1, <1>2

LEMMA Pow2Positive == \A n \in Nat : Pow2[n] \in Nat \ {0} /\ n < Pow2[n]
<1> DEFINE X == {n \in Nat : n < Pow2[n]}
<1>1. 0 \in X
  BY Pow2Step
<1>2. ASSUME NEW n \in Nat, n \in X PROVE n + 1 \in X
  <2>1. Pow2[n] \in Nat /\ Pow2[n + 1] = 2 * Pow2[n] /\ n < Pow2[n]
    BY <1>2, Pow2Step
  <2>2. n + 1 < Pow2[n + 1]
    BY <2>1
  <2> QED
    BY <2>2
<1> HIDE DEF X
<1>3. \A n \in Nat : n \in X
  BY <1>1, <1>2, SetInduction
<1>4. \A n \in Nat : n < Pow2[n]
  BY <1>3 DEF X
<1> QED
  BY <1>4, Pow2Step

LEMMA Pow2Sum == \A a, b \in Nat : Pow2[a + b] = Pow2[a] * Pow2[b]
<1> TAKE a \in Nat
<1> DEFINE X == {b \in Nat : Pow2[a + b] = Pow2[a] * Pow2[b]}
<1>1. 0 \in X
  BY Pow2Step
<1>2. ASSUME NEW b \in Nat, b \in X PROVE b + 1 \in X
  <2>1. a + b \in Nat /\ (a + b) + 1 = a + (b + 1)
    OBVIOUS
  <2>2. Pow2[(a + b) + 1] = 2 * Pow2[a + b] /\ Pow2[b + 1] = 2 * Pow2[b]
        /\ Pow2[a] \in Nat /\ Pow2[b] \in Nat
    BY <2>1, Pow2Step
  <2>3. Pow2[a + b] = Pow2[a] * Pow2[b]
    BY <1>2
  <2>4. Pow2[a + (b + 1)] = 2 * (Pow2[a] * Pow2[b])
    BY <2>1, <2>2, <2>3
  <2>5. 2 * (Pow2[a] * Pow2[b]) = Pow2[a] * (2 * Pow2[b])
    BY <2>2
  <2> QED
    BY <2>2, <2>4, <2>5
<1> HIDE DEF X
<1>3. \A b \in Nat : b \in X
  BY <1>1, <1>2, SetInduction
<1> QED
  BY <1>3 DEF X

LEMMA Pow2Monotone == \A a, b \in Nat : (a <= b => Pow2[a] <= Pow2[b]) /\ (a < b => 2 * Pow2[a] <= Pow2[b])
<1>1. ASSUME NEW a \in Nat, NEW b \in Nat, a <= b PROVE Pow2[a] <= Pow2[b]
  <2>1. b - a \in Nat /\ a + (b - a) = b
    BY <1>1
  <2>4. Pow2[a + (b - a)] = Pow2[a] * Pow2[b - a] /\ Pow2[a] \in Nat \ {0} /\ Pow2[b - a] \in Nat \ {0}
    BY <2>1, Pow2Sum, Pow2Positive, Zenon
  <2>2. Pow2[b] = Pow2[a] * Pow2[b - a] /\ Pow2[a] \in Nat /\ Pow2[b - a] \in Nat \ {0}
    BY <2>1, <2>4
  <2>3. \A u \in Nat, v \in Nat \ {0} : u <= u * v
    OBVIOUS
  <2> QED
    BY <2>2, <2>3
<1>2. ASSUME NEW a \in Nat, NEW b \in Nat, a < b PROVE 2 * Pow2[a] <= Pow2[b]
  <2>1. a + 1 \in Nat /\ a + 1 <= b
    BY <1>2
  <2> QED
    BY <1>1, <2>1, Pow2Step
<1> QED
  BY <1>1, <1>2

-----------------------------------------------------------------------------
(* Quotients and remainders.                                               *)
LEMMA DivMod ==
  ASSUME NEW a \in Int, NEW m \in Nat \ {0}
  PROVE  a \div m \in Int /\ a % m \in 0..(m - 1) /\ a = (a \div m) * m + (a % m)
<1>1. a \div m \in Int
  OBVIOUS
<1>2. a % m \in 0..(m - 1)
  OBVIOUS
<1>3. a = m * (a \div m) + (a % m)
  OBVIOUS
<1>4. m * (a \div m) = (a \div m) * m
  BY <1>1
<1> QED
  BY <1>1, <1>2, <1>3, <1>4

LEMMA ModUnique ==
  ASSUME NEW a \in Int, NEW q \in Int, NEW m \in Nat \ {0}, NEW r \in 0..(m - 1), a = q * m + r
  PROVE  a % m = r /\ a \div m = q
OBVIOUS

LEMMA ModSmall ==
  ASSUME NEW m \in Nat \ {0}, NEW r \in 0..(m - 1) PROVE r % m = r
<1>1. r \in Int /\ 0 \in Int /\ r = 0 * m + r
  OBVIOUS
<1> QED
  BY <1>1, ModUnique

(* Multiples of the modulus do not change a remainder.                     *)
LEMMA ModShift ==
  ASSUME NEW a \in Int, NEW k \in Int, NEW m \in Nat \ {0} PROVE (a + k * m) % m = a % m
<1> DEFINE q == a \div m
           r == a % m
<1>1. q \in Int /\ r \in 0..(m - 1) /\ a = q * m + r
  BY DivMod
<1> HIDE DEF q, r
<1>2. a + k * m = (q + k) * m + r
  BY <1>1
<1>3. a + k * m \in Int /\ q + k \in Int
  BY <1>1
<1>4. (a + k * m) % m = r
  BY <1>1, <1>2, <1>3, ModUnique
<1> QED
  BY <1>4 DEF r

LEMMA DivNat ==
  ASSUME NEW a \in Nat, NEW m \in Nat \ {0} PROVE a \div m \in Nat
<1> DEFINE q == a \div m
           r == a % m
<1>1. q \in Int /\ r \in 0..(m - 1) /\ a = q * m + r
  BY DivMod
<1> HIDE DEF q, r
<1>2. ASSUME q < 0 PROVE FALSE
  <2>1. q <= 0 - 1
    BY <1>1, <1>2
  <2>2. q * m <= 0 - m
    BY <1>1, <2>1
  <2> QED
    BY <1>1, <2>2
<1>3. q \in Nat
  BY <1>1, <1>2
<1> QED
  BY <1>3 DEF q

(* Dividing by twice a number is dividing once more by two.                *)
LEMMA DivTwice ==
  ASSUME NEW a \in Nat, NEW m \in Nat \ {0}
  PROVE  a \div m = 2 * (a \div (2 * m)) + ((a \div m) % 2)
<1> DEFINE v == a \div m
           r == a % m
           w == v \div 2
           b == v % 2
<1>9. v \in Nat
  BY DivNat
<1>10. r \in 0..(m - 1) /\ a = v * m + r
  BY DivMod
<1>1. v \in Nat /\ r \in 0..(m - 1) /\ a = v * m + r
  BY <1>9, <1>10
<1> HIDE DEF v, r
<1>2. v \in Int /\ 2 \in Nat \ {0}
  BY <1>1
<1>3. w \in Int /\ b \in 0..(2 - 1) /\ v = w * 2 + b
  BY <1>2, DivMod
<1> HIDE DEF w, b
<1>4. a = (w * 2 + b) * m + r
  BY <1>1, <1>3
<1>5. (w * 2 + b) * m + r = w * (2 * m) + (b * m + r)
  BY <1>1, <1>3
<1>6. b * m + r \in 0..((2 * m) - 1)
  <2>1. b = 0 \/ b = 1
    BY <1>3
  <2>2. CASE b = 0
    BY <1>1, <2>2
  <2>3. CASE b = 1
    BY <1>1, <2>3
  <2> QED
    BY <2>1, <2>2, <2>3
<1>7. a \div (2 * m) = w
  <2>1. a \in Int /\ 2 * m \in Nat \ {0} /\ a = w * (2 * m) + (b * m + r)
    BY <1>4, <1>5
  <2> QED
    BY <1>3, <1>6, <2>1, ModUnique
<1>8. v = 2 * w + b
  BY <1>3
<1> QED
  BY <1>7, <1>8 DEF v, b

(* The lengths of the numbers.                                             *)
LEMMA Lengths ==
  /\ Bits \in Nat /\ Bits - 1 \in Nat /\ Range \in Nat \ {0} /\ Range = 2 * Pow2[Bits - 1]
  /\ Range * Range = Pow2[2 * Bits] /\ Pow2[Bits - 1] \in Nat \ {0}
  /\ Range \div 2 = Pow2[Bits - 1]
<1>1. Bits \in Nat /\ Bits - 1 \in Nat
  <2>1. Width \in Nat \ {0} /\ Limbs \in Nat \ {0}
    BY LimbAssumption
  <2>2. Width * Limbs \in Nat \ {0}
    BY <2>1
  <2> QED
    BY <2>2 DEF Bits
<1> DEFINE h == Bits - 1
<1>2. h \in Nat /\ h + 1 = Bits
  BY <1>1
<1>3. Pow2[Bits] \in Nat \ {0} /\ Pow2[Bits] = 2 * Pow2[h] /\ Pow2[h] \in Nat \ {0}
  BY <1>1, <1>2, Pow2Step, Pow2Positive
<1>4. Bits + Bits = 2 * Bits /\ Pow2[Bits + Bits] = Pow2[Bits] * Pow2[Bits]
  BY <1>1, Pow2Sum
<1>5. (2 * Pow2[h]) \div 2 = Pow2[h]
  <2>1. 2 * Pow2[h] \in Int /\ 2 \in Nat \ {0} /\ 0 \in 0..(2 - 1) /\ 2 * Pow2[h] = Pow2[h] * 2 + 0 /\ Pow2[h] \in Int
    BY <1>3
  <2> QED
    BY <2>1, ModUnique
<1> QED
  BY <1>1, <1>3, <1>4, <1>5 DEF Range

-----------------------------------------------------------------------------
(* protocol.c: modular sums and products.                                  *)

(* One bit of the long division.                                           *)
LEMMA BringDown ==
  ASSUME NEW v \in Nat, NEW c \in 0..1, NEW m \in Nat \ {0}, m < Range \div 2,
         ~(2 * v + c # 0 /\ (2 * v + c) % m = 0)
  PROVE  ReduceOnce(((2 * (v % m)) % Range) + c, m) = (2 * v + c) % m
<1> DEFINE q == v \div m
           r == v % m
<1>1. q \in Nat
  BY DivNat
<1>11. v \in Int
  OBVIOUS
<1>2. r \in 0..(m - 1) /\ v = q * m + r
  BY <1>11, DivMod, Zenon
<1> HIDE DEF q, r
<1>3. 2 * m < Range /\ Range \in Nat \ {0}
  BY Lengths
<1>4. 2 * r \in 0..(Range - 1)
  BY <1>2, <1>3
<1>5. (2 * r) % Range = 2 * r
  BY <1>3, <1>4, ModSmall
<1> DEFINE s == 2 * r + c
           w == 2 * v + c
<1>6. s \in Nat /\ s <= 2 * m - 1 /\ w \in Nat
  BY <1>2
<1>7. w = (2 * q) * m + s
  BY <1>1, <1>2
<1> HIDE DEF s, w
<1>8. CASE s < m
  <2>1. w % m = s
    <3>1. w \in Int /\ 2 * q \in Int /\ s \in 0..(m - 1)
      BY <1>1, <1>6, <1>8
    <3> QED
      BY <1>7, <3>1, ModUnique
  <2>2. ReduceOnce(s, m) = s
    BY <1>6, <1>8 DEF ReduceOnce
  <2> QED
    BY <1>5, <2>1, <2>2 DEF s, w, r
<1>9. CASE s > m
  <2>1. w % m = s - m
    <3>1. w \in Int /\ 2 * q + 1 \in Int /\ s - m \in 0..(m - 1) /\ w = (2 * q + 1) * m + (s - m)
      BY <1>1, <1>6, <1>7, <1>9
    <3> QED
      BY <3>1, ModUnique
  <2>2. ReduceOnce(s, m) = s - m
    BY <1>6, <1>9 DEF ReduceOnce
  <2> QED
    BY <1>5, <2>1, <2>2 DEF s, w, r
<1>10. CASE s = m
  <2>1. w \in Int /\ 2 * q + 1 \in Int /\ 0 \in 0..(m - 1) /\ w = (2 * q + 1) * m + 0
    BY <1>1, <1>6, <1>7, <1>10
  <2>2. w % m = 0
    BY <2>1, ModUnique
  <2>3. (2 * q) * m \in Nat
    BY <1>1
  <2>4. w # 0
    BY <1>7, <1>10, <2>3
  <2> QED
    BY <2>2, <2>4 DEF w
<1> QED
  BY <1>6, <1>8, <1>9, <1>10

LEMMA MulmodExact ==
  ASSUME NEW a \in 0..(Range - 1), NEW b \in 0..(Range - 1), NEW m \in Nat \ {0}, m < Range \div 2,
         ~(\E i \in 0..(2 * Bits) : (a * b) \div Pow2[i] # 0 /\ ((a * b) \div Pow2[i]) % m = 0)
  PROVE  uint256_mulmod(a, b, m) = (a * b) % m
<1> DEFINE prod == a * b
           V(i) == prod \div Pow2[i]
           Top  == TopIndex
           W    == [i \in 0..Top |-> V(i) % m]
<1>1. Top \in Nat /\ Top = 2 * Bits /\ prod \in Nat /\ prod < Pow2[Top]
  <2>1. Bits \in Nat /\ Range \in Nat \ {0} /\ Range * Range = Pow2[2 * Bits]
    BY Lengths
  <2>2. a \in Nat /\ b \in Nat /\ a <= Range - 1 /\ b <= Range - 1
    BY <2>1
  <2>3. \A s, t, R \in Nat : s <= R - 1 /\ t <= R - 1 => s * t \in Nat /\ s * t < R * R
    <3> TAKE s, t, R \in Nat
    <3> HAVE s <= R - 1 /\ t <= R - 1
    <3>1. s * t <= s * R
      OBVIOUS
    <3>2. s * R <= (R - 1) * R
      OBVIOUS
    <3>3. (R - 1) * R < R * R
      OBVIOUS
    <3> QED
      BY <3>1, <3>2, <3>3
  <2> QED
    BY <2>1, <2>2, <2>3 DEF TopIndex
<1> HIDE DEF Top, prod
<1>2. ASSUME NEW i \in Nat PROVE V(i) \in Nat /\ V(i) = 2 * V(i + 1) + (V(i) % 2) /\ V(i) % 2 \in 0..1
  <2>1. Pow2[i] \in Nat \ {0} /\ Pow2[i + 1] = 2 * Pow2[i]
    BY Pow2Step, Pow2Positive
  <2>2. V(i) \in Nat
    BY <1>1, <2>1, DivNat
  <2>3. V(i) = 2 * V(i + 1) + (V(i) % 2)
    BY <1>1, <2>1, DivTwice
  <2>4. V(i) % 2 \in 0..1
    BY <2>2
  <2> QED
    BY <2>2, <2>3, <2>4
<1>3. V(Top) = 0 /\ V(0) = prod
  <2>1. Pow2[Top] \in Nat \ {0} /\ Pow2[0] = 1
    BY <1>1, Pow2Step, Pow2Positive
  <2>2. prod \in Int /\ 0 \in Int /\ prod \in 0..(Pow2[Top] - 1) /\ prod = 0 * Pow2[Top] + prod
    BY <1>1, <2>1
  <2>3. V(Top) = 0
    BY <2>1, <2>2, ModUnique
  <2>4. prod \in Int /\ 0 \in 0..(1 - 1) /\ prod = prod * 1 + 0 /\ 1 \in Nat \ {0}
    BY <1>1
  <2>5. prod \div 1 = prod
    BY <2>4, ModUnique
  <2> QED
    BY <2>1, <2>3, <2>5
<1>4. \A i \in 0..Top : ~(V(i) # 0 /\ V(i) % m = 0)
  BY <1>1 DEF prod
<1> DEFINE Step(f, i) == ReduceOnce(((2 * f[i + 1]) % Range) + (V(i) % 2), m)
<1>5. ASSUME NEW i \in 0..Top, i # Top PROVE W[i] = Step(W, i)
  <2>1. i \in Nat /\ i + 1 \in Nat /\ i + 1 \in 0..Top
    BY <1>1, <1>5
  <2>2. W[i + 1] = V(i + 1) % m /\ W[i] = V(i) % m
    BY <2>1
  <2>3. V(i + 1) \in Nat /\ V(i) = 2 * V(i + 1) + (V(i) % 2) /\ V(i) % 2 \in 0..1
    BY <1>2, <2>1
  <2>4. ~(V(i) # 0 /\ V(i) % m = 0)
    BY <1>4
  <2> HIDE DEF V, W
  <2> DEFINE v == V(i + 1)
             c == V(i) % 2
  <2>5. v \in Nat /\ c \in 0..1 /\ V(i) = 2 * v + c
    BY <2>3
  <2> HIDE DEF v, c
  <2>6. ReduceOnce(((2 * (v % m)) % Range) + c, m) = (2 * v + c) % m
    BY <2>4, <2>5, BringDown
  <2> QED
    BY <2>2, <2>5, <2>6 DEF v, c
<1>6. W[Top] = 0
  <2>1. Top \in 0..Top /\ 0 \in 0..(m - 1)
    BY <1>1
  <2> QED
    BY <1>3, <2>1, ModSmall
<1>7. W = [i \in 0..Top |-> IF i = Top THEN 0 ELSE Step(W, i)]
  BY <1>5, <1>6, Zenon
<1> DEFINE rem[i \in 0..Top] == IF i = Top THEN 0 ELSE Step(rem, i)
<1>8. rem = [i \in 0..Top |-> IF i = Top THEN 0 ELSE Step(rem, i)]
  BY <1>7, Zenon
<1>9. uint256_mulmod(a, b, m) = rem[0]
  BY Zenon DEF uint256_mulmod, big_mul, prod, Top
<1> HIDE DEF rem, V
<1> DEFINE X == {k \in Nat : k <= Top => rem[Top - k] = W[Top - k]}
<1>10. 0 \in X
  <2>1. Top - 0 = Top /\ Top \in 0..Top
    BY <1>1
  <2> QED
    BY <1>6, <1>8, <2>1
<1>11. ASSUME NEW k \in Nat, k \in X PROVE k + 1 \in X
  <2> SUFFICES ASSUME k + 1 <= Top PROVE rem[Top - (k + 1)] = W[Top - (k + 1)]
    OBVIOUS
  <2> DEFINE i == Top - (k + 1)
  <2>1. i \in 0..Top /\ i # Top /\ i + 1 = Top - k /\ k <= Top
    BY <1>1
  <2>2. rem[i + 1] = W[i + 1]
    BY <1>11, <2>1
  <2> HIDE DEF i, W
  <2>3. rem[i] = Step(rem, i)
    BY <1>8, <2>1
  <2>4. rem[i] = W[i]
    BY <1>5, <2>1, <2>2, <2>3
  <2> QED
    BY <2>4 DEF i
<1> HIDE DEF X
<1>12. \A k \in Nat : k \in X
  BY <1>10, <1>11, SetInduction
<1>13. rem[0] = W[0]
  <2>1. Top \in X /\ Top - Top = 0 /\ Top <= Top
    BY <1>1, <1>12
  <2> QED
    BY <2>1 DEF X
<1>14. W[0] = prod % m
  <2>1. 0 \in 0..Top
    BY <1>1
  <2> QED
    BY <1>3, <2>1
<1> QED
  BY <1>9, <1>13, <1>14 DEF prod

LEMMA AddmodExact ==
  ASSUME NEW m \in Nat \ {0}, NEW a \in 0..(m - 1), NEW b \in 0..(m - 1), m < Range \div 2, a + b # m
  PROVE  uint256_addmod(a, b, m) = (a + b) % m
<1>1. 2 * m < Range /\ Range \in Nat \ {0}
  BY Lengths
<1> DEFINE s == a + b
<1>2. s \in 0..(2 * m - 2) /\ s \in 0..(Range - 1) /\ s # m
  BY <1>1
<1> HIDE DEF s
<1>3. s % Range = s
  BY <1>1, <1>2, ModSmall
<1>4. CASE s < m
  <2>1. s \in 0..(m - 1)
    BY <1>2, <1>4
  <2>2. s % m = s
    BY <2>1, ModSmall
  <2> QED
    BY <1>2, <1>3, <1>4, <2>2 DEF uint256_addmod, ReduceOnce, s
<1>5. CASE s > m
  <2>1. s \in Int /\ 1 \in Int /\ s - m \in 0..(m - 1) /\ s = 1 * m + (s - m)
    BY <1>2, <1>5
  <2>2. s % m = s - m
    BY <2>1, ModUnique
  <2> QED
    BY <1>2, <1>3, <1>5, <2>2 DEF uint256_addmod, ReduceOnce, s
<1> QED
  BY <1>2, <1>4, <1>5

-----------------------------------------------------------------------------
(* ChebyShev.c: the remainder of a product.                                *)
LEMMA TopBitValue ==
  ASSUME NEW a \in Nat, a < Range * Range
  PROVE  /\ TopBit(a) \in -1..(2 * Bits - 1) /\ TopBit(a) + 1 \in Nat /\ a < Pow2[TopBit(a) + 1]
         /\ a # 0 => TopBit(a) \in Nat /\ Pow2[TopBit(a)] <= a
<1>1. Bits \in Nat /\ Bits - 1 \in Nat /\ a < Pow2[2 * Bits] /\ 2 * Bits \in Nat
  BY Lengths
<1>2. CASE a = 0
  BY <1>1, <1>2, Pow2Step DEF TopBit
<1>3. CASE a # 0
  <2> DEFINE Y == {i \in Nat : a < Pow2[i + 1]}
  <2>1. a \in Y
    BY Pow2Positive, Pow2Step
  <2>2. Y \subseteq Nat /\ Y # {}
    BY <2>1
  <2> HIDE DEF Y
  <2>3. PICK i \in Y : \A j \in Y : i <= j
    BY <2>2, LeastNatural, Zenon
  <2>4. i \in Nat /\ a < Pow2[i + 1]
    BY DEF Y
  <2>5. Pow2[i] <= a
    <3>1. CASE i = 0
      BY <1>3, <3>1, Pow2Step
    <3>2. CASE i # 0
      <4>1. i - 1 \in Nat /\ i - 1 \notin Y /\ (i - 1) + 1 = i
        BY <2>3, <2>4, <3>2
      <4>2. ~(a < Pow2[i])
        BY <4>1 DEF Y
      <4> QED
        BY <2>4, <4>2, Pow2Step
    <3> QED
      BY <3>1, <3>2
  <2> DEFINE P(j) == j \in 0..(2 * Bits) /\ Pow2[j] <= a /\ a < Pow2[j + 1]
  <2>6. i < 2 * Bits
    <3> SUFFICES ASSUME 2 * Bits <= i PROVE FALSE
      BY <1>1, <2>4
    <3>1. Pow2[2 * Bits] <= Pow2[i] /\ Pow2[2 * Bits] \in Nat /\ Pow2[i] \in Nat
      BY <1>1, <2>4, Pow2Monotone, Pow2Step
    <3> QED
      BY <1>1, <2>5, <3>1
  <2>7. P(i)
    BY <1>1, <2>4, <2>5, <2>6
  <2> DEFINE t == CHOOSE j \in 0..(2 * Bits) : Pow2[j] <= a /\ a < Pow2[j + 1]
  <2>8. TopBit(a) = t
    BY <1>3 DEF TopBit
  <2>9. P(t)
    BY <2>7, Zenon
  <2> HIDE DEF t
  <2>10. t \in Nat /\ t + 1 \in Nat /\ Pow2[t] <= a /\ a < Pow2[t + 1]
    BY <1>1, <2>9
  <2>11. t < 2 * Bits
    <3> SUFFICES ASSUME 2 * Bits <= t PROVE FALSE
      BY <1>1, <2>10
    <3>1. Pow2[2 * Bits] <= Pow2[t] /\ Pow2[2 * Bits] \in Nat /\ Pow2[t] \in Nat
      BY <1>1, <2>10, Pow2Monotone, Pow2Step
    <3> QED
      BY <1>1, <2>10, <3>1
  <2> QED
    BY <1>1, <2>8, <2>10, <2>11
<1> QED
  BY <1>2, <1>3

(* A number below 2^k has no bit from k on.                                *)
LEMMA TopBitBound ==
  ASSUME NEW a \in Nat, a < Range * Range, NEW k \in Nat, a < Pow2[k]
  PROVE  TopBit(a) < k
<1> DEFINE t == TopBit(a)
<1>1. Bits \in Nat
  BY Lengths
<1>2. t \in -1..(2 * Bits - 1) /\ (a # 0 => t \in Nat /\ Pow2[t] <= a)
  BY TopBitValue
<1>3. a = 0 => t = -1
  BY DEF TopBit
<1> HIDE DEF t
<1>4. ASSUME k <= t, a # 0 PROVE FALSE
  <2>1. t \in Nat /\ Pow2[t] <= a
    BY <1>2, <1>4
  <2>2. Pow2[k] <= Pow2[t] /\ Pow2[k] \in Nat /\ Pow2[t] \in Nat
    BY <1>4, <2>1, Pow2Monotone, Pow2Step
  <2> QED
    BY <2>1, <2>2
<1>5. t < k
  BY <1>1, <1>2, <1>3, <1>4
<1> QED
  BY <1>5 DEF t

(* The modulus moved up, as long as it stays within the double length.     *)
LEMMA ShiftValue ==
  ASSUME NEW m \in 1..(Range - 1), NEW shift \in Nat, TopBit(m) + shift <= 2 * Bits - 1
  PROVE  /\ big512_shl(m, shift) \in Nat
         /\ big512_shl(m, shift) = 0 \/ big512_shl(m, shift) = m * Pow2[shift]
         /\ shift < Bits + Width => big512_shl(m, shift) = m * Pow2[shift]
<1> DEFINE t == TopBit(m)
           u == m * Pow2[shift]
<1>1. Bits \in Nat /\ Range \in Nat \ {0} /\ Range * Range = Pow2[2 * Bits] /\ Range <= Range * Range
  BY Lengths
<1>2. m \in Nat /\ m < Range * Range
  BY <1>1
<1>3. t \in -1..(2 * Bits - 1) /\ t + 1 \in Nat /\ m < Pow2[t + 1] /\ t + shift <= 2 * Bits - 1
  BY <1>2, TopBitValue
<1> HIDE DEF t
<1>4. Pow2[shift] \in Nat \ {0} /\ Pow2[t + 1] \in Nat \ {0} /\ Pow2[(t + 1) + shift] = Pow2[t + 1] * Pow2[shift]
  BY <1>3, Pow2Sum, Pow2Positive
<1>5. u \in Nat /\ u < Pow2[t + 1] * Pow2[shift]
  <2>1. \A p, q \in Nat, s \in Nat \ {0} : p < q => p * s \in Nat /\ p * s < q * s
    OBVIOUS
  <2> QED
    BY <1>2, <1>3, <1>4, <2>1
<1> HIDE DEF u
<1>6. (t + 1) + shift \in Nat /\ (t + 1) + shift <= 2 * Bits /\ 2 * Bits \in Nat
  BY <1>1, <1>3
<1>7. Pow2[(t + 1) + shift] <= Pow2[2 * Bits] /\ Pow2[2 * Bits] \in Nat \ {0} /\ Pow2[(t + 1) + shift] \in Nat
  BY <1>6, Pow2Monotone, Pow2Positive
<1>8. u \in 0..(Range * Range - 1) /\ Range * Range \in Nat \ {0}
  BY <1>1, <1>4, <1>5, <1>7
<1>9. u % (Range * Range) = u
  BY <1>8, ModSmall
<1>10. big512_shl(m, shift) = IF shift \div Width > Limbs THEN 0 ELSE u
  BY <1>9 DEF big512_shl, u
<1>11. ASSUME shift < Bits + Width PROVE ~(shift \div Width > Limbs)
  <2>1. Width \in Nat \ {0} /\ Limbs \in Nat \ {0} /\ shift \in Int
    BY LimbAssumption
  <2> DEFINE q == shift \div Width
             r == shift % Width
  <2>2. q \in Int /\ r \in 0..(Width - 1) /\ shift = q * Width + r
    BY <2>1, DivMod, Zenon
  <2> HIDE DEF q, r
  <2>3. ASSUME q > Limbs PROVE FALSE
    <3>1. q >= Limbs + 1
      BY <2>1, <2>2, <2>3
    <3>2. q * Width >= (Limbs + 1) * Width
      BY <2>1, <2>2, <3>1
    <3>3. (Limbs + 1) * Width = Bits + Width
      BY <2>1 DEF Bits
    <3>4. (Limbs + 1) * Width \in Int /\ q * Width \in Int
      BY <2>1, <2>2
    <3> QED
      BY <1>11, <2>1, <2>2, <3>2, <3>3, <3>4
  <2> QED
    BY <2>3 DEF q
<1> QED
  BY <1>5, <1>10, <1>11 DEF u

(* Shift and subtract leaves the remainder, as long as no shift of the     *)
(* modulus reaches Bits + Width.                                           *)
LEMMA BigModExact ==
  ASSUME NEW a \in Nat, NEW m \in 1..(Range - 1), a < Range * Pow2[TopBit(m) + 1]
  PROVE  big_mod(a, m) = a % m
<1> DEFINE t  == TopBit(m)
           RR == 0..(Range * Range - 1)
           BB == -1..(2 * Bits - 1)
           D  == RR \X BB
<1>1. Bits \in Nat /\ Range \in Nat \ {0} /\ Range * Range = Pow2[2 * Bits] /\ Range <= Range * Range
      /\ Range = Pow2[Bits] /\ Range * Range \in Nat \ {0} /\ 2 * Bits \in Nat
  BY Lengths DEF Range
<1>2. m \in Nat \ {0} /\ m < Range * Range /\ m < Pow2[Bits]
  BY <1>1
<1>3. t \in Nat /\ t < Bits /\ Pow2[t] <= m /\ m < Pow2[t + 1]
  <2>1. t \in Nat /\ Pow2[t] <= m /\ m < Pow2[t + 1]
    BY <1>2, TopBitValue
  <2>2. t < Bits
    BY <1>1, <1>2, TopBitBound
  <2> QED
    BY <2>1, <2>2
<1> DEFINE Body(f, r, b) ==
             LET shift   == b - TopBit(m)
                 shifted == big512_shl(m, shift)
             IN  IF shift < 0 THEN r
                 ELSE IF Takes(r, shifted) THEN f[<<r - shifted, TopBit(r - shifted)>>]
                 ELSE f[<<r, b - 1>>]
           Sh(b) == big512_shl(m, b - t)
           W == [s \in D |-> IF s[2] < t THEN s[1] ELSE s[1] % m]
<1>4. ASSUME NEW b \in BB, b >= t
      PROVE  /\ b - t \in Nat /\ b \in Nat /\ Sh(b) \in Nat /\ (Sh(b) = 0 \/ Sh(b) = m * Pow2[b - t])
             /\ b - t < Bits + Width => Sh(b) = m * Pow2[b - t]
             /\ Pow2[b - t] \in Nat \ {0} /\ Pow2[b] <= m * Pow2[b - t]
             /\ m * Pow2[b - t] < Pow2[b + 1]
  <2>1. b - t \in Nat /\ t + (b - t) = b /\ t + (b - t) <= 2 * Bits - 1 /\ b \in Nat
    BY <1>1, <1>3, <1>4
  <2>2. Sh(b) \in Nat /\ (Sh(b) = 0 \/ Sh(b) = m * Pow2[b - t])
        /\ (b - t < Bits + Width => Sh(b) = m * Pow2[b - t])
    BY <2>1, ShiftValue
  <2> HIDE DEF t
  <2>3. Pow2[t + (b - t)] = Pow2[t] * Pow2[b - t]
    BY <1>3, <2>1, Pow2Sum
  <2>4. Pow2[b - t] \in Nat \ {0} /\ Pow2[t] \in Nat \ {0}
    BY <1>3, <2>1, Pow2Positive
  <2>5. \A x, y \in Nat, z \in Nat \ {0} : x <= y => x * z <= y * z
    OBVIOUS
  <2>6. Pow2[t] * Pow2[b - t] <= m * Pow2[b - t]
    BY <1>2, <1>3, <2>4, <2>5
  <2>7. Pow2[t + 1] = 2 * Pow2[t] /\ Pow2[b + 1] = 2 * Pow2[b] /\ Pow2[b] = Pow2[t] * Pow2[b - t]
    BY <1>3, <2>1, <2>3, Pow2Step
  <2>8. \A x, y, z \in Nat \ {0} : x < 2 * y => x * z < 2 * (y * z)
    OBVIOUS
  <2>9. m * Pow2[b - t] < 2 * (Pow2[t] * Pow2[b - t])
    BY <1>2, <1>3, <2>4, <2>7, <2>8
  <2> HIDE DEF Sh
  <2> QED
    BY <2>1, <2>2, <2>4, <2>6, <2>7, <2>9
<1>5. ASSUME NEW f, NEW r \in RR, NEW b \in BB
      PROVE  /\ b < t => Body(f, r, b) = r
             /\ b >= t /\ r >= Sh(b) => Body(f, r, b) = f[<<r - Sh(b), TopBit(r - Sh(b))>>]
             /\ b >= t /\ ~(r >= Sh(b)) => Body(f, r, b) = f[<<r, b - 1>>]
  <2>1. (b - t < 0) <=> ~(b >= t)
    BY <1>1, <1>3
  <2>2. (b < t) <=> ~(b >= t)
    BY <1>1, <1>3
  <2> QED
    BY <2>1, <2>2, Zenon DEF Takes
<1>6. \A x \in RR, y \in BB : W[<<x, y>>] = IF y < t THEN x ELSE x % m
  OBVIOUS
<1>7. \A s \in D : s = <<s[1], s[2]>> /\ s[1] \in RR /\ s[2] \in BB
  OBVIOUS
<1>8. ASSUME NEW r \in RR, TopBit(r) < t PROVE r % m = r
  <2>1. r \in Nat /\ r < Range * Range
    BY <1>1
  <2>2. TopBit(r) + 1 \in Nat /\ TopBit(r) \in Int /\ r < Pow2[TopBit(r) + 1]
    BY <1>1, <2>1, TopBitValue
  <2>3. TopBit(r) + 1 <= t
    BY <1>3, <1>8, <2>2
  <2> HIDE DEF t
  <2>4. Pow2[TopBit(r) + 1] <= Pow2[t] /\ Pow2[TopBit(r) + 1] \in Nat /\ Pow2[t] \in Nat
    BY <1>3, <2>2, <2>3, Pow2Monotone, Pow2Step
  <2>5. r \in 0..(m - 1)
    BY <1>2, <1>3, <2>1, <2>2, <2>4
  <2> QED
    BY <1>2, <2>5, ModSmall
<1>9. ASSUME NEW r \in RR, NEW b \in BB, b >= t, r >= Sh(b)
      PROVE  r - Sh(b) \in RR /\ (r - Sh(b)) % m = r % m /\ TopBit(r - Sh(b)) \in BB
  <2>1. Sh(b) \in Nat /\ (Sh(b) = 0 \/ Sh(b) = m * Pow2[b - t]) /\ Pow2[b - t] \in Nat \ {0}
    BY <1>4, <1>9
  <2>2. r - Sh(b) \in RR
    BY <1>1, <1>9, <2>1
  <2>3. r - Sh(b) \in Nat /\ r - Sh(b) < Range * Range
    BY <1>1, <2>2
  <2>4. TopBit(r - Sh(b)) \in BB
    BY <2>3, TopBitValue
  <2>5. \E k \in Int : r - Sh(b) = r + k * m
    <3>1. CASE Sh(b) = 0
      <4>1. 0 \in Int /\ r - 0 = r + 0 * m
        BY <1>1, <1>2
      <4> QED
        BY <3>1, <4>1
    <3>2. CASE Sh(b) = m * Pow2[b - t]
      <4> DEFINE z == Pow2[b - t]
      <4>1. z \in Nat /\ Sh(b) = m * z
        BY <2>1, <3>2
      <4> HIDE DEF z, Sh
      <4>2. 0 - z \in Int /\ r - Sh(b) = r + (0 - z) * m
        BY <1>1, <1>2, <4>1
      <4> QED
        BY <4>2
    <3> QED
      BY <2>1, <3>1, <3>2
  <2>6. PICK k \in Int : r - Sh(b) = r + k * m
    BY <2>5
  <2>7. r \in Int /\ (r + k * m) % m = r % m
    <3>1. r \in Int
      BY <1>1
    <3> QED
      BY <1>2, <3>1, ModShift
  <2> QED
    BY <2>2, <2>4, <2>6, <2>7
<1>10. ASSUME NEW r \in RR, NEW b \in BB, b >= t, ~(r >= Sh(b))
       PROVE  b - 1 \in BB /\ (b - 1 < t => r % m = r)
  <2>1. Sh(b) \in Nat /\ (Sh(b) = 0 \/ Sh(b) = m * Pow2[b - t]) /\ b \in Nat
    BY <1>4, <1>10
  <2>2. r \in Nat /\ r < Sh(b)
    BY <1>1, <1>10, <2>1
  <2>3. b - 1 \in BB
    BY <1>1, <2>1
  <2>4. ASSUME b - 1 < t PROVE r % m = r
    <3>4. b = t /\ b - t = 0
      BY <1>3, <1>10, <2>1, <2>4
    <3>1. b = t /\ b - t = 0 /\ Pow2[b - t] = 1
      BY <3>4, Pow2Step
    <3>2. Sh(b) = 0 \/ Sh(b) = m
      BY <1>2, <2>1, <3>1
    <3>3. r \in 0..(m - 1)
      BY <1>2, <2>1, <2>2, <3>2
    <3> QED
      BY <1>2, <3>3, ModSmall
  <2> QED
    BY <2>3, <2>4
<1> HIDE DEF Sh, t, Body, RR, BB
<1>11. ASSUME NEW s \in D PROVE W[s] = Body(W, s[1], s[2])
  <2> DEFINE r == s[1]
             b == s[2]
  <2>1. r \in RR /\ b \in BB /\ W[s] = IF b < t THEN r ELSE r % m
    BY <1>7
  <2> HIDE DEF r, b, W, D
  <2>2. b \in Int /\ t \in Int
    BY <1>1, <1>3, <2>1 DEF BB
  <2>3. CASE b < t
    <3>1. Body(W, r, b) = r
      BY <1>5, <2>1, <2>3
    <3> QED
      BY <2>1, <2>3, <3>1 DEF r, b
  <2>4. CASE b >= t /\ r >= Sh(b)
    <3>1. Body(W, r, b) = W[<<r - Sh(b), TopBit(r - Sh(b))>>]
      BY <1>5, <2>1, <2>4
    <3>2. r - Sh(b) \in RR /\ (r - Sh(b)) % m = r % m /\ TopBit(r - Sh(b)) \in BB
      BY <1>9, <2>1, <2>4
    <3>3. W[<<r - Sh(b), TopBit(r - Sh(b))>>]
            = IF TopBit(r - Sh(b)) < t THEN r - Sh(b) ELSE (r - Sh(b)) % m
      BY <1>6, <3>2
    <3>4. TopBit(r - Sh(b)) < t => (r - Sh(b)) % m = r - Sh(b)
      BY <1>8, <3>2
    <3>5. Body(W, r, b) = r % m
      BY <3>1, <3>2, <3>3, <3>4, Zenon
    <3>6. ~(b < t)
      BY <2>2, <2>4
    <3> QED
      BY <2>1, <3>5, <3>6, Zenon DEF r, b
  <2>5. CASE b >= t /\ ~(r >= Sh(b))
    <3>1. Body(W, r, b) = W[<<r, b - 1>>]
      BY <1>5, <2>1, <2>5
    <3>2. b - 1 \in BB /\ (b - 1 < t => r % m = r)
      BY <1>10, <2>1, <2>5
    <3>3. W[<<r, b - 1>>] = IF b - 1 < t THEN r ELSE r % m
      BY <1>6, <2>1, <3>2
    <3>5. Body(W, r, b) = r % m
      BY <3>1, <3>2, <3>3, Zenon
    <3>6. ~(b < t)
      BY <2>2, <2>5
    <3> QED
      BY <2>1, <3>5, <3>6, Zenon DEF r, b
  <2> QED
    BY <2>2, <2>3, <2>4, <2>5
<1>12. W = [s \in D |-> Body(W, s[1], s[2])]
  BY <1>11, Zenon
<1> DEFINE left[s \in D] == Body(left, s[1], s[2])
<1>13. left = [s \in D |-> Body(left, s[1], s[2])]
  BY <1>12, Zenon
<1>14. big_mod(a, m) = left[<<a, TopBit(a)>>] % Range
  <2>1. ~(m = 0)
    BY <1>2
  <2> QED
    BY <2>1, Zenon DEF big_mod, Body, RR, BB
<1> HIDE DEF left, D, W
<1>15. ASSUME NEW r \in RR, NEW b \in BB PROVE left[<<r, b>>] = Body(left, r, b)
  <2> DEFINE s == <<r, b>>
  <2>1. s \in D /\ s[1] = r /\ s[2] = b
    BY DEF D
  <2> HIDE DEF s
  <2>2. left[s] = Body(left, s[1], s[2])
    BY <1>13, <2>1, Zenon
  <2>3. left[s] = Body(left, r, b)
    BY <2>1, <2>2, Zenon
  <2> QED
    BY <2>3, Zenon DEF s
<1> DEFINE Below(r, b) == (b < t => r < m) /\ (b >= t => r < 2 * (m * Pow2[b - t]))
           Good(b) == \A r \in RR : b \in BB /\ b - t < Bits + Width /\ Below(r, b) => left[<<r, b>>] = r % m
           Y == {k \in Nat : ~Good(k - 1)}
<1>18. ASSUME NEW r \in RR PROVE Below(r, TopBit(r)) /\ TopBit(r) \in BB /\ TopBit(r) + 1 \in Nat
  <2> DEFINE c == TopBit(r)
  <2>1. r \in Nat /\ r < Range * Range
    BY <1>1 DEF RR
  <2>2. c \in BB /\ c + 1 \in Nat /\ r < Pow2[c + 1]
    BY <2>1, TopBitValue DEF BB
  <2> HIDE DEF c
  <2>3. c \in Int
    BY <1>1, <2>2 DEF BB
  <2>4. ASSUME c < t PROVE r < m
    <3>1. c + 1 <= t
      BY <1>3, <2>3, <2>4
    <3>2. Pow2[c + 1] <= Pow2[t] /\ Pow2[c + 1] \in Nat /\ Pow2[t] \in Nat
      BY <1>3, <2>2, <3>1, Pow2Monotone, Pow2Step
    <3> QED
      BY <1>2, <1>3, <2>1, <2>2, <3>2
  <2>5. ASSUME c >= t PROVE r < 2 * (m * Pow2[c - t])
    <3>1. Pow2[c] <= m * Pow2[c - t] /\ c \in Nat /\ Pow2[c - t] \in Nat \ {0}
      BY <1>4, <2>2, <2>5
    <3>2. Pow2[c] \in Nat /\ Pow2[c + 1] = 2 * Pow2[c]
      BY <3>1, Pow2Step
    <3>3. m * Pow2[c - t] \in Nat
      BY <1>2, <3>1
    <3> QED
      BY <2>1, <2>2, <3>1, <3>2, <3>3
  <2>6. Below(r, c)
    BY <2>4, <2>5
  <2> QED
    BY <2>2, <2>6 DEF c
<1> HIDE DEF Below
<1>16. Y = {}
  <2> SUFFICES ASSUME Y # {} PROVE FALSE
    OBVIOUS
  <2>1. Y \subseteq Nat
    OBVIOUS
  <2> HIDE DEF Y
  <2>2. PICK k \in Y : \A j \in Y : k <= j
    BY <2>1, LeastNatural, Zenon
  <2> DEFINE b == k - 1
  <2>3. k \in Nat /\ ~Good(b)
    BY DEF Y
  <2>4. \A c \in Int : c + 1 \in Nat /\ c < b => Good(c)
    <3> TAKE c \in Int
    <3> HAVE c + 1 \in Nat /\ c < b
    <3>1. c + 1 \notin Y /\ (c + 1) - 1 = c
      BY <2>2, <2>3
    <3> HIDE DEF Good
    <3>2. Good((c + 1) - 1)
      BY <3>1 DEF Y
    <3> QED
      BY <3>1, <3>2
  <2>5. b + 1 = k
    BY <2>3
  <2> HIDE DEF b
  <2>6. PICK r \in RR : b \in BB /\ b - t < Bits + Width /\ Below(r, b) /\ left[<<r, b>>] # r % m
    BY <2>3
  <2> HIDE DEF Good
  <2>7. r \in Nat /\ b \in Int /\ b + 1 \in Nat /\ t \in Int /\ Bits + Width \in Int
    BY <1>1, <1>3, <2>3, <2>5, <2>6, LimbAssumption DEF RR, BB
  <2>8. CASE b < t
    <3>1. left[<<r, b>>] = r
      BY <1>5, <1>15, <2>6, <2>8
    <3>4. r \in 0..(m - 1)
      BY <1>2, <2>6, <2>7, <2>8 DEF Below
    <3>5. r % m = r
      BY <1>2, <3>4, ModSmall
    <3> QED
      BY <2>6, <3>1, <3>5
  <2>9. CASE b >= t
    <3>1. Sh(b) \in Nat /\ Sh(b) = m * Pow2[b - t] /\ b - t \in Nat /\ b \in Nat /\ Pow2[b - t] \in Nat \ {0}
          /\ Sh(b) < Pow2[b + 1]
      BY <1>4, <2>6, <2>9
    <3>2. ASSUME NEW u \in RR, ~(u >= Sh(b)) PROVE left[<<u, b>>] = u % m
      <4> DEFINE c == b - 1
      <4>1. left[<<u, b>>] = left[<<u, c>>]
        BY <1>5, <1>15, <2>6, <2>9, <3>2
      <4>2. c \in BB
        BY <1>10, <2>6, <2>9, <3>2
      <4>3. c \in Int /\ c + 1 = b /\ c < b /\ c - t < Bits + Width
        BY <2>6, <2>7
      <4>4. u \in Nat /\ u < Sh(b)
        BY <1>1, <3>1, <3>2 DEF RR
      <4>5. ASSUME c < t PROVE u < m
        <5>1. b - t = 0 /\ Pow2[0] = 1
          BY <2>7, <2>9, <4>5, Pow2Step
        <5>2. Sh(b) = m * 1
          BY <3>1, <5>1
        <5> QED
          BY <1>2, <4>4, <5>2
      <4>6. ASSUME c >= t PROVE u < 2 * (m * Pow2[c - t])
        <5>1. c - t \in Nat /\ b - t = (c - t) + 1
          BY <2>7, <4>6
        <5>2. Pow2[b - t] = 2 * Pow2[c - t] /\ Pow2[c - t] \in Nat
          BY <5>1, Pow2Step
        <5> DEFINE z == Pow2[c - t]
        <5>3. Sh(b) = m * (2 * z) /\ z \in Nat
          BY <3>1, <5>2
        <5> HIDE DEF z
        <5>4. m * (2 * z) = 2 * (m * z)
          BY <1>2, <5>3
        <5> QED
          BY <4>4, <5>3, <5>4 DEF z
      <4>7. Below(u, c)
        BY <4>5, <4>6, Zenon DEF Below
      <4> HIDE DEF c
      <4>8. Good(c)
        BY <2>4, <3>1, <4>3
      <4>9. left[<<u, c>>] = u % m
        BY <4>2, <4>3, <4>7, <4>8 DEF Good
      <4> QED
        BY <4>1, <4>9
    <3>3. CASE ~(r >= Sh(b))
      BY <2>6, <3>2, <3>3
    <3>4. CASE r >= Sh(b)
      <4> DEFINE rr == r - Sh(b)
                 c  == TopBit(rr)
      <4>1. left[<<r, b>>] = left[<<rr, c>>]
        BY <1>5, <1>15, <2>6, <2>9, <3>4
      <4>2. rr \in RR /\ rr % m = r % m
        BY <1>9, <2>6, <2>9, <3>4
      <4>3. r < 2 * Sh(b)
        BY <2>6, <2>9, <3>1 DEF Below
      <4>4. rr \in Nat /\ rr < Sh(b) /\ ~(rr >= Sh(b))
        BY <2>7, <3>1, <3>4, <4>3
      <4>5. rr < Range * Range /\ rr < Pow2[b + 1]
        <5>1. Pow2[b + 1] \in Nat
          BY <2>7, Pow2Step
        <5> QED
          BY <1>1, <3>1, <4>2, <4>4, <5>1 DEF RR
      <4> HIDE DEF rr
      <4>6. c < b + 1
        BY <2>7, <4>4, <4>5, TopBitBound
      <4>7. Below(rr, c) /\ c \in BB /\ c + 1 \in Nat
        BY <1>18, <4>2
      <4> HIDE DEF c
      <4>8. c \in Int
        BY <1>1, <4>7 DEF BB
      <4>9. CASE c = b
        <5>1. left[<<rr, c>>] = rr % m
          BY <3>2, <4>2, <4>4, <4>9
        <5> QED
          BY <2>6, <4>1, <4>2, <5>1
      <4>10. CASE c < b
        <5>1. Good(c)
          BY <2>4, <4>7, <4>8, <4>10
        <5>2. c - t < Bits + Width
          BY <2>6, <2>7, <4>8, <4>10
        <5>3. left[<<rr, c>>] = rr % m
          BY <4>2, <4>7, <5>1, <5>2 DEF Good
        <5> QED
          BY <2>6, <4>1, <4>2, <5>3
      <4> QED
        BY <2>7, <4>6, <4>8, <4>9, <4>10
    <3> QED
      BY <3>3, <3>4
  <2> QED
    BY <2>7, <2>8, <2>9
<1>17. \A c \in Int : c + 1 \in Nat => Good(c)
  <2> TAKE c \in Int
  <2> HAVE c + 1 \in Nat
  <2> HIDE DEF Good
  <2>1. c + 1 \notin Y
    BY <1>16
  <2>2. Good((c + 1) - 1)
    BY <2>1
  <2>3. (c + 1) - 1 = c
    OBVIOUS
  <2> QED
    BY <2>2, <2>3
<1> HIDE DEF Good
<1>19. a < Pow2[Bits + (t + 1)] /\ a \in RR
  <2>1. t + 1 \in Nat /\ t + 1 <= Bits /\ Bits + (t + 1) \in Nat /\ Bits + (t + 1) <= 2 * Bits
    BY <1>1, <1>3
  <2>2. Pow2[Bits + (t + 1)] = Pow2[Bits] * Pow2[t + 1]
    BY <1>1, <2>1, Pow2Sum
  <2>3. a < Pow2[Bits + (t + 1)]
    BY <1>1, <2>2 DEF t
  <2>4. Pow2[Bits + (t + 1)] <= Pow2[2 * Bits] /\ Pow2[Bits + (t + 1)] \in Nat
    BY <1>1, <2>1, Pow2Monotone, Pow2Step
  <2>5. a < Range * Range
    BY <1>1, <2>3, <2>4
  <2> QED
    BY <1>1, <2>3, <2>5 DEF RR
<1>20. left[<<a, TopBit(a)>>] = a % m
  <2>1. a < Range * Range /\ Bits + (t + 1) \in Nat
    BY <1>1, <1>3, <1>19 DEF RR
  <2>2. TopBit(a) < Bits + (t + 1)
    BY <1>19, <2>1, TopBitBound
  <2>3. Below(a, TopBit(a)) /\ TopBit(a) \in BB /\ TopBit(a) + 1 \in Nat
    BY <1>18, <1>19
  <2> DEFINE c == TopBit(a)
  <2> HIDE DEF c
  <2>4. c \in Int /\ c < Bits + (t + 1) /\ c \in BB /\ c + 1 \in Nat /\ Below(a, c)
    BY <1>1, <2>2, <2>3 DEF BB, c
  <2>5. Width \in Nat \ {0}
    BY LimbAssumption
  <2>6. c - t < Bits + Width
    BY <1>1, <1>3, <2>4, <2>5
  <2>7. Good(c)
    BY <1>17, <2>4
  <2>8. left[<<a, c>>] = a % m
    BY <1>19, <2>4, <2>6, <2>7 DEF Good
  <2> QED
    BY <2>8 DEF c
<1>21. a % m \in 0..(Range - 1)
  <2>1. a % m \in 0..(m - 1)
    BY <1>2
  <2> QED
    BY <1>1, <1>2, <2>1
<1>22. (a % m) % Range = a % m
  BY <1>1, <1>21, ModSmall
<1> QED
  BY <1>14, <1>20, <1>22

-----------------------------------------------------------------------------
(* ChebyShev.c: sums of products modulo m.                                 *)
LEMMA HalfPower ==
  /\ Pow2[Half * Width] \in Nat /\ Pow2[Half * Width] >= 2 /\ 2 * Pow2[Half * Width] <= Range
  /\ Pow2[Half * Width] * Pow2[Half * Width] <= Range
<1> DEFINE h == Half * Width
           E == Pow2[h]
<1>1. Half \in Nat \ {0} /\ Width \in Nat \ {0} /\ Limbs \in Nat \ {0} /\ 2 * Half <= Limbs
  BY HalfAssumption, LimbAssumption
<1>2. h \in Nat \ {0}
  BY <1>1
<1>3. (2 * Half) * Width <= Limbs * Width /\ (2 * Half) * Width = h + h /\ Limbs * Width = Bits
  <2>1. \A u, v, w \in Nat : u <= v => u * w <= v * w
    OBVIOUS
  <2>2. (2 * Half) * Width <= Limbs * Width
    BY <1>1, <2>1
  <2>3. (2 * Half) * Width = h + h /\ Limbs * Width = Bits
    BY <1>1 DEF Bits
  <2> QED
    BY <2>2, <2>3
<1> HIDE DEF h
<1>4. h + h \in Nat /\ h + h <= Bits /\ Bits \in Nat /\ 0 < h
  BY <1>2, <1>3, Lengths
<1>5. Pow2[h + h] = E * E
  BY <1>2, Pow2Sum
<1>6. Pow2[h + h] <= Pow2[Bits]
  BY <1>4, Pow2Monotone
<1>7. 2 * Pow2[0] <= E /\ Pow2[0] = 1 /\ E \in Nat
  BY <1>2, <1>4, Pow2Monotone, Pow2Step
<1> HIDE DEF E
<1>8. E >= 2 /\ 2 * E <= E * E
  BY <1>7
<1>9. E * E \in Nat /\ Range \in Nat /\ E * E <= Range
  BY <1>5, <1>6, <1>7, Lengths DEF Range
<1> QED
  BY <1>7, <1>8, <1>9 DEF E, h

(* The numbers whose products are reduced exactly.                         *)
Fits(v, m) == v \in Nat /\ (v < m \/ v < 2 * Pow2[Half * Width])

LEMMA ProductBound ==
  ASSUME NEW u \in Nat, NEW v \in Nat, NEW E \in Nat, NEW R \in Nat, NEW m \in Nat, NEW P \in Nat,
         u < m \/ u < 2 * E, v < m \/ v < 2 * E, E * E <= R, 2 * E <= R, m < R, m < P, 4 <= P
  PROVE  u * v < R * P
<1>1. \A a, b, c, d \in Nat : a < c /\ b < d => a * b < c * d
  <2> TAKE a, b, c, d \in Nat
  <2> HAVE a < c /\ b < d
  <2>1. a * b <= a * d
    OBVIOUS
  <2>2. a * d < c * d
    OBVIOUS
  <2> QED
    BY <2>1, <2>2
<1>2. \A a, b, c, d \in Nat : a <= c /\ b <= d => a * b <= c * d
  <2> TAKE a, b, c, d \in Nat
  <2> HAVE a <= c /\ b <= d
  <2>1. a * b <= a * d
    OBVIOUS
  <2>2. a * d <= c * d
    OBVIOUS
  <2> QED
    BY <2>1, <2>2
<1>3. u * v \in Nat /\ R * P \in Nat /\ v * u = u * v /\ m * m \in Nat /\ E * E \in Nat /\ R * 4 \in Nat /\ 2 * E \in Nat
  OBVIOUS
<1>4. CASE u < m /\ v < m
  <2>1. u * v < m * m
    BY <1>1, <1>4
  <2>2. m * m <= R * P
    BY <1>2
  <2> QED
    BY <1>3, <2>1, <2>2
<1>5. CASE u < 2 * E /\ v < m
  <2>1. u < R
    BY <1>3, <1>5
  <2>2. v < P
    BY <1>5
  <2> QED
    BY <1>1, <2>1, <2>2
<1>6. CASE u < m /\ v < 2 * E
  <2>1. v < R
    BY <1>3, <1>6
  <2>2. u < P
    BY <1>6
  <2>3. v * u < R * P
    BY <1>1, <2>1, <2>2
  <2> QED
    BY <1>3, <2>3
<1>7. CASE u < 2 * E /\ v < 2 * E
  <2>1. u * v < (2 * E) * (2 * E)
    BY <1>1, <1>3, <1>7
  <2>2. (2 * E) * (2 * E) = (E * E) * 4
    OBVIOUS
  <2>3. (E * E) * 4 <= R * 4
    BY <1>3
  <2>4. R * 4 <= R * P
    BY <1>2
  <2> QED
    BY <1>3, <2>1, <2>2, <2>3, <2>4
<1> QED
  BY <1>4, <1>5, <1>6, <1>7

LEMMA ProductExact ==
  ASSUME NEW m \in 2..(Range - 1), NEW u, NEW v, Fits(u, m), Fits(v, m)
  PROVE  big_mod(big_mul(u, v), m) = (u * v) % m
<1> DEFINE t == TopBit(m)
           E == Pow2[Half * Width]
           P == Pow2[t + 1]
<1>1. Range \in Nat \ {0} /\ m \in Nat /\ m < Range /\ m < Range * Range
  <2>1. Range \in Nat \ {0}
    BY Lengths
  <2> QED
    BY <2>1
<1>2. t \in Nat /\ m < P
  BY <1>1, TopBitValue
<1> HIDE DEF t
<1>3. P \in Nat /\ 4 <= P
  <2>1. Pow2[0] = 1 /\ Pow2[0 + 1] = 2 * Pow2[0] /\ 0 + 1 = 1
    BY Pow2Step
  <2>2. t # 0
    BY <1>1, <1>2, <2>1
  <2>3. 1 < t + 1 /\ 1 \in Nat /\ t + 1 \in Nat
    BY <1>2, <2>2
  <2>4. 2 * Pow2[1] <= Pow2[t + 1] /\ Pow2[t + 1] \in Nat
    BY <2>3, Pow2Monotone, Pow2Step
  <2> QED
    BY <2>1, <2>4
<1>4. E \in Nat /\ E * E <= Range /\ 2 * E <= Range
  BY HalfPower
<1>5. u \in Nat /\ v \in Nat /\ (u < m \/ u < 2 * E) /\ (v < m \/ v < 2 * E)
  BY DEF Fits
<1> HIDE DEF E, P
<1>6. u * v < Range * P
  BY <1>1, <1>2, <1>3, <1>4, <1>5, ProductBound
<1>7. u * v \in Nat /\ m \in 1..(Range - 1)
  BY <1>1, <1>5
<1>8. u * v < Range * Pow2[TopBit(m) + 1]
  BY <1>6 DEF P, t
<1> QED
  BY <1>7, <1>8, BigModExact DEF big_mul

LEMMA DotExact ==
  ASSUME NEW m \in 2..(Range - 1), 2 * m <= Range, NEW a, NEW b, NEW c, NEW d,
         Fits(a, m), Fits(b, m), Fits(c, m), Fits(d, m)
  PROVE  /\ DotMod(a, b, c, d, m).res = (a * b + c * d) % m /\ DotMod(a, b, c, d, m).carry = 0
         /\ (a * b + c * d) % m \in 0..(m - 1)
<1> DEFINE u == a * b
           v == c * d
           r0 == u % m
           r1 == v % m
           q0 == u \div m
           q1 == v \div m
           s == r0 + r1
<1>1. Range \in Nat \ {0} /\ m \in Nat \ {0} /\ m < Range
  <2>1. Range \in Nat \ {0}
    BY Lengths
  <2> QED
    BY <2>1
<1>2. u \in Int /\ v \in Int
  BY DEF Fits
<1>3. big_mod(big_mul(a, b), m) = r0 /\ big_mod(big_mul(c, d), m) = r1
  BY ProductExact
<1> HIDE DEF u, v
<1>4. r0 \in 0..(m - 1) /\ u = q0 * m + r0 /\ q0 \in Int
  BY <1>1, <1>2, DivMod, Zenon
<1>5. r1 \in 0..(m - 1) /\ v = q1 * m + r1 /\ q1 \in Int
  BY <1>1, <1>2, DivMod, Zenon
<1> HIDE DEF r0, r1, q0, q1
<1>6. s \in 0..(2 * m - 2) /\ s \in 0..(Range - 1)
  BY <1>1, <1>4, <1>5
<1>7. u + v = (q0 + q1) * m + s /\ q0 + q1 \in Int /\ u + v \in Int
  BY <1>1, <1>2, <1>4, <1>5
<1> DEFINE D == DotMod(a, b, c, d, m)
           S == big_add(r0, r1)
<1>8. D = AddReduced(r0, r1, m)
  BY <1>3 DEF DotMod
<1>9. S.res = s /\ S.carry = 0
  <2>1. s % Range = s /\ s \div Range = 0
    <3>1. s \in Int /\ 0 \in Int /\ s = 0 * Range + s
      BY <1>1, <1>6
    <3> QED
      BY <1>1, <1>6, <3>1, ModUnique
  <2> QED
    BY <2>1 DEF big_add
<1> HIDE DEF s, S
<1>10. D.carry = 0 /\ D.res = IF s >= m THEN big_sub(s, m) ELSE s
  BY <1>8, <1>9 DEF AddReduced, S
<1>11. (u + v) % m \in 0..(m - 1) /\ D.res = (u + v) % m
  <2>1. CASE s < m
    <3>1. s \in 0..(m - 1)
      BY <1>6, <2>1
    <3>2. (u + v) % m = s
      BY <1>1, <1>7, <3>1, ModUnique
    <3>3. D.res = s
      BY <1>1, <1>6, <1>10, <2>1
    <3> QED
      BY <3>1, <3>2, <3>3
  <2>2. CASE s >= m
    <3>1. s - m \in 0..(m - 1) /\ s - m \in 0..(Range - 1)
      BY <1>1, <1>6, <2>2
    <3>2. u + v = ((q0 + q1) + 1) * m + (s - m) /\ (q0 + q1) + 1 \in Int
      BY <1>1, <1>4, <1>5, <1>6, <1>7
    <3>3. (u + v) % m = s - m
      BY <1>1, <1>7, <3>1, <3>2, ModUnique
    <3>4. (s - m) % Range = s - m
      BY <1>1, <3>1, ModSmall
    <3>5. D.res = s - m
      BY <1>10, <2>2, <3>4 DEF big_sub
    <3> QED
      BY <3>1, <3>3, <3>5
  <2> QED
    BY <1>1, <1>6, <2>1, <2>2
<1> QED
  BY <1>10, <1>11 DEF u, v

-----------------------------------------------------------------------------
(* Matrices of integers, and the ones that matrix_mul computes modulo m.   *)
Cong(a, b, m) == a \in Int /\ b \in Int /\ a % m = b % m

Differ(a, b, m) == a \in Int /\ b \in Int /\ \E k \in Int : a = b + k * m

LEMMA CongruentDiffer ==
  ASSUME NEW a, NEW b, NEW m \in Nat \ {0}, Cong(a, b, m)
  PROVE  Differ(a, b, m)
<1>5. a \in Int /\ b \in Int /\ a % m = b % m
  BY DEF Cong
<1> DEFINE p == a \div m
           q == b \div m
           r == b % m
<1>4. p \in Int /\ a = p * m + (a % m)
  BY <1>5, DivMod, Zenon
<1>1. p \in Int /\ a = p * m + r
  BY <1>4, <1>5
<1>2. q \in Int /\ b = q * m + r /\ r \in 0..(m - 1)
  BY <1>5, DivMod, Zenon
<1> HIDE DEF p, q, r
<1>3. p - q \in Int /\ a = b + (p - q) * m
  BY <1>1, <1>2
<1> QED
  BY <1>3, <1>5 DEF Differ

LEMMA DotCongruent ==
  ASSUME NEW m \in Nat \ {0}, NEW a, NEW b, NEW c, NEW d, NEW e, NEW f, NEW g, NEW h,
         Cong(a, e, m), Cong(b, f, m), Cong(c, g, m), Cong(d, h, m)
  PROVE  (a * b + c * d) % m = (e * f + g * h) % m
<1>11. Differ(a, e, m)
  BY CongruentDiffer
<1>1. PICK i \in Int : a = e + i * m
  BY <1>11 DEF Differ
<1>12. Differ(b, f, m)
  BY CongruentDiffer
<1>2. PICK j \in Int : b = f + j * m
  BY <1>12 DEF Differ
<1>13. Differ(c, g, m)
  BY CongruentDiffer
<1>3. PICK k \in Int : c = g + k * m
  BY <1>13 DEF Differ
<1>14. Differ(d, h, m)
  BY CongruentDiffer
<1>4. PICK l \in Int : d = h + l * m
  BY <1>14 DEF Differ
<1>10. e \in Int /\ f \in Int /\ g \in Int /\ h \in Int
  BY DEF Cong
<1> DEFINE x == e * f + g * h
           y == (e * j + i * f + i * j * m) + (g * l + k * h + k * l * m)
<1>5. a * b = e * f + (e * j + i * f + i * j * m) * m
  BY <1>1, <1>2, <1>10
<1>6. c * d = g * h + (g * l + k * h + k * l * m) * m
  BY <1>3, <1>4, <1>10
<1>7. a * b + c * d = x + y * m /\ x \in Int /\ y \in Int
  BY <1>5, <1>6, <1>10
<1> HIDE DEF x, y
<1>8. (x + y * m) % m = x % m
  BY <1>7, ModShift, Zenon
<1> QED
  BY <1>7, <1>8 DEF x

Matrix == Int \X Int \X Int \X Int

MatMul(A, B) ==
    <<A[1] * B[1] + A[2] * B[3], A[1] * B[2] + A[2] * B[4],
      A[3] * B[1] + A[4] * B[3], A[3] * B[2] + A[4] * B[4]>>

LEMMA MatMulType == \A A, B \in Matrix : MatMul(A, B) \in Matrix
BY DEF Matrix, MatMul

LEMMA RowAssociative ==
  ASSUME NEW a1 \in Int, NEW a2 \in Int, NEW b1 \in Int, NEW b2 \in Int, NEW b3 \in Int, NEW b4 \in Int,
         NEW c1 \in Int, NEW c3 \in Int
  PROVE  (a1 * b1 + a2 * b3) * c1 + (a1 * b2 + a2 * b4) * c3
           = a1 * (b1 * c1 + b2 * c3) + a2 * (b3 * c1 + b4 * c3)
OBVIOUS

LEMMA MatMulAssociative ==
  ASSUME NEW A \in Matrix, NEW B \in Matrix, NEW C \in Matrix
  PROVE  MatMul(MatMul(A, B), C) = MatMul(A, MatMul(B, C))
<1>1. /\ A[1] \in Int /\ A[2] \in Int /\ A[3] \in Int /\ A[4] \in Int
      /\ B[1] \in Int /\ B[2] \in Int /\ B[3] \in Int /\ B[4] \in Int
      /\ C[1] \in Int /\ C[2] \in Int /\ C[3] \in Int /\ C[4] \in Int
  BY DEF Matrix
<1> DEFINE L == MatMul(MatMul(A, B), C)
           R == MatMul(A, MatMul(B, C))
<1>2. L[1] = R[1]
  BY <1>1, RowAssociative DEF MatMul
<1>3. L[2] = R[2]
  BY <1>1, RowAssociative DEF MatMul
<1>4. L[3] = R[3]
  BY <1>1, RowAssociative DEF MatMul
<1>5. L[4] = R[4]
  BY <1>1, RowAssociative DEF MatMul
<1>6. L \in Matrix /\ R \in Matrix
  BY MatMulType
<1> HIDE DEF L, R
<1> QED
  BY <1>2, <1>3, <1>4, <1>5, <1>6 DEF L, R, Matrix

Id == <<1, 0, 0, 1>>

LEMMA MatMulId == Id \in Matrix /\ \A A \in Matrix : MatMul(A, Id) = A /\ MatMul(Id, A) = A
<1>1. Id \in Matrix
  BY DEF Id, Matrix
<1>2. ASSUME NEW A \in Matrix PROVE MatMul(A, Id) = A /\ MatMul(Id, A) = A
  <2>1. A[1] \in Int /\ A[2] \in Int /\ A[3] \in Int /\ A[4] \in Int /\ A = <<A[1], A[2], A[3], A[4]>>
    BY DEF Matrix
  <2> QED
    BY <2>1 DEF MatMul, Id
<1> QED
  BY <1>1, <1>2

(* P is the sequence of the powers of M.                                   *)
IsPowers(P, M) ==
    P \in [Nat -> Matrix] /\ P[0] = Id /\ \A n \in Nat : P[n + 1] = MatMul(P[n], M)

LEMMA PowersExist == ASSUME NEW M \in Matrix PROVE \E P : IsPowers(P, M)
<1> DEFINE S == Matrix
           s0 == Id
           st == [s \in Nat \X S |-> MatMul(s[2], M)]
<1>1. s0 \in S /\ st \in [Nat \X S -> S]
  BY MatMulId, MatMulType
<1>2. \A n \in Nat, A \in Matrix : st[<<n, A>>] = MatMul(A, M)
  OBVIOUS
<1> HIDE DEF S, s0, st
<1>3. PICK f : IsIteration(f, S, s0, st)
  BY <1>1, Iteration
<1>4. f \in [Nat -> Matrix] /\ f[0] = Id /\ \A n \in Nat : f[n + 1] = st[<<n, f[n]>>]
  BY <1>3, Zenon DEF S, s0, IsIteration
<1>5. ASSUME NEW n \in Nat PROVE f[n + 1] = MatMul(f[n], M)
  <2>1. f[n] \in Matrix
    BY <1>4
  <2> QED
    BY <1>2, <1>4, <2>1
<1>6. IsPowers(f, M)
  BY <1>4, <1>5 DEF IsPowers
<1> QED
  BY <1>6

LEMMA PowersSum ==
  ASSUME NEW M \in Matrix, NEW P, IsPowers(P, M)
  PROVE  \A k, l \in Nat : P[k + l] = MatMul(P[k], P[l])
<1> TAKE k \in Nat
<1> DEFINE X == {l \in Nat : P[k + l] = MatMul(P[k], P[l])}
<1>1. \A n \in Nat : P[n] \in Matrix
  BY DEF IsPowers
<1>2. 0 \in X
  <2>1. k + 0 = k /\ P[0] = Id /\ P[k] \in Matrix
    BY <1>1 DEF IsPowers
  <2>2. P[k + 0] = MatMul(P[k], P[0])
    BY <2>1, MatMulId
  <2> QED
    BY <2>2
<1>3. ASSUME NEW l \in Nat, l \in X PROVE l + 1 \in X
  <2>1. k + l \in Nat /\ (k + l) + 1 = k + (l + 1)
    OBVIOUS
  <2>2. P[k + l] = MatMul(P[k], P[l])
    BY <1>3
  <2>3. P[(k + l) + 1] = MatMul(P[k + l], M) /\ P[l + 1] = MatMul(P[l], M)
    BY <2>1 DEF IsPowers
  <2>4. MatMul(MatMul(P[k], P[l]), M) = MatMul(P[k], MatMul(P[l], M))
    BY <1>1, MatMulAssociative
  <2>5. P[k + (l + 1)] = MatMul(P[k], P[l + 1])
    BY <2>1, <2>2, <2>3, <2>4
  <2> QED
    BY <2>5
<1> HIDE DEF X
<1>4. \A l \in Nat : l \in X
  BY <1>2, <1>3, SetInduction
<1> QED
  BY <1>4 DEF X

(* Two numbers stand for the factors of a product of integers.             *)
Factors(a, b, e, f, m) == Fits(a, m) /\ Fits(b, m) /\ Cong(a, e, m) /\ Cong(b, f, m)

LEMMA EntryExact ==
  ASSUME NEW m \in 2..(Range - 1), 2 * m <= Range, NEW a, NEW b, NEW c, NEW d,
         NEW e, NEW f, NEW g, NEW h, Factors(a, b, e, f, m), Factors(c, d, g, h, m)
  PROVE  Fits(DotMod(a, b, c, d, m).res, m) /\ Cong(DotMod(a, b, c, d, m).res, e * f + g * h, m)
<1>1. m \in Nat \ {0}
  <2>1. Range \in Nat
    BY Lengths
  <2> QED
    BY <2>1
<1> DEFINE z == (a * b + c * d) % m
           r == DotMod(a, b, c, d, m).res
<1>2. /\ Fits(a, m) /\ Fits(b, m) /\ Fits(c, m) /\ Fits(d, m)
      /\ Cong(a, e, m) /\ Cong(b, f, m) /\ Cong(c, g, m) /\ Cong(d, h, m)
  BY DEF Factors
<1>3. r = z /\ z \in 0..(m - 1)
  BY <1>2, DotExact
<1>4. z = (e * f + g * h) % m
  BY <1>1, <1>2, DotCongruent
<1>5. e * f + g * h \in Int
  BY <1>2 DEF Cong
<1> HIDE DEF z, r
<1>6. z % m = z
  BY <1>1, <1>3, ModSmall
<1>7. z \in Int /\ Fits(z, m)
  BY <1>1, <1>3 DEF Fits
<1>8. Fits(r, m) /\ Cong(r, e * f + g * h, m)
  BY <1>3, <1>4, <1>5, <1>6, <1>7 DEF Cong
<1> QED
  BY <1>8 DEF r

(* A matrix of machine numbers that stands for a matrix of integers.       *)
FitMatrix(m) == {A \in Matrix : Fits(A[1], m) /\ Fits(A[2], m) /\ Fits(A[3], m) /\ Fits(A[4], m)}

Congruent(A, B, m) ==
    A[1] % m = B[1] % m /\ A[2] % m = B[2] % m /\ A[3] % m = B[3] % m /\ A[4] % m = B[4] % m

LEMMA MatrixMulExact ==
  ASSUME NEW m \in 2..(Range - 1), 2 * m <= Range, NEW A \in FitMatrix(m), NEW B \in FitMatrix(m),
         NEW C \in Matrix, NEW D \in Matrix, Congruent(A, C, m), Congruent(B, D, m)
  PROVE  matrix_mul(A, B, m) \in FitMatrix(m) /\ Congruent(matrix_mul(A, B, m), MatMul(C, D), m)
<1>1. m \in Nat \ {0}
  <2>1. Range \in Nat
    BY Lengths
  <2> QED
    BY <2>1
<1>2. /\ A[1] \in Int /\ A[2] \in Int /\ A[3] \in Int /\ A[4] \in Int
      /\ B[1] \in Int /\ B[2] \in Int /\ B[3] \in Int /\ B[4] \in Int
  BY DEF FitMatrix, Matrix
<1>3. /\ C[1] \in Int /\ C[2] \in Int /\ C[3] \in Int /\ C[4] \in Int
      /\ D[1] \in Int /\ D[2] \in Int /\ D[3] \in Int /\ D[4] \in Int
  BY DEF Matrix
<1>4. /\ Fits(A[1], m) /\ Fits(A[2], m) /\ Fits(A[3], m) /\ Fits(A[4], m)
      /\ Fits(B[1], m) /\ Fits(B[2], m) /\ Fits(B[3], m) /\ Fits(B[4], m)
  BY DEF FitMatrix
<1>5. /\ Cong(A[1], C[1], m) /\ Cong(A[2], C[2], m) /\ Cong(A[3], C[3], m) /\ Cong(A[4], C[4], m)
      /\ Cong(B[1], D[1], m) /\ Cong(B[2], D[2], m) /\ Cong(B[3], D[3], m) /\ Cong(B[4], D[4], m)
  BY <1>2, <1>3, Zenon DEF Congruent, Cong
<1> DEFINE r1 == DotMod(A[1], B[1], A[2], B[3], m).res
           r2 == DotMod(A[1], B[2], A[2], B[4], m).res
           r3 == DotMod(A[3], B[1], A[4], B[3], m).res
           r4 == DotMod(A[3], B[2], A[4], B[4], m).res
<1>6. /\ Factors(A[1], B[1], C[1], D[1], m) /\ Factors(A[2], B[3], C[2], D[3], m)
      /\ Factors(A[1], B[2], C[1], D[2], m) /\ Factors(A[2], B[4], C[2], D[4], m)
      /\ Factors(A[3], B[1], C[3], D[1], m) /\ Factors(A[4], B[3], C[4], D[3], m)
      /\ Factors(A[3], B[2], C[3], D[2], m) /\ Factors(A[4], B[4], C[4], D[4], m)
  BY <1>4, <1>5 DEF Factors
<1>7. Fits(r1, m) /\ Cong(r1, C[1] * D[1] + C[2] * D[3], m)
  BY <1>6, EntryExact
<1>8. Fits(r2, m) /\ Cong(r2, C[1] * D[2] + C[2] * D[4], m)
  BY <1>6, EntryExact
<1>9. Fits(r3, m) /\ Cong(r3, C[3] * D[1] + C[4] * D[3], m)
  BY <1>6, EntryExact
<1>10. Fits(r4, m) /\ Cong(r4, C[3] * D[2] + C[4] * D[4], m)
  BY <1>6, EntryExact
<1>11. matrix_mul(A, B, m) = <<r1, r2, r3, r4>>
  BY DEF matrix_mul
<1> HIDE DEF r1, r2, r3, r4
<1>14. r1 \in Int /\ r2 \in Int /\ r3 \in Int /\ r4 \in Int
  BY <1>7, <1>8, <1>9, <1>10 DEF Cong
<1>12. <<r1, r2, r3, r4>> \in FitMatrix(m)
  BY <1>7, <1>8, <1>9, <1>10, <1>14 DEF FitMatrix, Matrix
<1>13. Congruent(<<r1, r2, r3, r4>>, MatMul(C, D), m)
  BY <1>7, <1>8, <1>9, <1>10 DEF Congruent, MatMul, Cong
<1> QED
  BY <1>11, <1>12, <1>13

LEMMA BitSplit ==
  ASSUME NEW a \in Nat, NEW w \in Nat \ {0}
  PROVE  a % (2 * w) = (a % w) + ((a \div w) % 2) * w
<1> DEFINE v == a \div w
           r == a % w
           u == a \div (2 * w)
           b == v % 2
<1>1. v \in Nat /\ u \in Nat /\ 2 * w \in Nat \ {0}
  <2>1. v \in Nat
    BY DivNat
  <2>2. 2 * w \in Nat \ {0}
    OBVIOUS
  <2>3. u \in Nat
    BY <2>2, DivNat
  <2> QED
    BY <2>1, <2>2, <2>3
<1>2. a \in Int
  OBVIOUS
<1>3. a = v * w + r /\ r \in 0..(w - 1)
  BY <1>2, DivMod, Zenon
<1>4. v = 2 * u + b
  BY DivTwice
<1>5. b \in 0..1
  BY <1>1
<1> HIDE DEF v, r, u, b
<1>6. a = u * (2 * w) + (r + b * w)
  <2>1. v * w = u * (2 * w) + b * w
    BY <1>1, <1>4, <1>5
  <2> QED
    BY <1>1, <1>3, <1>5, <2>1
<1>7. r + b * w \in 0..(2 * w - 1)
  <2>1. CASE b = 0
    BY <1>3, <2>1
  <2>2. CASE b = 1
    BY <1>3, <2>2
  <2> QED
    BY <1>5, <2>1, <2>2
<1>8. u \in Int
  BY <1>1
<1>9. a % (2 * w) = r + b * w
  BY <1>1, <1>2, <1>6, <1>7, <1>8, ModUnique
<1> QED
  BY <1>9 DEF r, b, v

(* Square and multiply computes the power.                                 *)
LEMMA MatrixPowExact ==
  ASSUME NEW m \in 2..(Range - 1), 2 * m <= Range, NEW A \in FitMatrix(m), NEW C \in Matrix,
         Congruent(A, C, m), NEW P, IsPowers(P, C), NEW e \in 0..(Range - 1)
  PROVE  matrix_pow(A, e, m) \in FitMatrix(m) /\ Congruent(matrix_pow(A, e, m), P[e], m)
<1> DEFINE F  == FitMatrix(m)
           S  == [base : F, result : F]
           s0 == [base |-> A, result |-> <<1, 0, 0, 1>>]
           Bit(k) == (e \div Pow2[k]) % 2
           Body(s, k) == [base   |-> matrix_mul(s.base, s.base, m),
                          result |-> IF Bit(k) = 1 THEN matrix_mul(s.result, s.base, m) ELSE s.result]
           st == [q \in Nat \X S |-> Body(q[2], q[1])]
<1>1. Range \in Nat \ {0} /\ Bits \in Nat /\ Range = Pow2[Bits] /\ m \in Nat \ {0} /\ e \in Nat /\ e < Pow2[Bits]
      /\ Range <= Range * Range
  <2>1. Range \in Nat \ {0} /\ Bits \in Nat /\ Range = Pow2[Bits]
    BY Lengths DEF Range
  <2>2. Range <= Range * Range
    BY <2>1
  <2> QED
    BY <2>1, <2>2
<1>2. s0 \in S
  <2>1. Fits(0, m) /\ Fits(1, m)
    BY <1>1 DEF Fits
  <2>2. <<1, 0, 0, 1>> \in F
    BY <2>1 DEF FitMatrix, Matrix
  <2> QED
    BY <2>2
<1>3. \A X, Y \in F : matrix_mul(X, Y, m) \in F
  <2> TAKE X, Y \in F
  <2>1. X \in Matrix /\ Y \in Matrix /\ Congruent(X, X, m) /\ Congruent(Y, Y, m)
    BY DEF FitMatrix, Congruent
  <2> QED
    BY <2>1, MatrixMulExact
<1> HIDE DEF F, Bit
<1>4. \A s \in S, k \in Nat : Body(s, k) \in S
  <2> TAKE s \in S, k \in Nat
  <2>1. s.base \in F /\ s.result \in F
    OBVIOUS
  <2>2. matrix_mul(s.base, s.base, m) \in F /\ matrix_mul(s.result, s.base, m) \in F
    BY <1>3, <2>1
  <2> QED
    BY <2>1, <2>2
<1> HIDE DEF Body, S
<1>5. st \in [Nat \X S -> S] /\ \A n \in Nat, s \in S : st[<<n, s>>] = Body(s, n)
  BY <1>4
<1> HIDE DEF s0, st
<1>6. PICK f : IsIteration(f, S, s0, st)
  BY <1>2, <1>5, Iteration
<1>7. f[0] = s0 /\ \A n \in Nat : f[n + 1] = Body(f[n], n)
  BY <1>5, <1>6 DEF IsIteration
<1> DEFINE W == [k \in 0..Bits |-> f[k]]
<1>8. ASSUME NEW k \in 0..Bits PROVE W[k] = IF k = 0 THEN s0 ELSE Body(W[k - 1], k - 1)
  <2>1. CASE k = 0
    BY <1>7, <2>1
  <2>2. CASE k # 0
    <3>1. k - 1 \in Nat /\ (k - 1) + 1 = k /\ k - 1 \in 0..Bits
      BY <1>1, <2>2
    <3>2. f[k] = Body(f[k - 1], k - 1)
      BY <1>7, <3>1
    <3> QED
      BY <2>2, <3>1, <3>2
  <2> QED
    BY <2>1, <2>2
<1>9. W = [k \in 0..Bits |-> IF k = 0 THEN s0 ELSE Body(W[k - 1], k - 1)]
  BY <1>8, Zenon
<1> DEFINE pass[k \in 0..Bits] == IF k = 0 THEN s0 ELSE Body(pass[k - 1], k - 1)
<1>10. pass = [k \in 0..Bits |-> IF k = 0 THEN s0 ELSE Body(pass[k - 1], k - 1)]
  BY <1>9, Zenon
<1>11. matrix_pow(A, e, m) = pass[TopBit(e) + 1].result
  BY Zenon DEF matrix_pow, s0, Body, Bit
<1> HIDE DEF pass, W
<1> DEFINE Right(s, k) == /\ s.base \in F /\ Congruent(s.base, P[Pow2[k]], m)
                          /\ s.result \in F /\ Congruent(s.result, P[e % Pow2[k]], m)
           X == {k \in Nat : k <= Bits => Right(pass[k], k)}
<1>12. \A n \in Nat : P[n] \in Matrix
  BY DEF IsPowers
<1>13. 0 \in X
  <2>1. pass[0] = s0
    BY <1>1, <1>10
  <2>2. Pow2[0] = 1 /\ e % 1 = 0
    BY <1>1, Pow2Step
  <2>3. P[0] = Id /\ P[0 + 1] = MatMul(P[0], C) /\ 0 + 1 = 1
    BY DEF IsPowers
  <2>4. P[1] = C
    BY <2>3, MatMulId
  <2>5. s0.base = A /\ s0.result = Id /\ s0.base \in F /\ s0.result \in F
    BY <1>2 DEF s0, Id, S
  <2>6. Congruent(Id, Id, m)
    BY DEF Congruent
  <2>7. Right(s0, 0)
    BY <2>2, <2>3, <2>4, <2>5, <2>6
  <2> QED
    BY <2>1, <2>7
<1>14. ASSUME NEW k \in Nat, k \in X PROVE k + 1 \in X
  <2> SUFFICES ASSUME k + 1 <= Bits PROVE Right(pass[k + 1], k + 1)
    OBVIOUS
  <2> DEFINE s == pass[k]
             p == Pow2[k]
             r == e % p
  <2>1. Right(s, k)
    BY <1>1, <1>14
  <2>2. pass[k + 1] = Body(s, k)
    <3>1. k + 1 \in 0..Bits /\ k + 1 # 0 /\ (k + 1) - 1 = k
      BY <1>1
    <3> QED
      BY <1>10, <3>1
  <2>3. p \in Nat \ {0} /\ Pow2[k + 1] = 2 * p
    BY Pow2Step, Pow2Positive
  <2>4. r \in Nat
    BY <1>1, <2>3
  <2>5. Bit(k) \in {0, 1} /\ e % Pow2[k + 1] = r + Bit(k) * p
    <3>1. e % (2 * p) = r + ((e \div p) % 2) * p
      BY <1>1, <2>3, BitSplit
    <3>2. e \div p \in Nat
      BY <1>1, <2>3, DivNat
    <3>3. (e \div p) % 2 \in {0, 1}
      BY <3>2
    <3> QED
      BY <2>3, <3>1, <3>3 DEF Bit
  <2> HIDE DEF s
  <2>6. /\ s.base \in FitMatrix(m) /\ Congruent(s.base, P[p], m)
        /\ s.result \in FitMatrix(m) /\ Congruent(s.result, P[r], m)
    BY <2>1 DEF F
  <2> HIDE DEF p, r
  <2>7. P[p] \in Matrix /\ P[r] \in Matrix
    BY <1>12, <2>3, <2>4
  <2>14. \A i, j \in Nat : P[i + j] = MatMul(P[i], P[j])
    BY PowersSum
  <2>15. p + p = 2 * p /\ p \in Nat
    BY <2>3
  <2>8. P[p + p] = MatMul(P[p], P[p]) /\ P[r + p] = MatMul(P[r], P[p]) /\ p + p = 2 * p
    BY <2>4, <2>14, <2>15, Zenon
  <2>9. /\ matrix_mul(s.base, s.base, m) \in FitMatrix(m)
        /\ Congruent(matrix_mul(s.base, s.base, m), MatMul(P[p], P[p]), m)
    BY <2>6, <2>7, MatrixMulExact
  <2>10. /\ matrix_mul(s.result, s.base, m) \in FitMatrix(m)
         /\ Congruent(matrix_mul(s.result, s.base, m), MatMul(P[r], P[p]), m)
    BY <2>6, <2>7, MatrixMulExact
  <2>11. Body(s, k).base = matrix_mul(s.base, s.base, m)
    BY DEF Body
  <2>12. CASE Bit(k) = 1
    <3>1. Body(s, k).result = matrix_mul(s.result, s.base, m)
      BY <2>12 DEF Body
    <3>2. e % Pow2[k + 1] = r + p
      BY <2>3, <2>4, <2>5, <2>12
    <3> QED
      BY <2>2, <2>3, <2>8, <2>9, <2>10, <2>11, <3>1, <3>2 DEF F
  <2>13. CASE Bit(k) = 0
    <3>1. Body(s, k).result = s.result
      BY <2>13 DEF Body
    <3>2. e % Pow2[k + 1] = r
      BY <2>3, <2>4, <2>5, <2>13
    <3> QED
      BY <2>2, <2>3, <2>6, <2>8, <2>9, <2>11, <3>1, <3>2 DEF F
  <2> QED
    BY <2>5, <2>12, <2>13
<1> HIDE DEF X, Right
<1>15. \A k \in Nat : k \in X
  BY <1>13, <1>14, SetInduction
<1> DEFINE K == TopBit(e) + 1
<1>16. K \in Nat /\ K <= Bits /\ e < Pow2[K]
  <2>1. e < Range * Range
    BY <1>1
  <2>2. TopBit(e) < Bits
    BY <1>1, <2>1, TopBitBound
  <2>3. TopBit(e) \in -1..(2 * Bits - 1) /\ K \in Nat /\ e < Pow2[K]
    BY <1>1, <2>1, TopBitValue
  <2> QED
    BY <1>1, <2>2, <2>3
<1> HIDE DEF K
<1>17. e % Pow2[K] = e
  <2>1. Pow2[K] \in Nat \ {0}
    BY <1>16, Pow2Positive
  <2>2. e \in 0..(Pow2[K] - 1)
    BY <1>1, <1>16, <2>1
  <2> QED
    BY <2>1, <2>2, ModSmall
<1>18. Right(pass[K], K)
  BY <1>15, <1>16 DEF X
<1> QED
  BY <1>11, <1>17, <1>18 DEF Right, F, K

-----------------------------------------------------------------------------
(* Chebyshev polynomials: T is the sequence of the T_n(x), T_(n+1)(x) over *)
(* the integers.                                                           *)
IsChebyshev(T, x) ==
    /\ T \in [Nat -> Int \X Int] /\ T[0] = <<1, x>>
    /\ \A n \in Nat : T[n + 1] = <<T[n][2], 2 * x * T[n][2] - T[n][1]>>

LEMMA ChebyshevExists == ASSUME NEW x \in Int PROVE \E T : IsChebyshev(T, x)
<1> DEFINE S == Int \X Int
           s0 == <<1, x>>
           st == [s \in Nat \X S |-> <<s[2][2], 2 * x * s[2][2] - s[2][1]>>]
<1>1. s0 \in S /\ st \in [Nat \X S -> S]
  OBVIOUS
<1>2. \A n \in Nat, v \in Int \X Int : st[<<n, v>>] = <<v[2], 2 * x * v[2] - v[1]>>
  OBVIOUS
<1> HIDE DEF S, s0, st
<1>3. PICK f : IsIteration(f, S, s0, st)
  BY <1>1, Iteration
<1>4. f \in [Nat -> Int \X Int] /\ f[0] = <<1, x>> /\ \A n \in Nat : f[n + 1] = st[<<n, f[n]>>]
  BY <1>3, Zenon DEF S, s0, IsIteration
<1>5. ASSUME NEW n \in Nat PROVE f[n + 1] = <<f[n][2], 2 * x * f[n][2] - f[n][1]>>
  <2>1. f[n] \in Int \X Int
    BY <1>4
  <2> QED
    BY <1>2, <1>4, <2>1, Zenon
<1>6. IsChebyshev(f, x)
  BY <1>4, <1>5 DEF IsChebyshev
<1> QED
  BY <1>6

(* The reference of the runs is that sequence modulo p.                    *)
LEMMA ChebRecurrence ==
  ASSUME NEW x \in Nat, NEW p \in Nat \ {0}, NEW T, IsChebyshev(T, x)
  PROVE  \A n \in Nat : Cheb(n, x, p) = T[n][1] % p
<1> DEFINE Body(t) == <<t[2], (2 * x * t[2] + (p - 1) * t[1]) % p>>
           s0 == <<1 % p, x % p>>
           W == [i \in Nat |-> <<T[i][1] % p, T[i][2] % p>>]
<1>1. \A n \in Nat : T[n] \in Int \X Int /\ T[n][1] \in Int /\ T[n][2] \in Int
  BY DEF IsChebyshev
<1>2. ASSUME NEW a \in Int, NEW b \in Int
      PROVE  Body(<<a % p, b % p>>) = <<b % p, (2 * x * b - a) % p>>
  <2> DEFINE u == 2 * x
             v == p - 1
             w == 0 - 1
             c == a % p
             d == b % p
  <2>1. c \in 0..(p - 1) /\ d \in 0..(p - 1)
    OBVIOUS
  <2>2. c % p = c /\ d % p = d
    BY <2>1, ModSmall
  <2>3. c \in Int /\ d \in Int /\ u \in Int /\ v \in Int /\ w \in Int
    BY <2>1
  <2>4. Cong(c, a, p) /\ Cong(d, b, p)
    BY <2>2, <2>3, Zenon DEF Cong
  <2>5. Cong(u, u, p)
    BY <2>3, Zenon DEF Cong
  <2>6. v % p = w % p
    <3>1. v \in 0..(p - 1) /\ w = w * p + v
      OBVIOUS
    <3> HIDE DEF v, w
    <3>2. v % p = v /\ w % p = v
      BY <2>3, <3>1, ModSmall, ModUnique
    <3> QED
      BY <3>2
  <2>7. Cong(v, w, p)
    BY <2>3, <2>6, Zenon DEF Cong
  <2>8. w * a = 0 - a /\ u * b + (0 - a) = u * b - a
    BY <2>3
  <2> HIDE DEF u, v, w, c, d
  <2>9. (u * d + v * c) % p = (u * b + w * a) % p
    BY <2>4, <2>5, <2>7, DotCongruent
  <2>10. (u * d + v * c) % p = (u * b - a) % p
    BY <2>8, <2>9
  <2> DEFINE t == <<c, d>>
  <2>11. t[1] = c /\ t[2] = d
    OBVIOUS
  <2> HIDE DEF t
  <2>12. Body(t) = <<d, (u * b - a) % p>>
    BY <2>10, <2>11 DEF u, v
  <2> QED
    BY <2>12, Zenon DEF t, c, d, u
<1>3. ASSUME NEW n \in Nat PROVE Body(W[n]) = W[n + 1]
  <2> DEFINE a == T[n][1]
             b == T[n][2]
  <2>1. a \in Int /\ b \in Int
    BY <1>1
  <2>2. T[n + 1] = <<b, 2 * x * b - a>>
    BY DEF IsChebyshev
  <2>3. W[n] = <<a % p, b % p>>
    OBVIOUS
  <2>4. W[n + 1] = <<T[n + 1][1] % p, T[n + 1][2] % p>>
    OBVIOUS
  <2> HIDE DEF a, b, W, Body
  <2>5. T[n + 1][1] = b /\ T[n + 1][2] = 2 * x * b - a
    BY <2>2
  <2> QED
    BY <1>2, <2>1, <2>3, <2>4, <2>5, Zenon
<1>4. W[0] = s0
  BY DEF IsChebyshev
<1> HIDE DEF W, Body, s0
<1>5. ASSUME NEW i \in Nat PROVE W[i] = IF i = 0 THEN s0 ELSE Body(W[i - 1])
  <2>1. CASE i = 0
    BY <1>4, <2>1
  <2>2. CASE i # 0
    <3>1. i - 1 \in Nat /\ (i - 1) + 1 = i
      BY <2>2
    <3>2. Body(W[i - 1]) = W[(i - 1) + 1]
      BY <1>3, <3>1, Zenon
    <3> QED
      BY <2>2, <3>1, <3>2
  <2> QED
    BY <2>1, <2>2
<1>6. W = [i \in Nat |-> IF i = 0 THEN s0 ELSE Body(W[i - 1])]
  <2>1. W = [i \in Nat |-> W[i]]
    BY DEF W
  <2> QED
    BY <1>5, <2>1, Zenon
<1> DEFINE V[i \in Nat] == IF i = 0 THEN s0 ELSE Body(V[i - 1])
<1>7. V = [i \in Nat |-> IF i = 0 THEN s0 ELSE Body(V[i - 1])]
  BY <1>6, Zenon
<1>8. \A n \in Nat : Cheb(n, x, p) = V[n][1]
  BY Zenon DEF Cheb, Body, s0
<1> HIDE DEF V
<1> DEFINE X == {n \in Nat : V[n] = W[n]}
<1>9. 0 \in X
  BY <1>4, <1>7
<1>10. ASSUME NEW n \in Nat, n \in X PROVE n + 1 \in X
  <2>1. n + 1 \in Nat /\ n + 1 # 0 /\ (n + 1) - 1 = n
    OBVIOUS
  <2>2. V[n + 1] = Body(V[n])
    BY <1>7, <2>1
  <2>3. V[n + 1] = W[n + 1]
    BY <1>3, <1>10, <2>2
  <2> QED
    BY <2>3
<1> HIDE DEF X
<1>11. \A n \in Nat : n \in X
  BY <1>9, <1>10, SetInduction
<1>12. ASSUME NEW n \in Nat PROVE Cheb(n, x, p) = T[n][1] % p
  <2>1. V[n] = W[n]
    BY <1>11 DEF X
  <2>2. W[n][1] = T[n][1] % p
    BY DEF W
  <2> QED
    BY <1>8, <2>1, <2>2
<1> QED
  BY <1>12

(* The powers of the matrix, applied to (x, 1).                            *)
LEMMA PowersChebyshev ==
  ASSUME NEW x \in Nat, NEW T, IsChebyshev(T, x), NEW P, IsPowers(P, <<2 * x, -1, 1, 0>>)
  PROVE  \A k \in Nat : P[k][1] * x + P[k][2] * 1 = T[k][2] /\ P[k][3] * x + P[k][4] * 1 = T[k][1]
<1> DEFINE M == <<2 * x, -1, 1, 0>>
           Q(k) == P[k][1] * x + P[k][2] * 1 = T[k][2] /\ P[k][3] * x + P[k][4] * 1 = T[k][1]
           X == {k \in Nat : Q(k)}
<1>1. M \in Matrix
  BY DEF Matrix
<1>2. \A n \in Nat : P[n] \in Matrix
  BY DEF IsPowers
<1>3. \A n \in Nat : T[n] \in Int \X Int
  BY DEF IsChebyshev
<1>4. 0 \in X
  <2>1. P[0] = <<1, 0, 0, 1>> /\ T[0] = <<1, x>>
    BY DEF IsPowers, IsChebyshev, Id
  <2>2. Q(0)
    BY <2>1
  <2> QED
    BY <2>2
<1>5. P[1] = M
  <2>1. P[0] = Id /\ P[0 + 1] = MatMul(P[0], M) /\ 0 + 1 = 1
    BY DEF IsPowers
  <2> HIDE DEF M
  <2> QED
    BY <1>1, <2>1, MatMulId
<1>6. ASSUME NEW k \in Nat, k \in X PROVE k + 1 \in X
  <2>1. P[1 + k] = MatMul(P[1], P[k]) /\ 1 + k = k + 1
    <3>1. IsPowers(P, M)
      OBVIOUS
    <3> HIDE DEF M
    <3>2. \A i, j \in Nat : P[i + j] = MatMul(P[i], P[j])
      BY <1>1, <3>1, PowersSum
    <3>3. 1 \in Nat /\ 1 + k = k + 1
      OBVIOUS
    <3> QED
      BY <3>2, <3>3, Zenon
  <2> DEFINE a == P[k][1]
             b == P[k][2]
             c == P[k][3]
             d == P[k][4]
             u == T[k][1]
             v == T[k][2]
  <2>2. a \in Int /\ b \in Int /\ c \in Int /\ d \in Int /\ u \in Int /\ v \in Int
    BY <1>2, <1>3 DEF Matrix
  <2>3. P[k + 1] = <<2 * x * a + (-1) * c, 2 * x * b + (-1) * d, 1 * a + 0 * c, 1 * b + 0 * d>>
    BY <1>5, <2>1 DEF MatMul
  <2>4. T[k + 1] = <<v, 2 * x * v - u>>
    BY DEF IsChebyshev
  <2>5. a * x + b * 1 = v /\ c * x + d * 1 = u
    BY <1>6
  <2> HIDE DEF a, b, c, d, u, v
  <2>6. /\ P[k + 1][1] = 2 * x * a + (-1) * c /\ P[k + 1][2] = 2 * x * b + (-1) * d
        /\ P[k + 1][3] = 1 * a + 0 * c /\ P[k + 1][4] = 1 * b + 0 * d
        /\ T[k + 1][1] = v /\ T[k + 1][2] = 2 * x * v - u
    BY <2>3, <2>4
  <2>7. (2 * x * a + (-1) * c) * x + (2 * x * b + (-1) * d) * 1 = 2 * x * (a * x + b * 1) - (c * x + d * 1)
    BY <2>2
  <2>8. (1 * a + 0 * c) * x + (1 * b + 0 * d) * 1 = a * x + b * 1
    BY <2>2
  <2>9. Q(k + 1)
    BY <2>5, <2>6, <2>7, <2>8
  <2> QED
    BY <2>9
<1> HIDE DEF X
<1>7. \A k \in Nat : k \in X
  BY <1>4, <1>6, SetInduction
<1> QED
  BY <1>7 DEF X

(* 2x, reduced at most once.                                               *)
LEMMA TwoXExact ==
  ASSUME NEW x \in Nat, NEW p \in 2..(Range - 1), x < p \/ x < Pow2[Half * Width]
  PROVE  Fits(TwoX(x, p, 0), p) /\ Cong(TwoX(x, p, 0), 2 * x, p) /\ Fits(x, p)
<1> DEFINE E == Pow2[Half * Width]
           d == 2 * x + 0
<1>1. Range \in Nat \ {0} /\ p \in Nat \ {0} /\ p < Range /\ p >= 2
  <2>1. Range \in Nat \ {0}
    BY Lengths
  <2> QED
    BY <2>1
<1>2. E \in Nat /\ 2 * E <= Range
  BY HalfPower
<1>3. x < p \/ x < E
  OBVIOUS
<1>4. Fits(x, p)
  BY <1>2, <1>3 DEF Fits
<1> HIDE DEF E
<1>5. d = 2 * x /\ d \in Nat
  OBVIOUS
<1>6. TwoX(x, p, 0) = IF d >= Range \/ d >= p THEN big_sub(d, p) ELSE d
  BY DEF TwoX
<1> HIDE DEF d
<1>7. CASE d >= p
  <2>1. d - p \in 0..(Range - 1) /\ d - p \in Nat /\ (d - p < p \/ d - p < 2 * E)
    BY <1>1, <1>2, <1>3, <1>5, <1>7
  <2>2. big_sub(d, p) = d - p
    BY <1>1, <2>1, ModSmall DEF big_sub
  <2>3. TwoX(x, p, 0) = d - p
    BY <1>6, <1>7, <2>2
  <2>4. (d + (-1) * p) % p = d % p /\ d + (-1) * p = d - p
    <3>1. d \in Int /\ -1 \in Int /\ d + (-1) * p = d - p
      BY <1>1, <1>5
    <3> QED
      BY <1>1, <3>1, ModShift
  <2>5. Fits(d - p, p)
    BY <2>1 DEF Fits, E
  <2>6. Cong(d - p, d, p)
    BY <2>1, <2>4, <1>5 DEF Cong
  <2> QED
    BY <1>4, <1>5, <2>3, <2>5, <2>6
<1>8. CASE d < p
  <2>1. ~(d >= Range \/ d >= p)
    BY <1>1, <1>5, <1>8
  <2>2. TwoX(x, p, 0) = d
    BY <1>6, <2>1
  <2>3. Fits(d, p)
    BY <1>5, <1>8 DEF Fits
  <2>4. Cong(d, 2 * x, p)
    BY <1>5 DEF Cong
  <2> QED
    BY <1>4, <2>2, <2>3, <2>4
<1> QED
  BY <1>1, <1>5, <1>7, <1>8

(* chebyshev_Tn is exact when it finds no carry, and leaves none.          *)
LEMMA ChebyshevTnExact ==
  ASSUME NEW n \in 0..(Range - 1), NEW x \in Nat, NEW p \in 2..(Range - 1), 2 * p <= Range,
         x < p \/ x < Pow2[Half * Width]
  PROVE  LET r == chebyshev_Tn(n, x, p, 0) IN
         /\ r.carry4 = 0 /\ r.tn \in Nat /\ r.tn % p = Cheb(n, x, p)
         /\ (n # 1 => r.tn < p) /\ (n = 1 => r.tn = x)
<1> DEFINE r == chebyshev_Tn(n, x, p, 0)
<1>1. Range \in Nat \ {0} /\ p \in Nat \ {0} /\ p < Range /\ p >= 2 /\ n \in Nat
  <2>1. Range \in Nat \ {0}
    BY Lengths
  <2> QED
    BY <2>1
<1>2. PICK T : IsChebyshev(T, x)
  <2>1. x \in Int
    OBVIOUS
  <2> QED
    BY <2>1, ChebyshevExists
<1>3. Cheb(n, x, p) = T[n][1] % p
  BY <1>1, <1>2, ChebRecurrence
<1>4. T[0] = <<1, x>> /\ \A i \in Nat : T[i + 1] = <<T[i][2], 2 * x * T[i][2] - T[i][1]>>
  BY <1>2 DEF IsChebyshev
<1>5. CASE n = 0
  <2>1. r = [tn |-> 1, tn1 |-> 0, carry4 |-> 0]
    BY <1>5 DEF chebyshev_Tn
  <2>2. T[n][1] = 1
    BY <1>4, <1>5
  <2> QED
    BY <1>1, <1>3, <1>5, <2>1, <2>2
<1>6. CASE n = 1
  <2>1. r = [tn |-> x, tn1 |-> 1, carry4 |-> 0]
    BY <1>6 DEF chebyshev_Tn
  <2>2. T[0 + 1] = <<T[0][2], 2 * x * T[0][2] - T[0][1]>> /\ 0 + 1 = 1
    BY <1>4
  <2>3. T[n][1] = x
    BY <1>4, <1>6, <2>2
  <2> QED
    BY <1>1, <1>3, <1>6, <2>1, <2>3
<1>7. CASE n # 0 /\ n # 1
  <2> DEFINE k == n - 1
             A == <<TwoX(x, p, 0), p - 1, 1, 0>>
             C == <<2 * x, -1, 1, 0>>
             B == matrix_pow(A, k, p)
  <2>1. k \in Nat /\ k \in 0..(Range - 1) /\ k + 1 = n
    BY <1>1, <1>7
  <2>2. Exponent(n) = k /\ big_sub(p, 1) = p - 1
    <3>1. p - 1 \in 0..(Range - 1)
      BY <1>1
    <3>2. k % Range = k /\ (p - 1) % Range = p - 1
      BY <1>1, <2>1, <3>1, ModSmall
    <3> QED
      BY <3>2 DEF Exponent, big_sub
  <2>3. r = TimesVector(B, x, p)
    BY <1>7, <2>2 DEF chebyshev_Tn
  <2>4. Fits(TwoX(x, p, 0), p) /\ Cong(TwoX(x, p, 0), 2 * x, p) /\ Fits(x, p)
    BY TwoXExact
  <2>5. C \in Matrix
    BY DEF Matrix
  <2>6. Fits(p - 1, p) /\ Fits(1, p) /\ Fits(0, p)
    BY <1>1 DEF Fits
  <2>7. (p - 1) % p = (-1) % p
    <3>1. p - 1 \in 0..(p - 1) /\ -1 = (-1) * p + (p - 1) /\ -1 \in Int
      BY <1>1
    <3>2. (p - 1) % p = p - 1
      BY <1>1, <3>1, ModSmall
    <3>3. (-1) % p = p - 1
      BY <1>1, <3>1, ModUnique
    <3> QED
      BY <3>2, <3>3
  <2>8. A \in FitMatrix(p)
    <3>1. TwoX(x, p, 0) \in Int /\ p - 1 \in Int
      BY <1>1, <2>4 DEF Cong
    <3> QED
      BY <2>4, <2>6, <3>1 DEF FitMatrix, Matrix
  <2>9. Congruent(A, C, p)
    BY <2>4, <2>7 DEF Congruent, Cong
  <2>10. PICK P : IsPowers(P, C)
    BY <2>5, PowersExist
  <2>11. P[k][1] * x + P[k][2] * 1 = T[k][2]
    BY <1>2, <2>1, <2>10, PowersChebyshev
  <2> HIDE DEF A, C, k
  <2>12. B \in FitMatrix(p) /\ Congruent(B, P[k], p)
    BY <2>1, <2>5, <2>8, <2>9, <2>10, MatrixPowExact
  <2>13. P[k] \in Matrix
    BY <2>1, <2>10 DEF IsPowers
  <2> HIDE DEF B
  <2>14. /\ Fits(B[1], p) /\ Fits(B[2], p) /\ Fits(B[3], p) /\ Fits(B[4], p)
         /\ B[1] \in Int /\ B[2] \in Int /\ P[k][1] \in Int /\ P[k][2] \in Int
         /\ B[1] % p = P[k][1] % p /\ B[2] % p = P[k][2] % p
    BY <2>12, <2>13 DEF FitMatrix, Matrix, Congruent
  <2>15. Factors(B[1], x, P[k][1], x, p) /\ Factors(B[2], 1, P[k][2], 1, p)
    <3>1. Cong(x, x, p) /\ Cong(1, 1, p)
      BY DEF Cong
    <3>2. Cong(B[1], P[k][1], p) /\ Cong(B[2], P[k][2], p)
      BY <2>14 DEF Cong
    <3> QED
      BY <2>4, <2>6, <2>14, <3>1, <3>2 DEF Factors
  <2> DEFINE z == DotMod(B[1], x, B[2], 1, p)
             y == DotMod(B[3], x, B[4], 1, p)
  <2>16. Cong(z.res, P[k][1] * x + P[k][2] * 1, p)
    BY <2>15, EntryExact
  <2>17. z.res = (B[1] * x + B[2] * 1) % p /\ (B[1] * x + B[2] * 1) % p \in 0..(p - 1)
    BY <2>4, <2>6, <2>14, DotExact
  <2>18. y.carry = 0
    BY <2>4, <2>6, <2>14, DotExact
  <2>19. r.tn = z.res /\ r.carry4 = y.carry
    BY <2>3 DEF TimesVector
  <2>20. T[n][1] = T[k][2]
    BY <1>4, <2>1
  <2> HIDE DEF r, z, y
  <2>21. r.tn % p = T[n][1] % p
    BY <2>11, <2>16, <2>19, <2>20 DEF Cong
  <2>22. r.tn \in Nat /\ r.tn < p
    BY <1>1, <2>17, <2>19
  <2> QED
    BY <1>3, <1>7, <2>18, <2>19, <2>21, <2>22 DEF r
<1> QED
  BY <1>5, <1>6, <1>7

-----------------------------------------------------------------------------
(* The single calls: carry4 is zero as long as no modulus was too large.   *)
CallInv ==
    /\ small \in BOOLEAN /\ task \in {"call", "client"} /\ (task = "client" => call = <<>>)
    /\ (task = "call" /\ small => carry4 = 0)

LEMMA HalfRange ==
  ASSUME NEW m \in Nat, m < Range \div 2 PROVE 2 * m <= Range
BY Lengths

LEMMA TnCall ==
  ASSUME CallInv, task = "call", NEW n \in Args, NEW x \in Args, NEW p \in Moduli,
         x < Pow2[Half * Width], CallTn(n, x, p)
  PROVE  /\ small' \in BOOLEAN /\ (small' => carry4' = 0)
         /\ ChebyshevExact' /\ ModExact'
<1> DEFINE r == chebyshev_Tn(n, x, p, carry4)
<1>1. call' = <<"Tn", n, x, p, r.tn>> /\ carry4' = r.carry4 /\ small' = (small /\ p < Range \div 2)
  BY DEF CallTn, Used
<1>2. n \in 0..(Range - 1) /\ x \in 0..(Range - 1) /\ p \in 2..(Range - 1) /\ Range \in Nat
  BY CallAssumption, Lengths
<1>3. small \in BOOLEAN /\ (small => carry4 = 0)
  BY DEF CallInv
<1>4. ASSUME small' PROVE /\ r.carry4 = 0 /\ r.tn % p = Cheb(n, x, p) /\ (n # 1 => r.tn < p)
  <2>1. small /\ p < Range \div 2
    BY <1>1, <1>3, <1>4, Zenon
  <2>2. carry4 = 0
    BY <1>3, <2>1
  <2>3. 2 * p <= Range /\ x \in Nat
    BY <1>2, <2>1, HalfRange
  <2>4. LET s == chebyshev_Tn(n, x, p, 0) IN
        s.carry4 = 0 /\ s.tn % p = Cheb(n, x, p) /\ (n # 1 => s.tn < p)
    BY <1>2, <2>3, ChebyshevTnExact
  <2> QED
    BY <2>2, <2>4
<1>5. small' \in BOOLEAN
  BY <1>1, <1>3, Zenon
<1> HIDE DEF r
<1> DEFINE c == <<"Tn", n, x, p, r.tn>>
<1>6. c[1] = "Tn" /\ c[2] = n /\ c[3] = x /\ c[4] = p /\ c[5] = r.tn /\ call' = c
  BY <1>1
<1> HIDE DEF c
<1>7. ChebyshevExact'
  BY <1>4, <1>6 DEF ChebyshevExact
<1>8. ModExact'
  BY <1>6 DEF ModExact
<1> QED
  BY <1>1, <1>4, <1>5, <1>7, <1>8

LEMMA ModCall ==
  ASSUME NEW a \in Args, NEW b \in Args, NEW m \in Moduli, CallMod(a, b, m)
  PROVE  ChebyshevExact' /\ ModExact'
<1>1. a \in 0..(Range - 1) /\ b \in 0..(Range - 1) /\ m \in 2..(Range - 1) /\ Range \in Nat
  BY CallAssumption, Lengths
<1>2. m \in Nat \ {0} /\ a \in Nat /\ b \in Nat
  BY <1>1
<1>3. CASE call' = <<"mulmod", a, b, m, uint256_mulmod(a, b, m)>>
  <2> DEFINE c == <<"mulmod", a, b, m, uint256_mulmod(a, b, m)>>
  <2>1. c[1] = "mulmod" /\ c[2] = a /\ c[3] = b /\ c[4] = m /\ c[5] = uint256_mulmod(a, b, m) /\ call' = c
    BY <1>3
  <2> HIDE DEF c
  <2>2. ASSUME m < Range \div 2,
               ~(\E i \in 0..(2 * Bits) : (a * b) \div Pow2[i] # 0 /\ ((a * b) \div Pow2[i]) % m = 0)
        PROVE  uint256_mulmod(a, b, m) = (a * b) % m
    BY <1>1, <1>2, <2>2, MulmodExact
  <2>3. ModExact'
    BY <2>1, <2>2 DEF ModExact
  <2>4. ChebyshevExact'
    BY <2>1 DEF ChebyshevExact
  <2> QED
    BY <2>3, <2>4
<1>4. CASE a < m /\ b < m /\ call' = <<"addmod", a, b, m, uint256_addmod(a, b, m)>>
  <2> DEFINE c == <<"addmod", a, b, m, uint256_addmod(a, b, m)>>
  <2>1. c[1] = "addmod" /\ c[2] = a /\ c[3] = b /\ c[4] = m /\ c[5] = uint256_addmod(a, b, m) /\ call' = c
    BY <1>4
  <2> HIDE DEF c
  <2>2. ASSUME m < Range \div 2, a + b # m PROVE uint256_addmod(a, b, m) = (a + b) % m
    <3>1. a \in 0..(m - 1) /\ b \in 0..(m - 1)
      BY <1>2, <1>4
    <3> QED
      BY <1>2, <2>2, <3>1, AddmodExact
  <2>3. ModExact'
    BY <2>1, <2>2 DEF ModExact
  <2>4. ChebyshevExact'
    BY <2>1 DEF ChebyshevExact
  <2> QED
    BY <2>3, <2>4
<1> QED
  BY <1>3, <1>4 DEF CallMod

LEMMA NoCall == call = <<>> => ChebyshevExact /\ ModExact
BY DEF ChebyshevExact, ModExact

LEMMA NoCallNext == call' = <<>> => ChebyshevExact' /\ ModExact'
BY DEF ChebyshevExact, ModExact

LEMMA CallInvStep ==
  CallInv /\ ChebyshevExact /\ ModExact /\ [Next]_vars => CallInv' /\ ChebyshevExact' /\ ModExact'
<1> SUFFICES ASSUME CallInv, ChebyshevExact, ModExact, [Next]_vars
             PROVE  CallInv' /\ ChebyshevExact' /\ ModExact'
  OBVIOUS
<1>1. CASE Call
  <2>1. task = "call" /\ task' = task
    BY <1>1 DEF Call
  <2>2. CASE Return
    <3>1. call' = <<>> /\ carry4' = carry4 /\ small' = small
      BY <2>2 DEF Return
    <3> QED
      BY <2>1, <3>1, NoCallNext DEF CallInv
  <2>3. ASSUME NEW n \in Args, NEW x \in Args, NEW p \in Moduli, x < Pow2[Half * Width], CallTn(n, x, p)
        PROVE  CallInv' /\ ChebyshevExact' /\ ModExact'
    <3>1. small' \in BOOLEAN /\ (small' => carry4' = 0) /\ ChebyshevExact' /\ ModExact'
      BY <2>1, <2>3, TnCall
    <3> QED
      BY <2>1, <3>1 DEF CallInv
  <2>4. ASSUME NEW n \in Args, NEW x \in Args, NEW p \in Moduli, CallMod(n, x, p)
        PROVE  CallInv' /\ ChebyshevExact' /\ ModExact'
    <3>1. ChebyshevExact' /\ ModExact'
      BY <2>4, ModCall
    <3>2. carry4' = carry4 /\ small' = small
      BY <2>4 DEF CallMod
    <3> QED
      BY <2>1, <3>1, <3>2 DEF CallInv
  <2> QED
    BY <1>1, <2>2, <2>3, <2>4 DEF Call
<1>2. CASE Receive
  <2>1. task = "client" /\ task' = task /\ call' = call
    BY <1>2 DEF Receive
  <2>4. \A f : On101(f) => small' = small
    BY DEF On101
  <2>5. \A f, b : On102(f, b) => small' = small
    BY DEF On102
  <2>6. \A f : On103(f) => small' = small
    BY DEF On103
  <2>7. OnOther => small' = small
    BY DEF OnOther
  <2>2. small' = small
    BY <1>2, <2>4, <2>5, <2>6, <2>7 DEF Receive
  <2>3. call' = <<>>
    BY <2>1 DEF CallInv
  <2> QED
    BY <2>1, <2>2, <2>3, NoCallNext DEF CallInv
<1>3. CASE Disconnected \/ Centre
  <2>1. task' = task /\ call' = call /\ small' = small /\ carry4' = carry4 /\ task = "client"
    BY <1>3 DEF Disconnected, Centre, callVars, devVars
  <2>2. call' = <<>>
    BY <2>1 DEF CallInv
  <2> QED
    BY <2>1, <2>2, NoCallNext DEF CallInv
<1>4. CASE UNCHANGED vars
  <2>1. task' = task /\ call' = call /\ small' = small /\ carry4' = carry4
    BY <1>4 DEF vars, callVars
  <2> QED
    BY <2>1 DEF CallInv, ChebyshevExact, ModExact
<1> QED
  BY <1>1, <1>2, <1>3, <1>4 DEF Next

LEMMA ArithmeticExact == Spec => []ChebyshevExact /\ []ModExact
<1>1. Init => CallInv /\ ChebyshevExact /\ ModExact
  <2> SUFFICES ASSUME Init PROVE CallInv /\ ChebyshevExact /\ ModExact
    OBVIOUS
  <2>1. call = <<>> /\ carry4 = 0 /\ small = TRUE /\ task \in {"call", "client"}
    BY DEF Init
  <2> QED
    BY <2>1, NoCall DEF CallInv
<1> QED
  BY <1>1, CallInvStep, PTL DEF Spec

(* For limbs of any width, any length and any arguments: chebyshev_Tn is   *)
(* T_n(x) mod p, whatever calls came before it, as long as no modulus has  *)
(* reached half of the range.                                              *)
THEOREM ChebyshevTnCorrect == Spec => []ChebyshevExact
BY ArithmeticExact, PTL

(* For limbs of any width, any length and any arguments: uint256_mulmod    *)
(* and uint256_addmod are exact unless what they reduce is at some point   *)
(* the modulus itself.                                                     *)
THEOREM ModularArithmeticCorrect == Spec => []ModExact
BY ArithmeticExact, PTL

-----------------------------------------------------------------------------
(* The client: while every recv returns a whole message, one message is    *)
(* under way, and it tells how far the session has come.                   *)
Num == 0..(Range - 1)

(* A message for the centre, or its refusal, after which it comes again.   *)
Pending(m) ==
    /\ out = m
    /\ (toCen = <<m>> /\ toDev = <<>>) \/ (toCen = <<>> /\ toDev = <<Msg(400, <<>>)>>)

Fresh == toCen = <<Msg(201, <<>>)>> /\ toDev = <<>> /\ carry4 = 0

Offered ==
    /\ carry4 = 0 /\ toCen = <<>> /\ cen.A \in Num
    /\ \E L \in Salts : /\ cen.A = BitXor(UserHash, L)
                        /\ toDev = <<Msg(101, <<cen.A, Key.d, Key.N, Key.pk, L, Key.N1>>)>>

(* The device holds the centre's parameters, and its QID fits.             *)
Registration ==
    /\ carry4 = 0 /\ cen.A \in Num /\ par.A = cen.A /\ par.N = Key.N /\ par.pk = Key.pk
    /\ "self" \in printed /\ own.QID \in 0..(Pow2[Half * Width] - 1)

Prepared == Registration /\ \E s, t : Pending(Msg(202, <<s, t, own.QID>>))

Challenged ==
    /\ Registration /\ cen.QID = own.QID /\ cen.a \in Num
    /\ cen.TA = Cheb(HalfOf(cen.A), Key.pk, Key.N)
    /\ toCen = <<>>
    /\ LET q == BitXor(own.QID, cen.TA)
           a == BitXor(cen.a, cen.TA)
       IN  toDev = <<Msg(102, <<q, a, <<q, a>>>>)>>

(* Both sides hold the numbers that the key is made of.                    *)
Agreement ==
    /\ {"self", "HM2", "ID"} \subseteq printed
    /\ own.TA = cen.TA /\ own.a1 = cen.a /\ own.b \in Num /\ cen.TA \in Num

Answered ==
    Agreement /\ \E s, t, u : Pending(Msg(203, <<BitXor(own.b, cen.TA), s, t, u>>))

Accepted ==
    /\ Agreement /\ cen.key = <<cen.a, own.b, cen.TA>> /\ toCen = <<>>
    /\ \E s, t : toDev = <<Msg(103, <<s, t, <<s, t>>>>)>>

Done == DeviceKeyAgrees /\ toCen = <<>> /\ toDev = <<>>

Stage ==
    \/ pc # "spin" /\ (Fresh \/ Offered \/ Prepared \/ Challenged \/ Answered \/ Accepted)
    \/ pc = "spin" /\ Done

(* own and cen keep their fields.                                          *)
OwnShape == \E q, t, a, b, u : own = [QID |-> q, TA |-> t, a1 |-> a, b |-> b, TB |-> u]

CenShape == \E a, p, q, t, b, k : cen = [A |-> a, PID |-> p, QID |-> q, TA |-> t, a |-> b, key |-> k]

DevInv ==
    /\ OwnShape /\ CenShape /\ whole \in BOOLEAN /\ task \in {"call", "client"}
    /\ task = "call" => pc = "recv"
    /\ task = "client" /\ whole => Stage

LEMMA OneElement ==
  \A m : /\ Head(<<m>>) = m /\ Tail(<<m>>) = <<>> /\ Append(<<>>, m) = <<m>> /\ <<m>> # <<>>
         /\ Len(<<m>>) = 1
OBVIOUS

LEMMA MsgFields == \A c, f : Msg(c, f).code = c /\ Msg(c, f).f = f
BY DEF Msg

LEMMA WholeSequence ==
  ASSUME NEW S, NEW s \in Seq(S)
  PROVE  SubSeq(s, 1, Len(s)) = s
<1>1. Len(s) \in Nat /\ s \in [1..Len(s) -> S]
  OBVIOUS
<1>2. Len(SubSeq(s, 1, Len(s))) = Len(s) /\ SubSeq(s, 1, Len(s)) \in Seq(S)
  BY <1>1
<1>3. \A i \in 1..Len(s) : SubSeq(s, 1, Len(s))[i] = s[i]
  BY <1>1
<1> QED
  BY <1>1, <1>2, <1>3

LEMMA ThreeFields ==
  ASSUME NEW a, NEW b, NEW c
  PROVE  SubSeq(<<a, b, c>>, 1, Len(<<a, b, c>>)) = <<a, b, c>> /\ Len(<<a, b, c>>) = 3
<1>1. <<a, b, c>> \in Seq({a, b, c}) /\ Len(<<a, b, c>>) = 3
  OBVIOUS
<1> QED
  BY <1>1, WholeSequence

LEMMA SixFields ==
  ASSUME NEW a, NEW b, NEW c, NEW d, NEW e, NEW f
  PROVE  /\ SubSeq(<<a, b, c, d, e, f>>, 1, Len(<<a, b, c, d, e, f>>)) = <<a, b, c, d, e, f>>
         /\ Len(<<a, b, c, d, e, f>>) = 6
<1>1. <<a, b, c, d, e, f>> \in Seq({a, b, c, d, e, f}) /\ Len(<<a, b, c, d, e, f>>) = 6
  OBVIOUS
<1> QED
  BY <1>1, WholeSequence

LEMMA NoFields == SubSeq(<<>>, 1, Len(<<>>)) = <<>> /\ Len(<<>>) = 0
<1>1. <<>> \in Seq({}) /\ Len(<<>>) = 0
  OBVIOUS
<1> QED
  BY <1>1, WholeSequence

(* The numbers of the session.                                             *)
LEMMA HalfOfValue ==
  ASSUME NEW v \in Nat
  PROVE  /\ HalfOf(v) \in 0..(Pow2[Half * Width] - 1) /\ HalfOf(v) \in Num
         /\ (v < Pow2[Half * Width] => HalfOf(v) = v)
<1> DEFINE E == Pow2[Half * Width]
<1>1. E \in Nat \ {0} /\ E <= Range /\ Range \in Nat
  BY HalfPower, Lengths
<1> HIDE DEF E
<1>2. v % E \in 0..(E - 1)
  BY <1>1
<1>3. v % E \in 0..(Range - 1)
  BY <1>1, <1>2
<1>4. ASSUME v < E PROVE v % E = v
  <2>1. v \in 0..(E - 1)
    BY <1>1, <1>4
  <2> QED
    BY <1>1, <2>1, ModSmall
<1> QED
  BY <1>2, <1>3, <1>4 DEF HalfOf, E, Num

LEMMA CentreTA ==
  ASSUME NEW A \in Num
  PROVE  /\ chebyshev_Tn(HalfOf(A), Key.pk, Key.N, 0).tn = Cheb(HalfOf(A), Key.pk, Key.N)
         /\ Cheb(HalfOf(A), Key.pk, Key.N) \in Num
<1> DEFINE n == HalfOf(A)
           N == Key.N
           x == Key.pk
           r == chebyshev_Tn(n, x, N, 0)
<1>1. Range \in Nat \ {0} /\ A \in Nat
  BY Lengths DEF Num
<1>2. n \in 0..(Range - 1)
  BY <1>1, HalfOfValue DEF Num
<1>3. N \in 2..(Range \div 2 - 1) /\ x \in 0..(N - 1)
  BY KeyAssumption
<1> HIDE DEF n, N, x
<1>4. Range \div 2 \in Nat /\ 2 * (Range \div 2) <= Range
  BY Lengths
<1>5. N \in Nat \ {0} /\ N \in 2..(Range - 1) /\ 2 * N <= Range /\ x \in Nat /\ x < N
  BY <1>1, <1>3, <1>4
<1>6. r.tn \in Nat /\ r.tn % N = Cheb(n, x, N) /\ (n # 1 => r.tn < N) /\ (n = 1 => r.tn = x)
  BY <1>2, <1>5, ChebyshevTnExact
<1> HIDE DEF r
<1>7. r.tn \in 0..(N - 1) /\ r.tn \in 0..(Range - 1)
  BY <1>1, <1>5, <1>6
<1>8. r.tn % N = r.tn
  BY <1>5, <1>7, ModSmall
<1> QED
  BY <1>6, <1>7, <1>8 DEF r, n, N, x, Num

LEMMA DeviceQ ==
  ASSUME NEW x \in 0..(Pow2[Half * Width] - 1)
  PROVE  /\ chebyshev_Tn(Key.d, x, Key.N1, 0).carry4 = 0
         /\ chebyshev_Tn(Key.d, x, Key.N1, 0).tn \in 0..(Pow2[Half * Width] - 1)
<1> DEFINE E == Pow2[Half * Width]
           N == Key.N1
           d == Key.d
           r == chebyshev_Tn(d, x, N, 0)
<1>1. Range \in Nat \ {0} /\ E \in Nat /\ E >= 2 /\ 2 * E <= Range
  BY Lengths, HalfPower
<1>2. N \in 2..E /\ d \in 0..(Range - 1)
  BY KeyAssumption
<1>3. x \in Nat /\ x < E
  BY <1>1
<1>4. x < N \/ x < Pow2[Half * Width]
  BY <1>3
<1> HIDE DEF E, N, d
<1>5. N \in 2..(Range - 1) /\ 2 * N <= Range
  BY <1>1, <1>2
<1>6. r.carry4 = 0 /\ r.tn \in Nat /\ (d # 1 => r.tn < N) /\ (d = 1 => r.tn = x)
  BY <1>2, <1>3, <1>4, <1>5, ChebyshevTnExact
<1> HIDE DEF r
<1>7. r.tn \in 0..(E - 1)
  BY <1>1, <1>2, <1>3, <1>6
<1> QED
  BY <1>6, <1>7 DEF r, N, d, E

(* One step of either side, when it has one whole message.                 *)
Handled(c, f) ==
    \/ c = 101 /\ On101(f)
    \/ c = 102 /\ \E b \in Randoms : On102(f, b)
    \/ c = 103 /\ On103(f)
    \/ c \notin {101, 102, 103} /\ OnOther

LEMMA ReceiveWhole ==
  ASSUME Receive, whole', NEW c, NEW f, toDev = <<Msg(c, f)>>, SubSeq(f, 1, Len(f)) = f
  PROVE  toDev' = <<>> /\ cen' = cen /\ pc = "recv" /\ Handled(c, f)
<1>1. Head(toDev) = Msg(c, f) /\ Tail(toDev) = <<>>
  BY OneElement
<1>2. Msg(c, f).code = c /\ Msg(c, f).f = f
  BY MsgFields
<1>3. PICK m \in {Head(toDev)} : \E k \in 0..Len(m.f) :
        /\ toDev' = IF k = Len(m.f) THEN Tail(toDev)
                    ELSE <<Msg(0, SubSeq(m.f, k + 1, Len(m.f)))>> \o Tail(toDev)
        /\ whole' = (whole /\ k = Len(m.f))
        /\ \/ m.code = 101 /\ On101(SubSeq(m.f, 1, k))
           \/ m.code = 102 /\ \E b \in Randoms : On102(SubSeq(m.f, 1, k), b)
           \/ m.code = 103 /\ On103(SubSeq(m.f, 1, k))
           \/ m.code \notin {101, 102, 103} /\ k = Len(m.f) /\ OnOther
  BY Zenon DEF Receive
<1>4. m.f = f /\ m.code = c
  BY <1>1, <1>2, <1>3
<1>5. PICK k \in 0..Len(f) :
        /\ toDev' = IF k = Len(f) THEN Tail(toDev)
                    ELSE <<Msg(0, SubSeq(f, k + 1, Len(f)))>> \o Tail(toDev)
        /\ whole' = (whole /\ k = Len(f))
        /\ \/ c = 101 /\ On101(SubSeq(f, 1, k))
           \/ c = 102 /\ \E b \in Randoms : On102(SubSeq(f, 1, k), b)
           \/ c = 103 /\ On103(SubSeq(f, 1, k))
           \/ c \notin {101, 102, 103} /\ k = Len(f) /\ OnOther
  BY <1>3, <1>4
<1>6. k = Len(f) /\ toDev' = <<>>
  BY <1>1, <1>5
<1>7. SubSeq(f, 1, k) = f
  BY <1>6
<1>8. cen' = cen /\ pc = "recv"
  BY DEF Receive
<1> QED
  BY <1>5, <1>6, <1>7, <1>8, Zenon DEF Handled

Served(c, f) ==
    \/ c = 201 /\ Centre201
    \/ c = 202 /\ Centre202(f)
    \/ c = 203 /\ Centre203(f)

LEMMA CentreHead ==
  ASSUME Centre, NEW c, NEW f, toCen = <<Msg(c, f)>>
  PROVE  toCen' = <<>> /\ Served(c, f)
<1>1. Head(toCen) = Msg(c, f) /\ Tail(toCen) = <<>>
  BY OneElement
<1>2. Msg(c, f).code = c /\ Msg(c, f).f = f
  BY MsgFields
<1> QED
  BY <1>1, <1>2, Zenon DEF Centre, Served

(* What the centre leaves to the device, and what refusing does.           *)
LEMMA CentreKeeps ==
  Centre => /\ carry4' = carry4 /\ pc' = pc /\ par' = par /\ own' = own /\ out' = out
            /\ printed' = printed /\ ks' = ks
BY DEF Centre, callVars, devVars

LEMMA Refused ==
  ASSUME Refuse, toDev = <<>>
  PROVE  toDev' = <<Msg(400, <<>>)>> /\ cen' = cen
<1>1. toDev' = Append(<<>>, Msg(400, <<>>)) /\ cen' = cen
  BY DEF Refuse, Reply
<1> QED
  BY <1>1, OneElement

LEMMA Sent ==
  ASSUME NEW m, Transmit(m), toCen = <<>>
  PROVE  out' = m /\ toCen' = <<m>>
<1>1. out' = m /\ toCen' = Append(<<>>, m)
  BY DEF Transmit
<1> QED
  BY <1>1, OneElement

(* Refused or once more: a pending message stays pending.                  *)
LEMMA PendingRefused ==
  ASSUME NEW m, Pending(m), toDev = <<>>, toCen' = <<>>, out' = out, Refuse
  PROVE  Pending(m)' /\ cen' = cen
<1>1. toDev' = <<Msg(400, <<>>)>> /\ cen' = cen
  BY Refused
<1> QED
  BY <1>1 DEF Pending, Msg

LEMMA PendingAgain ==
  ASSUME NEW m, Pending(m), toCen = <<>>, toDev' = <<>>, OnOther
  PROVE  Pending(m)'
<1>1. Transmit(m)
  BY DEF Pending, OnOther
<1>2. out' = m /\ toCen' = <<m>>
  BY <1>1, Sent
<1> QED
  BY <1>2 DEF Pending, Msg

LEMMA FreshStep ==
  ASSUME CenShape, Fresh, Centre
  PROVE  Offered'
<1>1. toCen = <<Msg(201, <<>>)>> /\ toDev = <<>> /\ carry4 = 0
  BY DEF Fresh
<1>2. toCen' = <<>> /\ Served(201, <<>>) /\ carry4' = 0
  BY <1>1, CentreHead, CentreKeeps
<1>3. Centre201
  BY <1>2 DEF Served
<1>4. PICK L \in Salts :
        /\ cen' = [cen EXCEPT !.A = BitXor(UserHash, L), !.PID = PidHash(L)]
        /\ Reply(Msg(101, <<BitXor(UserHash, L), Key.d, Key.N, Key.pk, L, Key.N1>>))
  BY <1>3, Zenon DEF Centre201
<1>5. cen'.A = BitXor(UserHash, L)
  BY <1>4 DEF CenShape
<1>6. toDev' = Append(<<>>, Msg(101, <<cen'.A, Key.d, Key.N, Key.pk, L, Key.N1>>))
  BY <1>1, <1>4, <1>5 DEF Reply
<1>7. toDev' = <<Msg(101, <<cen'.A, Key.d, Key.N, Key.pk, L, Key.N1>>)>>
  BY <1>6, OneElement
<1>8. cen'.A \in Num
  BY <1>5, XorAssumption, SessionAssumption DEF Num
<1> QED
  BY <1>2, <1>5, <1>7, <1>8 DEF Offered, Msg

(* 101: the parameters are the centre's, the self-authentication succeeds  *)
(* and the three polynomials leave carry4 at zero.                         *)
LEMMA OfferedStep ==
  ASSUME OwnShape, Offered, Receive, whole'
  PROVE  Prepared' /\ pc' # "spin"
<1>1. PICK L \in Salts :
        /\ cen.A = BitXor(UserHash, L)
        /\ toDev = <<Msg(101, <<cen.A, Key.d, Key.N, Key.pk, L, Key.N1>>)>>
  BY DEF Offered
<1> DEFINE f == <<cen.A, Key.d, Key.N, Key.pk, L, Key.N1>>
<1>2. SubSeq(f, 1, Len(f)) = f /\ Len(f) = 6
  BY SixFields
<1>3. f[1] = cen.A /\ f[2] = Key.d /\ f[3] = Key.N /\ f[4] = Key.pk /\ f[5] = L /\ f[6] = Key.N1
  OBVIOUS
<1>4. toDev = <<Msg(101, f)>>
  BY <1>1
<1> HIDE DEF f
<1>5. toDev' = <<>> /\ cen' = cen /\ pc = "recv" /\ Handled(101, f)
  BY <1>2, <1>4, ReceiveWhole
<1>6. On101(f)
  BY <1>5 DEF Handled
<1> DEFINE q == Registered(f)
<1>7. q = [A |-> cen.A, d |-> Key.d, N |-> Key.N, pk |-> Key.pk, L |-> L, N1 |-> Key.N1]
  BY <1>2, <1>3 DEF Registered, Field
<1>8. q.A = cen.A /\ q.d = Key.d /\ q.N = Key.N /\ q.pk = Key.pk /\ q.L = L /\ q.N1 = Key.N1
  BY <1>7
<1> HIDE DEF q
<1> DEFINE QID == chebyshev_Tn(q.d, HalfOf(PidHash(q.L)), q.N1, carry4)
           QPW == chebyshev_Tn(q.d, Password, q.N1, QID.carry4)
           QA == chebyshev_Tn(q.d, HalfOf(q.A), q.N1, QPW.carry4)
<1>9. /\ par' = q /\ pc' = pc
      /\ BitXor(UserHash, q.L) = q.A =>
            /\ authp' = <<QA.tn, QPW.tn, QID.tn>>
            /\ own' = [own EXCEPT !.QID = QID.tn]
            /\ carry4' = QA.carry4
            /\ printed' = printed \cup {"self"}
      /\ Transmit(Msg(202, authp'))
  BY <1>6, Zenon DEF On101, q
<1>10. carry4 = 0 /\ toCen = <<>> /\ cen.A \in Num
  BY DEF Offered
<1>11. HalfOf(PidHash(q.L)) \in 0..(Pow2[Half * Width] - 1) /\ HalfOf(q.A) \in 0..(Pow2[Half * Width] - 1)
       /\ Password \in 0..(Pow2[Half * Width] - 1)
  <2>1. Range \in Nat \ {0} /\ L \in Nat /\ UserHash \in Nat /\ cen.A \in Nat
    BY <1>10, Lengths, SessionAssumption DEF Num
  <2>2. PidHash(L) \in Nat
    BY <2>1 DEF PidHash
  <2> QED
    BY <1>8, <2>1, <2>2, HalfOfValue, SessionAssumption
<1>12. QID.carry4 = 0 /\ QID.tn \in 0..(Pow2[Half * Width] - 1)
  BY <1>8, <1>10, <1>11, DeviceQ
<1> HIDE DEF QID
<1>13. QPW.carry4 = 0
  BY <1>8, <1>11, <1>12, DeviceQ
<1> HIDE DEF QPW
<1>14. QA.carry4 = 0
  BY <1>8, <1>11, <1>13, DeviceQ
<1> HIDE DEF QA
<1>15. /\ authp' = <<QA.tn, QPW.tn, QID.tn>> /\ own' = [own EXCEPT !.QID = QID.tn]
       /\ carry4' = 0 /\ "self" \in printed'
  BY <1>1, <1>8, <1>9, <1>14
<1>16. own'.QID = QID.tn
  BY <1>15 DEF OwnShape
<1>17. out' = Msg(202, authp') /\ toCen' = <<Msg(202, authp')>>
  BY <1>9, <1>10, Sent
<1>18. authp' = <<QA.tn, QPW.tn, own'.QID>>
  BY <1>15, <1>16
<1>19. Registration'
  BY <1>5, <1>8, <1>9, <1>10, <1>12, <1>15, <1>16 DEF Registration, Num
<1>20. \E s, t : Pending(Msg(202, <<s, t, own.QID>>))'
  <2>1. PICK s, t : authp' = <<s, t, own'.QID>>
    BY <1>18
  <2>2. Pending(Msg(202, <<s, t, own.QID>>))'
    BY <1>5, <1>17, <2>1 DEF Pending, Msg
  <2> QED
    BY <2>2
<1>21. pc' # "spin"
  BY <1>5, <1>9
<1> QED
  BY <1>19, <1>20, <1>21 DEF Prepared

(* 202: the centre draws its number, or refuses.                           *)
LEMMA PreparedServed ==
  ASSUME CenShape, Prepared, Centre
  PROVE  Prepared' \/ Challenged'
<1>1. PICK s, t : Pending(Msg(202, <<s, t, own.QID>>))
  BY DEF Prepared
<1> DEFINE f == <<s, t, own.QID>>
<1>2. f[3] = own.QID
  OBVIOUS
<1>3. Pending(Msg(202, f))
  BY <1>1
<1>4. toCen # <<>>
  BY DEF Centre
<1>5. toCen = <<Msg(202, f)>> /\ toDev = <<>>
  BY <1>3, <1>4 DEF Pending
<1>6. toCen' = <<>> /\ Served(202, f)
  BY <1>5, CentreHead
<1>7. Centre202(f)
  BY <1>6 DEF Served
<1>8. carry4' = carry4 /\ par' = par /\ own' = own /\ out' = out /\ printed' = printed
  BY CentreKeeps
<1>9. CASE Refuse
  <2>1. PICK m : m = Msg(202, f)
    OBVIOUS
  <2>2. Pending(m)' /\ cen' = cen
    BY <1>3, <1>5, <1>6, <1>8, <1>9, <2>1, PendingRefused
  <2>3. m = Msg(202, <<s, t, own'.QID>>)
    BY <1>8, <2>1
  <2>4. Pending(Msg(202, <<s, t, own.QID>>))'
    BY <2>2, <2>3, Zenon DEF Pending, Msg
  <2>5. Registration'
    BY <1>8, <2>2 DEF Prepared, Registration, Num
  <2> QED
    BY <2>4, <2>5 DEF Prepared
<1>10. CASE ~Refuse
  <2> HIDE DEF f
  <2> DEFINE TA == Cheb(HalfOf(cen.A), Key.pk, Key.N)
             Q == BitXor(f[3], TA)
  <2>1. PICK a \in Randoms :
          /\ cen' = [cen EXCEPT !.QID = f[3], !.TA = TA, !.a = a]
          /\ Reply(Msg(102, <<Q, BitXor(a, TA), <<Q, BitXor(a, TA)>>>>))
    BY <1>7, <1>10, Zenon DEF Centre202
  <2> HIDE DEF TA
  <2>2. cen'.QID = own'.QID /\ cen'.TA = TA /\ cen'.a = a /\ cen'.A = cen.A
    BY <1>2, <1>8, <2>1 DEF CenShape
  <2>3. toDev' = Append(<<>>, Msg(102, <<Q, BitXor(a, TA), <<Q, BitXor(a, TA)>>>>))
    BY <1>5, <2>1 DEF Reply
  <2>4. toDev' = <<Msg(102, <<Q, BitXor(a, TA), <<Q, BitXor(a, TA)>>>>)>>
    BY <2>3, OneElement
  <2>5. Q = BitXor(own'.QID, cen'.TA)
    BY <1>2, <1>8, <2>2
  <2>6. BitXor(a, TA) = BitXor(cen'.a, cen'.TA)
    BY <2>2
  <2> HIDE DEF Q
  <2>7. cen'.a \in Num
    BY <2>2, SessionAssumption DEF Num
  <2>8. Registration'
    BY <1>8, <2>2 DEF Prepared, Registration, Num
  <2>9. cen'.TA = Cheb(HalfOf(cen'.A), Key.pk, Key.N)
    BY <2>2 DEF TA
  <2>10. toDev' = <<Msg(102, <<BitXor(own'.QID, cen'.TA), BitXor(cen'.a, cen'.TA),
                              <<BitXor(own'.QID, cen'.TA), BitXor(cen'.a, cen'.TA)>>>>)>>
    BY <2>4, <2>5, <2>6
  <2>11. cen'.QID = own'.QID
    BY <2>2
  <2> QED
    BY <1>6, <2>7, <2>8, <2>9, <2>10, <2>11, Zenon DEF Challenged, Msg, Cheb, HalfOf, Num
<1> QED
  BY <1>9, <1>10

LEMMA OtherKeeps ==
  OnOther => /\ carry4' = carry4 /\ pc' = pc /\ par' = par /\ own' = own
             /\ printed' = printed /\ ks' = ks
BY DEF OnOther

(* A refused 202 is sent again.                                            *)
LEMMA PreparedAgain ==
  ASSUME Prepared, Receive, whole'
  PROVE  Prepared' /\ pc' # "spin"
<1>1. PICK s, t : Pending(Msg(202, <<s, t, own.QID>>))
  BY DEF Prepared
<1>2. PICK m : m = Msg(202, <<s, t, own.QID>>)
  OBVIOUS
<1>3. Pending(m) /\ toDev # <<>>
  BY <1>1, <1>2 DEF Receive
<1>4. toCen = <<>> /\ toDev = <<Msg(400, <<>>)>>
  BY <1>3 DEF Pending
<1>5. toDev' = <<>> /\ cen' = cen /\ pc = "recv" /\ Handled(400, <<>>)
  BY <1>4, NoFields, ReceiveWhole
<1>6. OnOther
  BY <1>5 DEF Handled
<1>7. Pending(m)'
  BY <1>3, <1>4, <1>5, <1>6, PendingAgain
<1>8. carry4' = carry4 /\ pc' = pc /\ par' = par /\ own' = own /\ printed' = printed
  BY <1>6, OtherKeeps
<1>9. m = Msg(202, <<s, t, own'.QID>>)
  BY <1>2, <1>8
<1>10. Pending(Msg(202, <<s, t, own.QID>>))'
  BY <1>7, <1>9, Zenon DEF Pending, Msg
<1>11. Registration'
  BY <1>5, <1>8 DEF Prepared, Registration, Num
<1>12. pc' # "spin"
  BY <1>5, <1>8
<1> QED
  BY <1>10, <1>11, <1>12 DEF Prepared

(* 102: the device takes the centre's number out of M1, and its own QID    *)
(* out of QID1.                                                            *)
LEMMA ChallengedStep ==
  ASSUME OwnShape, Challenged, Receive, whole'
  PROVE  Answered' /\ pc' # "spin"
<1> DEFINE Q == BitXor(own.QID, cen.TA)
           M == BitXor(cen.a, cen.TA)
           f == <<Q, M, <<Q, M>>>>
<1>1. SubSeq(f, 1, Len(f)) = f /\ Len(f) = 3
  BY ThreeFields
<1>2. f[1] = Q /\ f[2] = M /\ f[3] = <<Q, M>>
  OBVIOUS
<1>3. toDev = <<Msg(102, f)>> /\ toCen = <<>>
  BY DEF Challenged
<1>4. /\ cen.A \in Num /\ par.A = cen.A /\ par.N = Key.N /\ par.pk = Key.pk /\ carry4 = 0
      /\ own.QID \in 0..(Pow2[Half * Width] - 1) /\ cen.a \in Num /\ "self" \in printed
      /\ cen.TA = Cheb(HalfOf(cen.A), Key.pk, Key.N)
  BY DEF Challenged, Registration
<1> HIDE DEF f
<1>5. toDev' = <<>> /\ cen' = cen /\ pc = "recv" /\ Handled(102, f)
  BY <1>1, <1>3, ReceiveWhole
<1>6. PICK b \in Randoms : On102(f, b)
  BY <1>5 DEF Handled
<1> DEFINE m == [i \in 1..3 |-> Field(f, i, m102[i])]
           TA == chebyshev_Tn(HalfOf(par.A), par.pk, par.N, carry4)
           a1 == BitXor(m[2], TA.tn)
           c == big_add(a1, b).res
           TC == chebyshev_Tn(c, par.pk, par.N, TA.carry4)
           TA1 == chebyshev_Tn(a1, par.pk, par.N, TC.carry4)
           TB == chebyshev_Tn(b, par.pk, par.N, TA1.carry4)
           QID2 == BitXor(m[1], TA.tn)
           N2 == BitXor(b, TA.tn)
<1>7. /\ own' = [own EXCEPT !.TA = TA.tn, !.a1 = a1, !.b = b, !.TB = TB.tn]
      /\ printed' = Checks(Checks(printed, m[3] = <<m[1], m[2]>>, "HM2"), QID2 = HalfOf(own.QID), "ID")
      /\ Transmit(Msg(203, <<N2, QID2, TC.tn, <<N2, TC.tn, QID2>>>>))
      /\ pc' = pc
  BY <1>6, Zenon DEF On102
<1>8. m[1] = Q /\ m[2] = M /\ m[3] = <<Q, M>>
  BY <1>1, <1>2 DEF Field
<1> HIDE DEF m
<1>9. TA.tn = cen.TA /\ cen.TA \in Num
  BY <1>4, CentreTA
<1> HIDE DEF TA
<1>10. own.QID \in Nat /\ own.QID \in Num /\ HalfOf(own.QID) = own.QID
  <2>1. own.QID \in Nat /\ own.QID < Pow2[Half * Width]
    BY <1>4, HalfPower
  <2> QED
    BY <2>1, HalfOfValue
<1>11. a1 = cen.a
  BY <1>4, <1>8, <1>9, XorAssumption DEF Num
<1> HIDE DEF a1
<1>12. QID2 = HalfOf(own.QID)
  BY <1>8, <1>9, <1>10, XorAssumption DEF Num
<1> HIDE DEF QID2, TB, TC, c, TA1, Q, M
<1>13. {"self", "HM2", "ID"} \subseteq printed'
  <2>1. printed' = (printed \cup {"HM2"}) \cup {"ID"}
    BY <1>7, <1>8, <1>12 DEF Checks
  <2> QED
    BY <1>4, <2>1
<1>14. own'.TA = cen.TA /\ own'.a1 = cen.a /\ own'.b = b
  BY <1>7, <1>9, <1>11 DEF OwnShape
<1>15. b \in Num
  BY SessionAssumption DEF Num
<1>16. Agreement'
  BY <1>5, <1>9, <1>13, <1>14, <1>15 DEF Agreement, Num
<1>17. N2 = BitXor(own'.b, cen'.TA)
  BY <1>5, <1>9, <1>14
<1> HIDE DEF N2
<1>18. PICK s, t, u : Transmit(Msg(203, <<N2, s, t, u>>))
  BY <1>7
<1>19. PICK v : v = Msg(203, <<N2, s, t, u>>)
  OBVIOUS
<1>20. out' = v /\ toCen' = <<v>>
  BY <1>3, <1>18, <1>19, Sent
<1>21. v = Msg(203, <<BitXor(own'.b, cen'.TA), s, t, u>>)
  BY <1>17, <1>19
<1>22. Pending(Msg(203, <<BitXor(own.b, cen.TA), s, t, u>>))'
  BY <1>5, <1>20, <1>21, Zenon DEF Pending, Msg
<1>23. pc' # "spin"
  BY <1>5, <1>7
<1> QED
  BY <1>16, <1>22, <1>23 DEF Answered

(* 203: the centre gets the device's number back, or refuses.              *)
LEMMA AnsweredServed ==
  ASSUME CenShape, Answered, Centre
  PROVE  Answered' \/ Accepted'
<1>1. PICK s, t, u : Pending(Msg(203, <<BitXor(own.b, cen.TA), s, t, u>>))
  BY DEF Answered
<1> DEFINE f == <<BitXor(own.b, cen.TA), s, t, u>>
<1>2. f[1] = BitXor(own.b, cen.TA)
  OBVIOUS
<1>3. Pending(Msg(203, f))
  BY <1>1
<1>4. toCen # <<>>
  BY DEF Centre
<1>5. toCen = <<Msg(203, f)>> /\ toDev = <<>>
  BY <1>3, <1>4 DEF Pending
<1>6. toCen' = <<>> /\ Served(203, f)
  BY <1>5, CentreHead
<1>7. Centre203(f)
  BY <1>6 DEF Served
<1>8. carry4' = carry4 /\ par' = par /\ own' = own /\ out' = out /\ printed' = printed
  BY CentreKeeps
<1>9. CASE Refuse
  <2>1. PICK m : m = Msg(203, f)
    OBVIOUS
  <2>2. Pending(m)' /\ cen' = cen
    BY <1>3, <1>5, <1>6, <1>8, <1>9, <2>1, PendingRefused
  <2>3. m = Msg(203, <<BitXor(own'.b, cen'.TA), s, t, u>>)
    BY <1>8, <2>1, <2>2
  <2>4. Pending(Msg(203, <<BitXor(own.b, cen.TA), s, t, u>>))'
    BY <2>2, <2>3, Zenon DEF Pending, Msg
  <2>5. Agreement'
    BY <1>8, <2>2 DEF Answered, Agreement, Num
  <2> QED
    BY <2>4, <2>5 DEF Answered
<1>10. CASE ~Refuse
  <2> HIDE DEF f
  <2>1. BitXor(f[1], cen.TA) = own.b
    BY <1>2, XorAssumption DEF Answered, Agreement, Num
  <2>2. /\ cen' = [cen EXCEPT !.key = <<cen.a, BitXor(f[1], cen.TA), cen.TA>>]
        /\ \E x, y : Reply(Msg(103, <<x, y, <<x, y>>>>))
    BY <1>7, <1>10, Zenon DEF Centre203
  <2>3. PICK x, y : Reply(Msg(103, <<x, y, <<x, y>>>>))
    BY <2>2
  <2>4. cen'.key = <<cen.a, own.b, cen.TA>> /\ cen'.a = cen.a /\ cen'.TA = cen.TA
    BY <2>1, <2>2 DEF CenShape
  <2>5. toDev' = Append(<<>>, Msg(103, <<x, y, <<x, y>>>>))
    BY <1>5, <2>3 DEF Reply
  <2>6. toDev' = <<Msg(103, <<x, y, <<x, y>>>>)>>
    BY <2>5, OneElement
  <2>7. Agreement'
    BY <1>8, <2>4 DEF Answered, Agreement, Num
  <2>8. cen'.key = <<cen'.a, own'.b, cen'.TA>>
    BY <1>8, <2>4
  <2> QED
    BY <1>6, <2>6, <2>7, <2>8 DEF Accepted, Msg
<1> QED
  BY <1>9, <1>10

(* A refused 203 is sent again.                                            *)
LEMMA AnsweredAgain ==
  ASSUME Answered, Receive, whole'
  PROVE  Answered' /\ pc' # "spin"
<1>1. PICK s, t, u : Pending(Msg(203, <<BitXor(own.b, cen.TA), s, t, u>>))
  BY DEF Answered
<1>2. PICK m : m = Msg(203, <<BitXor(own.b, cen.TA), s, t, u>>)
  OBVIOUS
<1>3. Pending(m) /\ toDev # <<>>
  BY <1>1, <1>2 DEF Receive
<1>4. toCen = <<>> /\ toDev = <<Msg(400, <<>>)>>
  BY <1>3 DEF Pending
<1>5. toDev' = <<>> /\ cen' = cen /\ pc = "recv" /\ Handled(400, <<>>)
  BY <1>4, NoFields, ReceiveWhole
<1>6. OnOther
  BY <1>5 DEF Handled
<1>7. Pending(m)'
  BY <1>3, <1>4, <1>5, <1>6, PendingAgain
<1>8. pc' = pc /\ own' = own /\ printed' = printed
  BY <1>6, OtherKeeps
<1>9. m = Msg(203, <<BitXor(own'.b, cen'.TA), s, t, u>>)
  BY <1>2, <1>5, <1>8
<1>10. Pending(Msg(203, <<BitXor(own.b, cen.TA), s, t, u>>))'
  BY <1>7, <1>9, Zenon DEF Pending, Msg
<1>11. Agreement'
  BY <1>5, <1>8 DEF Answered, Agreement, Num
<1>12. pc' # "spin"
  BY <1>5, <1>8
<1> QED
  BY <1>10, <1>11, <1>12 DEF Answered

(* 103: the key of both.                                                   *)
LEMMA AcceptedStep ==
  ASSUME Accepted, Receive, whole'
  PROVE  Done' /\ pc' = "spin"
<1>1. PICK s, t : toDev = <<Msg(103, <<s, t, <<s, t>>>>)>>
  BY DEF Accepted
<1> DEFINE f == <<s, t, <<s, t>>>>
<1>2. SubSeq(f, 1, Len(f)) = f /\ Len(f) = 3
  BY ThreeFields
<1>3. f[1] = s /\ f[2] = t /\ f[3] = <<s, t>>
  OBVIOUS
<1>4. toDev = <<Msg(103, f)>>
  BY <1>1
<1> HIDE DEF f
<1>5. toDev' = <<>> /\ cen' = cen /\ Handled(103, f)
  BY <1>2, <1>4, ReceiveWhole
<1>6. On103(f)
  BY <1>5 DEF Handled
<1> DEFINE m == [i \in 1..3 |-> Field(f, i, m103[i])]
<1>7. m[3] = <<m[1], m[2]>>
  BY <1>2, <1>3 DEF Field
<1> HIDE DEF m
<1>8. /\ ks' = <<own.a1, own.b, own.TA>> /\ pc' = "spin" /\ toCen' = toCen
      /\ \E ok : printed' = Checks(Checks(printed, m[3] = <<m[1], m[2]>>, "HM5"), ok, "a")
  BY <1>6, Zenon DEF On103, DeviceKey, m
<1>9. PICK ok : printed' = Checks(Checks(printed, m[3] = <<m[1], m[2]>>, "HM5"), ok, "a")
  BY <1>8
<1>10. {"self", "HM2", "HM5", "ID"} \subseteq printed'
  <2>1. Checks(printed, m[3] = <<m[1], m[2]>>, "HM5") = printed \cup {"HM5"}
    BY <1>7 DEF Checks
  <2>2. printed \cup {"HM5"} \subseteq printed'
    BY <1>9, <2>1 DEF Checks
  <2> QED
    BY <2>2 DEF Accepted, Agreement
<1>11. ks' = cen'.key
  BY <1>5, <1>8 DEF Accepted, Agreement
<1> QED
  BY <1>5, <1>8, <1>10, <1>11 DEF Done, DeviceKeyAgrees, Accepted

-----------------------------------------------------------------------------
(* own and cen keep their fields.                                          *)
LEMMA OwnUpdate ==
  ASSUME OwnShape, NEW v, NEW w, NEW x, NEW y,
         own' = [own EXCEPT !.TA = v, !.a1 = w, !.b = x, !.TB = y]
  PROVE  OwnShape'
<1>1. PICK q, t, a, b, u : own = [QID |-> q, TA |-> t, a1 |-> a, b |-> b, TB |-> u]
  BY DEF OwnShape
<1> DEFINE r1 == [own EXCEPT !.TA = v]
           r2 == [r1 EXCEPT !.a1 = w]
           r3 == [r2 EXCEPT !.b = x]
<1>2. own' = [r3 EXCEPT !.TB = y]
  OBVIOUS
<1>3. r1 = [QID |-> q, TA |-> v, a1 |-> a, b |-> b, TB |-> u]
  BY <1>1
<1> HIDE DEF r1
<1>4. r2 = [QID |-> q, TA |-> v, a1 |-> w, b |-> b, TB |-> u]
  BY <1>3
<1> HIDE DEF r2
<1>5. r3 = [QID |-> q, TA |-> v, a1 |-> w, b |-> x, TB |-> u]
  BY <1>4
<1> HIDE DEF r3
<1>6. own' = [QID |-> q, TA |-> v, a1 |-> w, b |-> x, TB |-> y]
  BY <1>2, <1>5
<1> QED
  BY <1>6, Zenon DEF OwnShape

LEMMA OwnShapeStep ==
  ASSUME OwnShape, Receive
  PROVE  OwnShape'
<1>1. ASSUME own' = own PROVE OwnShape'
  BY <1>1 DEF OwnShape
<1>2. ASSUME NEW f, On101(f) PROVE OwnShape'
  <2>1. own' = own \/ \E v : own' = [own EXCEPT !.QID = v]
    BY <1>2, Zenon DEF On101
  <2>2. ASSUME NEW v, own' = [own EXCEPT !.QID = v] PROVE OwnShape'
    <3>1. PICK q, t, a, b, u : own = [QID |-> q, TA |-> t, a1 |-> a, b |-> b, TB |-> u]
      BY DEF OwnShape
    <3>2. own' = [QID |-> v, TA |-> t, a1 |-> a, b |-> b, TB |-> u]
      BY <2>2, <3>1
    <3> QED
      BY <3>2, Zenon DEF OwnShape
  <2> QED
    BY <1>1, <2>1, <2>2
<1>3. ASSUME NEW f, NEW z, On102(f, z) PROVE OwnShape'
  <2> DEFINE TA == chebyshev_Tn(HalfOf(par.A), par.pk, par.N, carry4)
             m == [i \in 1..3 |-> Field(f, i, m102[i])]
             a1 == BitXor(m[2], TA.tn)
             TC == chebyshev_Tn(big_add(a1, z).res, par.pk, par.N, TA.carry4)
             TA1 == chebyshev_Tn(a1, par.pk, par.N, TC.carry4)
             TB == chebyshev_Tn(z, par.pk, par.N, TA1.carry4)
  <2>1. own' = [own EXCEPT !.TA = TA.tn, !.a1 = a1, !.b = z, !.TB = TB.tn]
    BY <1>3, Zenon DEF On102
  <2> HIDE DEF TA, a1, TB
  <2>2. PICK v, w, y : v = TA.tn /\ w = a1 /\ y = TB.tn
    OBVIOUS
  <2>3. own' = [own EXCEPT !.TA = v, !.a1 = w, !.b = z, !.TB = y]
    BY <2>1, <2>2, Zenon
  <2> QED
    BY <2>3, OwnUpdate
<1>4. \A f : On103(f) => own' = own
  BY DEF On103
<1>5. OnOther => own' = own
  BY DEF OnOther
<1>6. (\E f : On101(f) \/ (\E z : On102(f, z)) \/ On103(f)) \/ OnOther
  BY Zenon DEF Receive
<1> QED
  BY <1>1, <1>2, <1>3, <1>4, <1>5, <1>6

LEMMA CenUpdate ==
  ASSUME CenShape, NEW v, NEW w, NEW x,
         \/ cen' = [cen EXCEPT !.A = v, !.PID = w]
         \/ cen' = [cen EXCEPT !.QID = v, !.TA = w, !.a = x]
         \/ cen' = [cen EXCEPT !.key = v]
         \/ cen' = cen
  PROVE  CenShape'
<1>1. PICK a, p, q, t, b, k : cen = [A |-> a, PID |-> p, QID |-> q, TA |-> t, a |-> b, key |-> k]
  BY DEF CenShape
<1> DEFINE r1 == [cen EXCEPT !.A = v]
           s1 == [cen EXCEPT !.QID = v]
           s2 == [s1 EXCEPT !.TA = w]
<1>2. \/ cen' = [r1 EXCEPT !.PID = w] \/ cen' = [s2 EXCEPT !.a = x]
      \/ cen' = [cen EXCEPT !.key = v] \/ cen' = cen
  OBVIOUS
<1>3. r1 = [A |-> v, PID |-> p, QID |-> q, TA |-> t, a |-> b, key |-> k]
  BY <1>1
<1>4. s1 = [A |-> a, PID |-> p, QID |-> v, TA |-> t, a |-> b, key |-> k]
  BY <1>1
<1> HIDE DEF r1, s1
<1>5. s2 = [A |-> a, PID |-> p, QID |-> v, TA |-> w, a |-> b, key |-> k]
  BY <1>4
<1> HIDE DEF s2
<1>6. CASE cen' = [r1 EXCEPT !.PID = w]
  <2>1. cen' = [A |-> v, PID |-> w, QID |-> q, TA |-> t, a |-> b, key |-> k]
    BY <1>3, <1>6
  <2> QED
    BY <2>1, Zenon DEF CenShape
<1>7. CASE cen' = [s2 EXCEPT !.a = x]
  <2>1. cen' = [A |-> a, PID |-> p, QID |-> v, TA |-> w, a |-> x, key |-> k]
    BY <1>5, <1>7
  <2> QED
    BY <2>1, Zenon DEF CenShape
<1>8. CASE cen' = [cen EXCEPT !.key = v]
  <2>1. cen' = [A |-> a, PID |-> p, QID |-> q, TA |-> t, a |-> b, key |-> v]
    BY <1>1, <1>8
  <2> QED
    BY <2>1, Zenon DEF CenShape
<1>9. CASE cen' = cen
  BY <1>9 DEF CenShape
<1> QED
  BY <1>2, <1>6, <1>7, <1>8, <1>9

LEMMA CenShapeStep ==
  ASSUME CenShape, Centre
  PROVE  CenShape'
<1>1. Centre201 => \E v, w : cen' = [cen EXCEPT !.A = v, !.PID = w]
  BY Zenon DEF Centre201
<1>2. \A f : Centre202(f) => cen' = cen \/ \E v, w, x : cen' = [cen EXCEPT !.QID = v, !.TA = w, !.a = x]
  BY Zenon DEF Centre202, Refuse
<1>3. \A f : Centre203(f) => cen' = cen \/ \E v : cen' = [cen EXCEPT !.key = v]
  BY Zenon DEF Centre203, Refuse
<1>4. Centre201 \/ \E f : Centre202(f) \/ Centre203(f)
  BY DEF Centre
<1>5. PICK v, w, x : \/ cen' = [cen EXCEPT !.A = v, !.PID = w]
                     \/ cen' = [cen EXCEPT !.QID = v, !.TA = w, !.a = x]
                     \/ cen' = [cen EXCEPT !.key = v]
                     \/ cen' = cen
  BY <1>1, <1>2, <1>3, <1>4, Zenon
<1> QED
  BY <1>5, CenUpdate

(* In the other stages nobody has a message to take.                       *)
LEMMA StageReceive ==
  ASSUME OwnShape, Stage, Receive, whole'
  PROVE  Stage'
<1>1. toDev # <<>> /\ pc = "recv"
  BY DEF Receive
<1>2. Fresh \/ Offered \/ Prepared \/ Challenged \/ Answered \/ Accepted
  BY <1>1 DEF Stage
<1>3. CASE Fresh
  BY <1>1, <1>3 DEF Fresh
<1>4. CASE Offered
  BY <1>4, OfferedStep DEF Stage
<1>5. CASE Prepared
  BY <1>5, PreparedAgain DEF Stage
<1>6. CASE Challenged
  BY <1>6, ChallengedStep DEF Stage
<1>7. CASE Answered
  BY <1>7, AnsweredAgain DEF Stage
<1>8. CASE Accepted
  BY <1>8, AcceptedStep DEF Stage
<1> QED
  BY <1>2, <1>3, <1>4, <1>5, <1>6, <1>7, <1>8

LEMMA StageCentre ==
  ASSUME CenShape, Stage, Centre
  PROVE  Stage'
<1>1. toCen # <<>> /\ pc' = pc
  BY CentreKeeps DEF Centre
<1>2. CASE Fresh
  BY <1>1, <1>2, FreshStep DEF Stage, Fresh, Done
<1>3. CASE Prepared
  BY <1>1, <1>3, PreparedServed DEF Stage, Done
<1>4. CASE Answered
  BY <1>1, <1>4, AnsweredServed DEF Stage, Done
<1>5. CASE Offered \/ Challenged \/ Accepted \/ Done
  BY <1>1, <1>5 DEF Offered, Challenged, Accepted, Done
<1> QED
  BY <1>2, <1>3, <1>4, <1>5 DEF Stage

(* Nothing that a stage speaks of changes.                                 *)
LEMMA StageKept ==
  ASSUME Stage, carry4' = carry4, par' = par, own' = own, out' = out, printed' = printed, ks' = ks,
         whole' = whole, toDev' = toDev, toCen' = toCen, cen' = cen,
         pc' = pc \/ (pc # "spin" /\ pc' # "spin")
  PROVE  Stage'
<1>1. Fresh => Fresh'
  BY DEF Fresh, Msg
<1>2. Offered => Offered'
  BY DEF Offered, Msg, Num
<1>3. Registration => Registration'
  BY DEF Registration, Num
<1>4. ASSUME NEW m, Pending(m) PROVE Pending(m)'
  BY <1>4 DEF Pending, Msg
<1>5. ASSUME Prepared PROVE Prepared'
  <2>1. PICK s, t : Pending(Msg(202, <<s, t, own.QID>>))
    BY <1>5 DEF Prepared
  <2>2. PICK m : m = Msg(202, <<s, t, own.QID>>)
    OBVIOUS
  <2>3. Pending(m)' /\ m = Msg(202, <<s, t, own'.QID>>)
    BY <1>4, <2>1, <2>2
  <2>4. Pending(Msg(202, <<s, t, own.QID>>))'
    BY <2>3, Zenon DEF Pending, Msg
  <2> QED
    BY <1>3, <1>5, <2>4 DEF Prepared
<1>6. Challenged => Challenged'
  BY <1>3, Zenon DEF Challenged, Msg, Cheb, HalfOf, Num
<1>7. Agreement => Agreement'
  BY DEF Agreement, Num
<1>8. ASSUME Answered PROVE Answered'
  <2>1. PICK s, t, u : Pending(Msg(203, <<BitXor(own.b, cen.TA), s, t, u>>))
    BY <1>8 DEF Answered
  <2>2. PICK m : m = Msg(203, <<BitXor(own.b, cen.TA), s, t, u>>)
    OBVIOUS
  <2>3. Pending(m)' /\ m = Msg(203, <<BitXor(own'.b, cen'.TA), s, t, u>>)
    BY <1>4, <2>1, <2>2
  <2>4. Pending(Msg(203, <<BitXor(own.b, cen.TA), s, t, u>>))'
    BY <2>3, Zenon DEF Pending, Msg
  <2> QED
    BY <1>7, <1>8, <2>4 DEF Answered
<1>9. Accepted => Accepted'
  BY <1>7 DEF Accepted, Msg
<1>10. Done /\ pc = "spin" => Done' \/ pc' # "spin"
  BY DEF Done, DeviceKeyAgrees
<1> QED
  BY <1>1, <1>2, <1>5, <1>6, <1>8, <1>9, <1>10 DEF Stage

LEMMA DevInvStep == DevInv /\ [Next]_vars => DevInv'
<1> SUFFICES ASSUME DevInv, [Next]_vars PROVE DevInv'
  OBVIOUS
<1>1. CASE Call \/ UNCHANGED vars
  <2>1. task' = task /\ pc' = pc /\ par' = par /\ own' = own /\ out' = out /\ printed' = printed
        /\ ks' = ks /\ whole' = whole /\ toDev' = toDev /\ toCen' = toCen /\ cen' = cen
    BY <1>1 DEF Call, vars, devVars, callVars
  <2>2. OwnShape' /\ CenShape'
    BY <2>1 DEF DevInv, OwnShape, CenShape
  <2>3. task = "client" => carry4' = carry4
    BY <1>1 DEF Call, vars, callVars
  <2>4. ASSUME task = "client", whole PROVE Stage'
    <3>1. Stage /\ carry4' = carry4
      BY <2>3, <2>4 DEF DevInv
    <3> QED
      BY <2>1, <3>1, StageKept
  <2> QED
    BY <2>1, <2>2, <2>4 DEF DevInv
<1>2. CASE Receive
  <2>1. task = "client" /\ task' = task /\ cen' = cen
    BY <1>2 DEF Receive
  <2>2. whole' \in BOOLEAN /\ (whole' => whole)
    BY <1>2, Zenon DEF Receive, DevInv
  <2>3. OwnShape' /\ CenShape'
    BY <1>2, <2>1, OwnShapeStep DEF DevInv, CenShape
  <2>4. ASSUME whole' PROVE Stage'
    BY <1>2, <2>1, <2>2, <2>4, StageReceive DEF DevInv
  <2> QED
    BY <2>1, <2>2, <2>3, <2>4 DEF DevInv
<1>3. CASE Disconnected
  <2>1. task = "client" /\ task' = task /\ pc = "recv" /\ pc' = "closed" /\ carry4' = carry4 /\ par' = par /\ own' = own
        /\ out' = out /\ printed' = printed /\ ks' = ks /\ whole' = whole /\ toDev' = toDev /\ toCen' = toCen /\ cen' = cen
    BY <1>3 DEF Disconnected, callVars
  <2>2. OwnShape' /\ CenShape'
    BY <2>1 DEF DevInv, OwnShape, CenShape
  <2>3. ASSUME whole PROVE Stage'
    <3>1. Stage
      BY <2>1, <2>3 DEF DevInv
    <3> QED
      BY <2>1, <3>1, StageKept
  <2> QED
    BY <2>1, <2>2, <2>3 DEF DevInv
<1>4. CASE Centre
  <2>1. task = "client" /\ task' = task /\ own' = own /\ whole' = whole
    BY <1>4 DEF Centre, devVars
  <2>2. OwnShape' /\ CenShape'
    BY <1>4, <2>1, CenShapeStep DEF DevInv, OwnShape
  <2>3. ASSUME whole PROVE Stage'
    BY <1>4, <2>1, <2>3, StageCentre DEF DevInv
  <2> QED
    BY <2>1, <2>2, <2>3 DEF DevInv
<1> QED
  BY <1>1, <1>2, <1>3, <1>4 DEF Next

(* For any exclusive or, salts, numbers and key within the limbs: as long  *)
(* as every recv of tcpclient returns a whole message, the device that has *)
(* handled 103 holds the centre's key and its checks of integrity and of   *)
(* its identity have passed.                                               *)
THEOREM KeyAgreement == Spec => []DeviceKeyAgrees
<1>1. Init => DevInv
  <2> SUFFICES ASSUME Init PROVE DevInv
    OBVIOUS
  <2>1. Fresh
    BY Zenon DEF Init, Fresh
  <2>2. /\ whole = TRUE /\ task \in {"call", "client"} /\ pc = "recv"
        /\ own = [QID |-> 0, TA |-> 0, a1 |-> 0, b |-> 0, TB |-> 0]
        /\ cen = [A |-> 0, PID |-> 0, QID |-> 0, TA |-> 0, a |-> 0, key |-> NoKey]
    BY DEF Init
  <2>3. OwnShape /\ CenShape
    BY <2>2, Zenon DEF OwnShape, CenShape
  <2> QED
    BY <2>1, <2>2, <2>3 DEF DevInv, Stage
<1>2. DevInv => DeviceKeyAgrees
  <2> SUFFICES ASSUME DevInv, whole, pc = "spin" PROVE DeviceKeyAgrees
    BY DEF DeviceKeyAgrees
  <2>1. task = "client"
    BY DEF DevInv
  <2> QED
    BY <2>1 DEF DevInv, Stage, Done
<1> QED
  BY <1>1, <1>2, DevInvStep, PTL DEF Spec
=============================================================================
