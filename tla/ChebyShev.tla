----------------------------- MODULE ChebyShev -----------------------------
(***************************************************************************)
(* The firmware's arithmetic: the Chebyshev polynomial T_n(x) mod p as a   *)
(* power of a 2x2 matrix (ChebyShev.c), and the modular sums and products  *)
(* of protocol.c.  A uint256_t is a number below 2^Bits, a uint512_t one   *)
(* below 2^(2*Bits); a limb has Width bits.                                *)
(*                                                                         *)
(* The working values are static variables of ChebyShev.c; all are set     *)
(* before they are read but carry4, which a call finds as the last call    *)
(* left it.                                                                *)
(***************************************************************************)
EXTENDS Integers

CONSTANTS Width, \* bits of a limb (32)
          Limbs  \* limbs of a uint256_t (8)

ASSUME LimbAssumption == Width \in Nat \ {0} /\ Limbs \in Nat \ {0}

(* The powers of two, as a function that proofs can unfold.                *)
Pow2[n \in Nat] == IF n = 0 THEN 1 ELSE 2 * Pow2[n - 1]

Bits  == Width * Limbs
Range == Pow2[Bits]

-----------------------------------------------------------------------------
big_add(a, b) == [res |-> (a + b) % Range, carry |-> (a + b) \div Range]

big_sub(a, b) == (a - b) % Range

big_mul(a, b) == a * b

(* Zero when the shift is by more than Limbs limbs.                        *)
big512_shl(a, shift) ==
    IF shift \div Width > Limbs THEN 0 ELSE (a * Pow2[shift]) % (Range * Range)

(* Index of the highest bit that is set (clz32); -1 for zero.              *)
TopBit(a) == IF a = 0 THEN -1 ELSE CHOOSE i \in 0..(2 * Bits) : Pow2[i] <= a /\ a < Pow2[i + 1]

Takes(rem, shifted) == rem >= shifted

(* Shift and subtract, from the highest bit of the remainder down.         *)
big_mod(a, m) ==
    LET left[s \in (0..(Range * Range - 1)) \X (-1..(2 * Bits - 1))] == \* rem, rem_bit
            LET shift   == s[2] - TopBit(m)
                shifted == big512_shl(m, shift)
            IN  IF shift < 0 THEN s[1]
                ELSE IF Takes(s[1], shifted)
                THEN left[<<s[1] - shifted, TopBit(s[1] - shifted)>>]
                ELSE left[<<s[1], s[2] - 1>>]
    IN  (IF m = 0 THEN a ELSE left[<<a, TopBit(a)>>]) % Range

-----------------------------------------------------------------------------
(* The sum of two residues, reduced once.                                  *)
AddReduced(r0, r1, m) ==
    LET s == big_add(r0, r1)
    IN  [res   |-> IF s.carry = 1 \/ s.res >= m THEN big_sub(s.res, m) ELSE s.res,
         carry |-> s.carry]

(* a * b + c * d mod m *)
DotMod(a, b, c, d, m) == AddReduced(big_mod(big_mul(a, b), m), big_mod(big_mul(c, d), m), m)

(* A matrix is the sequence of its entries, row by row.                    *)
matrix_mul(A, B, m) ==
    <<DotMod(A[1], B[1], A[2], B[3], m).res, DotMod(A[1], B[2], A[2], B[4], m).res,
      DotMod(A[3], B[1], A[4], B[3], m).res, DotMod(A[3], B[2], A[4], B[4], m).res>>

(* Square and multiply, until the exponent is zero.                        *)
matrix_pow(M, exp, m) ==
    LET pass[k \in 0..Bits] == \* after k passes
            IF k = 0 THEN [base |-> M, result |-> <<1, 0, 0, 1>>]
            ELSE LET s == pass[k - 1]
                     e == exp \div Pow2[k - 1]
                 IN  [base   |-> matrix_mul(s.base, s.base, m),
                      result |-> IF e % 2 = 1 THEN matrix_mul(s.result, s.base, m) ELSE s.result]
    IN  pass[TopBit(exp) + 1].result

(* Faulty variant: the exponent is not lowered by one.                     *)
BadExponent(n) == n

Exponent(n) == big_sub(n, 1)

(* 2x, with the carry4 that is found, is reduced at most once.             *)
TwoX(x, p, carry4) ==
    LET dbl == 2 * x + carry4
    IN  IF dbl >= Range \/ dbl >= p THEN big_sub(dbl, p) ELSE dbl

(* The power of the matrix times (x, 1).                                   *)
TimesVector(M, x, p) ==
    LET t1 == DotMod(M[3], x, M[4], 1, p)
    IN  [tn |-> DotMod(M[1], x, M[2], 1, p).res, tn1 |-> t1.res, carry4 |-> t1.carry]

(* T_n(x), T_(n-1)(x) and the carry4 that is left.                         *)
chebyshev_Tn(n, x, p, carry4) ==
    CASE n = 0 -> [tn |-> 1, tn1 |-> 0, carry4 |-> carry4]
      [] n = 1 -> [tn |-> x, tn1 |-> 1, carry4 |-> carry4]
      [] OTHER -> TimesVector(matrix_pow(<<TwoX(x, p, carry4), big_sub(p, 1), 1, 0>>,
                                         Exponent(n), p), x, p)

-----------------------------------------------------------------------------
(* protocol.c: its comparisons leave a value that equals the modulus, and  *)
(* the carry out of the sum or of the shifted remainder is lost.           *)

ReduceOnce(s, m) == IF s > m THEN s - m ELSE s

uint256_addmod(a, b, m) == ReduceOnce((a + b) % Range, m)

(* Faulty variant: the highest bit of the product is left out.             *)
BadTopIndex == 2 * Bits - 1

TopIndex == 2 * Bits

(* Long division of the product, bit by bit.                               *)
uint256_mulmod(a, b, m) ==
    LET prod == big_mul(a, b)
        rem[i \in 0..TopIndex] == \* when the bits from i on have been brought down
            IF i = TopIndex THEN 0
            ELSE ReduceOnce(((2 * rem[i + 1]) % Range) + ((prod \div Pow2[i]) % 2), m)
    IN  rem[0]
=============================================================================
