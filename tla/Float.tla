-------------------------------- MODULE Float --------------------------------
(***************************************************************************)
(* Real numbers as math/dtoa.cpp computes with them, for a format of any   *)
(* precision: what is 53 bits, 15 digits and 10^308 there follows from the *)
(* constants here.                                                         *)
(*                                                                         *)
(* A real number is f * 2^e with P bits in f; zero has none, and infinity  *)
(* an exponent above all others.  Numbers below the smallest normal one    *)
(* are left out, and so is the scaling that the code does near them.  The  *)
(* arithmetic of the processor rounds to the nearest, or else to even.     *)
(***************************************************************************)
EXTENDS Bigint

CONSTANTS P,           \* bits of a number: 53
          Emax,        \* the largest exponent: 1023
          WordDigits,  \* decimal digits that a word holds: 9
          TenBits,     \* powers of ten up to 2^TenBits - 1 are multiplied by at once: 4
          DigLim,      \* digits beyond which not all of them are computed with: 40
          KeptDigits   \* and how many are: 18

\* floor(m * log10(2)), and the largest power of ten without a rounding error.
Decimals(m) == (m * 30103) \div 100000
DBL_DIG == Decimals(P - 1)
Int_max == DBL_DIG - 1
Ten_pmax == CHOOSE k \in 0 .. P : 5 ^ k < 2 ^ P /\ 5 ^ (k + 1) >= 2 ^ P
DBL_MAX_10_EXP == Decimals(Emax + 1)

Greater(a, b) == IF a > b THEN a ELSE b
Smaller(a, b) == IF a < b THEN a ELSE b

-------------------------------------------------------------------------------
(* The arithmetic of the processor, on numbers that are not negative. *)

Zero == [f |-> 0, e |-> 0]
Infinity == [f |-> 0, e |-> Emax + 1]
Exponent(x) == x.e + P - 1
Normal(f, e) == IF f = 2 ^ P THEN [f |-> f \div 2, e |-> e + 1] ELSE [f |-> f, e |-> e]

WithoutBits(n, s, e) ==
    LET r == n % 2 ^ s  q == n \div 2 ^ s
        up == r > 2 ^ (s - 1) \/ (r = 2 ^ (s - 1) /\ q % 2 = 1)
    IN  IF n = 0 THEN Zero
        ELSE IF s <= 0 THEN [f |-> n * 2 ^ (-s), e |-> e + s]
        ELSE Normal(IF up THEN q + 1 ELSE q, e + s)
Rounded(n, e) == WithoutBits(n, BitLength(n) - P, e)

Times(x, y) == Rounded(x.f * y.f, x.e + y.e)
\* Two bits more than needed, and one that tells of a remainder.
Quotient(n, d, e) == LET s == P + 2 IN Rounded(2 * ((n * 2 ^ s) \div d) + Smaller(1, (n * 2 ^ s) % d), e - s - 1)
Over(x, y) == Quotient(x.f, y.f, x.e - y.e)
Aligned(x, e) == x.f * 2 ^ (x.e - e)
Plus(x, y, sign) ==
    IF y.f = 0 THEN x
    ELSE LET e == Smaller(x.e, y.e) IN Rounded(Aligned(x, e) + sign * Aligned(y, e), e)

Ulp(x) == [f |-> 2 ^ (P - 1), e |-> x.e - (P - 1)]
One == [f |-> 2 ^ (P - 1), e |-> -(P - 1)]
Half(x) == [x EXCEPT !.e = @ - 1]
Below(x, m) == x.f # 0 /\ IF x.e >= 0 THEN x.f * 2 ^ x.e < m ELSE x.f < m * 2 ^ (-x.e)

Tens(k) == Rounded(5 ^ k, k)
TinyTens(k) == Rounded(2 * (2 ^ 30 \div 5 ^ k) + 1, -31 - k)

\* The largest number.
Big == [f |-> 2 ^ P - 1, e |-> Emax - (P - 1)]
PowerOfTwo(x) == x.f = 2 ^ (P - 1)

-------------------------------------------------------------------------------
(* Bigints and real numbers. *)

\* d2b: f without the zeros at its end, as it is an integer times 2^e.
D2B(x) == LET k == Lo0Bits(x.f) IN [b |-> I2B(x.f \div 2 ^ k), e |-> x.e + k, bits |-> P - k]

\* b2d: the first P bits.
RECURSIVE Value(_)
Value(b) == IF b = <<>> THEN 0 ELSE Head(b) + Base * Value(Tail(b))
B2D(b) == LET top == SubSeq(b, Greater(1, Len(b) - 2), Len(b))
              s == Bits(top) - P
          IN  IF s >= 0 THEN Value(top) \div 2 ^ s ELSE Value(top) * 2 ^ (-s)

Ratio(a, b) == Quotient(B2D(a), B2D(b), Bits(a) - Bits(b))
=============================================================================
