-------------------------------- MODULE Dtoa --------------------------------
(***************************************************************************)
(* A real number written with as few digits as tell it from all others     *)
(* (dtoa of math/dtoa.cpp, in mode 1, as math.cpp asks for it).            *)
(***************************************************************************)
EXTENDS Float

Text(digits, k) == [digits |-> digits, decpt |-> k + 1]

\* floor(log10(x)), or one more: a line that touches the logarithm, in millionths and
\* rounded up.
Estimate(x) ==
    LET slope == ((2 * x.f - 3 * 2 ^ (P - 1)) * 289530) \div 2 ^ P
    IN  (slope + 176093 + Exponent(x) * 301030) \div 1000000

\* A small integer needs no more than the arithmetic of the processor.
RECURSIVE QuickDigits(_, _)
QuickDigits(n, ten) ==
    <<n \div ten>> \o (IF n % ten = 0 THEN <<>> ELSE QuickDigits((n % ten) * 10, ten))

\* bump_up and roundoff: one more in the last place, over all the nines.
RECURSIVE RoundOff(_, _)
RoundOff(digits, k) ==
    LET n == Len(digits)
    IN  IF n = 0 THEN Text(<<1>>, k + 1)
        ELSE IF digits[n] = 9 THEN RoundOff(SubSeq(digits, 1, n - 1), k)
        ELSE Text([digits EXCEPT ![n] = @ + 1], k)

\* Digit by digit; mlo and mhi are half the way to the numbers below and above.
RECURSIVE Generated(_, _, _, _, _, _)
Generated(digits, k, b, mlo, mhi, S) ==
    LET Above(c, rest) == rest.sign = 1 \/ Cmp(c, rest.x) > 0
        NearerUp(q, twice) == twice > 0 \/ (twice = 0 /\ q % 2 = 1)
        Next(q, c, all, high) ==
            IF Cmp(c, mlo) < 0
            THEN IF ~IsZero(c) /\ high /\ NearerUp(q, Cmp(LShift(c, 1), S)) THEN RoundOff(all, k)
                 ELSE Text(all, k)
            ELSE IF high THEN RoundOff(all, k)
            ELSE Generated(all, k, MultAdd(c, 10, 0), MultAdd(mlo, 10, 0), MultAdd(mhi, 10, 0), S)
        With(q) == Next(q.q, q.b, Append(digits, q.q), Above(q.b, Diff(S, mhi)))
    IN  With(Quorem(b, S))

\* b/S is the number, shifted so that S suits Quorem; m, shifted by m2, is half the way to
\* the number below.
Scaled(d, k, special) ==
    LET b20 == Greater(0, d.e) + Greater(0, -k)
        s20 == Greater(0, -d.e) + Greater(0, k)
        i == 1 + P - d.bits
        common == Smaller(b20, s20 + i)
        m == Pow5Mult(I2B(1), Greater(0, -k))
        S == Pow5Mult(I2B(1), Greater(0, k))
        s2 == s20 + i - common + special
        shift == DShift(S, s2)
    IN  [k |-> k, b |-> LShift(IF k < 0 THEN Mult(m, d.b) ELSE d.b, b20 + i - common + special + shift),
         m |-> m, m2 |-> b20 - common + shift, S |-> LShift(S, s2 + shift)]

\* The estimate may be one too large.
Fixed(p, unsure) ==
    IF unsure /\ Cmp(p.b, p.S) < 0
    THEN [p EXCEPT !.k = @ - 1, !.b = MultAdd(@, 10, 0), !.m = MultAdd(@, 10, 0)] ELSE p
WithHalves(p, mlo, special) == Generated(<<>>, p.k, p.b, mlo, LShift(mlo, special), p.S)
WithHalf(p, special) == WithHalves(p, LShift(p.m, p.m2), special)
LongDigits(d, k, unsure, special) == WithHalf(Fixed(Scaled(d, k, special), unsure), special)

WithEstimate(x, d, k, sure) ==
    IF d.e >= 0 /\ k <= Int_max
    THEN Text(QuickDigits((x.f * 2 ^ Greater(x.e, 0)) \div 2 ^ Greater(-x.e, 0), 10 ^ k), k)
    ELSE LongDigits(d, k, ~sure, IF PowerOfTwo(x) THEN 1 ELSE 0)
Checked(x, k) ==
    LET sure == k \in 0 .. Ten_pmax
    IN  WithEstimate(x, D2B(x), IF sure /\ Below(x, 10 ^ k) THEN k - 1 ELSE k, sure)
Dtoa(x) == IF x = Zero THEN Text(<<0>>, 0) ELSE Checked(x, Estimate(x))
=============================================================================
