------------------------------- MODULE Strtod -------------------------------
(***************************************************************************)
(* Decimal digits read as a real number (strtod and bigcomp of             *)
(* math/dtoa.cpp): a first approximation with the arithmetic of the        *)
(* processor, and its correction by comparing whole numbers.               *)
(*                                                                         *)
(* A text is a sequence of signs.  Left out: hexadecimal numbers, and the  *)
(* names of infinity and of what is no number.                             *)
(***************************************************************************)
EXTENDS Float

DigitOf == [c \in {"0", "1", "2", "3", "4", "5", "6", "7", "8", "9"} |->
               CHOOSE n \in 0 .. 9 : <<"0", "1", "2", "3", "4", "5", "6", "7", "8", "9">>[n + 1] = c]
Sign(s, i) == IF i <= Len(s) THEN s[i] ELSE "end"

-------------------------------------------------------------------------------
(* What the text holds: its significant digits and the power of ten they are times of. *)

RECURSIVE Run(_, _), WithoutZeros(_), WithoutLast(_), Integer10(_, _)
\* The place after the digits from i on.
Run(s, i) == IF Sign(s, i) \in DOMAIN DigitOf THEN Run(s, i + 1) ELSE i
DigitsIn(s, i, j) == [n \in 1 .. j - i |-> DigitOf[s[i + n - 1]]]
WithoutZeros(digits) == IF digits # <<>> /\ Head(digits) = 0 THEN WithoutZeros(Tail(digits)) ELSE digits
WithoutLast(digits) ==
    IF digits # <<>> /\ digits[Len(digits)] = 0 THEN WithoutLast(SubSeq(digits, 1, Len(digits) - 1)) ELSE digits
Integer10(n, digits) == IF digits = <<>> THEN n ELSE Integer10(10 * n + Head(digits), Tail(digits))

First(digits, n) == SubSeq(digits, 1, Smaller(n, Len(digits)))

\* An exponent of more than eight digits, or above 19999, is that.  None without a digit.
TenExponent(s, i) ==
    LET signed == Sign(s, i + 1) \in {"-", "+"}
        from == IF signed THEN i + 2 ELSE i + 1
        to == Run(s, from)
        L == WithoutZeros(DigitsIn(s, from, to))
        n == IF Len(L) > 5 THEN 19999 ELSE Smaller(Integer10(0, L), 19999)
    IN  IF Sign(s, i) \notin {"e", "E"} \/ to = from THEN [e |-> 0, next |-> i]
        ELSE [e |-> IF Sign(s, i + 1) = "-" THEN -n ELSE n, next |-> to]

Scanned(s) ==
    LET start == IF Sign(s, 1) \in {"-", "+"} THEN 2 ELSE 1
        point == Run(s, start)
        whole == WithoutZeros(DigitsIn(s, start, point))
        end == IF Sign(s, point) = "." THEN Run(s, point + 1) ELSE point
        behind == WithoutLast(DigitsIn(s, point + 1, end))    \* zeros at its end do not count
        ten == TenExponent(s, end)
    IN  [minus |-> Sign(s, 1) = "-",
         digits |-> IF whole = <<>> THEN WithoutZeros(behind) ELSE whole \o behind,
         nz1 |-> IF behind = <<>> THEN Len(whole) - Len(WithoutLast(whole)) ELSE 0,
         e |-> ten.e - Len(behind), next |-> ten.next]

-------------------------------------------------------------------------------
(* The first approximation. *)

\* The first digits, in two parts that a word holds.
FirstDigits(digits) ==
    LET k == Smaller(Len(digits), DBL_DIG + 2)
        y == Rounded(Integer10(0, First(digits, WordDigits)), 0)
        z == Rounded(Integer10(0, SubSeq(digits, WordDigits + 1, k)), 0)
    IN  IF k > WordDigits THEN Plus(Times(Tens(k - WordDigits), y), z, 1) ELSE y

\* So few digits that one rounding gives the number.
InOneStep(nd, e) == nd <= DBL_DIG /\ e >= -Ten_pmax /\ e <= Ten_pmax + DBL_DIG - nd
OneStep(rv, nd, e) ==
    LET i == DBL_DIG - nd
    IN  IF e < 0 THEN Over(rv, Tens(-e))
        ELSE IF e <= Ten_pmax THEN Times(rv, Tens(e))
        ELSE Times(Times(rv, Tens(i)), Tens(e - i))

\* The rest of the exponent bit by bit, by the powers 10^(2^TenBits), its square and so on.
AtOnce == 2 ^ TenBits
RECURSIVE ByBits(_, _, _)
ByBits(rv, k, power) ==
    IF k = 0 THEN rv
    ELSE ByBits(IF k % 2 = 0 THEN rv ELSE Times(rv, IF power > 0 THEN Tens(power) ELSE TinyTens(-power)),
                k \div 2, 2 * power)

Approximation(rv, e1) ==
    LET k == (IF e1 < 0 THEN -e1 ELSE e1) \div AtOnce
        Bounded(up) == IF k = 0 THEN up
                       ELSE IF k * AtOnce > DBL_MAX_10_EXP \/ Exponent(up) > Emax + 1 THEN Infinity
                       ELSE IF Exponent(up) > Emax THEN Big ELSE up
    IN  IF e1 < 0 THEN ByBits(Over(rv, Tens((-e1) % AtOnce)), k, -AtOnce)
        ELSE Bounded(ByBits(Times(rv, Tens(e1 % AtOnce)), k, AtOnce))

-------------------------------------------------------------------------------
(* The correction. *)

\* The number below a power of two is nearer than the one above it.
DropDown(rv) == [f |-> 2 ^ P - 1, e |-> rv.e - 1]

\* bd is the text, bb the number and bs half a unit in its last place, times the same.
Compared(d, bd0, e) ==
    LET bs2 == Greater(-e, 0) + Greater(d.e, 0)
        bb2 == bs2 + P + 1 - d.bits
        bd2 == Greater(e, 0) + Greater(-d.e, 0) + P + 1 - d.bits
        i == Greater(0, Smaller(bs2, Smaller(bb2, bd2)))
        five == Pow5Mult(I2B(1), Greater(-e, 0))
        bb == IF e < 0 THEN Mult(five, d.b) ELSE d.b
    IN  [delta |-> Diff(LShift(bb, bb2 - i), LShift(Pow5Mult(bd0, Greater(e, 0)), bd2 - i)),
         bs |-> LShift(five, bs2 - i)]

\* How many units rv is changed by: at least one, or a half below a power of two.
Adjustment(rv, aadj, above) ==
    IF aadj.f = 0 \/ Below(aadj, 2) \/ aadj = [One EXCEPT !.e = @ + 1]
    THEN IF above \/ ~PowerOfTwo(rv) THEN One
         ELSE IF Below(aadj, 1) THEN Half(One) ELSE Half(aadj)
    ELSE Half(aadj)

\* No further round where the fraction of the change is not nearly a half: here an eighth
\* and more away for 11 bits, there one in 10^7 for 53.
Tolerance == 2 ^ (P \div 3)
FarFromHalf(rv, aadj, above) ==
    LET unit == IF aadj.e < 0 THEN 2 ^ (-aadj.e) ELSE 1
        fraction == (IF aadj.e < 0 THEN aadj.f % unit ELSE 0) * Tolerance
        low == (Tolerance \div 2 - 1) * unit
        high == (Tolerance \div 2 + 1) * unit
    IN  IF above \/ ~PowerOfTwo(rv) THEN fraction < low \/ fraction > high ELSE 2 * fraction < low

\* Half a unit away: to the even number, which may be a power of two.
ToEven(rv, above) ==
    IF above /\ rv.f = 2 ^ P - 1 THEN IF rv = Big THEN Infinity ELSE Normal(2 ^ P, rv.e)
    ELSE IF ~above /\ PowerOfTwo(rv) THEN DropDown(rv)
    ELSE IF rv.f % 2 = 0 THEN rv
    ELSE Plus(rv, Ulp(rv), IF above THEN 1 ELSE -1)

\* What a round comes to.
Done(rv) == [rv |-> rv, again |-> FALSE, bigcomp |-> FALSE]
Again(rv) == [Done(rv) EXCEPT !.again = TRUE]

MovedTo(x, rv, aadj, above, more) ==
    IF Exponent(x) > Emax THEN IF rv = Big THEN Done(Infinity) ELSE Again(Big)
    ELSE IF ~more /\ x.e = rv.e /\ FarFromHalf(rv, aadj, above) THEN Done(x)
    ELSE Again(x)
Moved(rv, aadj, above, more) ==
    MovedTo(Plus(rv, Times(aadj, Ulp(rv)), IF above THEN 1 ELSE -1), rv, aadj, above, more)

\* With digits left out there is nothing to be said where the number may be the one below,
\* and bigcomp has to look at all of them.
Judged(rv, c, more) ==
    LET delta == c.delta.x  above == c.delta.sign = 1  i == Cmp(delta, c.bs)
    IN  IF more /\ i <= 0 /\ above THEN [Done(rv) EXCEPT !.bigcomp = TRUE]
        ELSE IF i < 0 \/ (i = 0 /\ more)
             THEN IF above \/ ~PowerOfTwo(rv) \/ IsZero(delta) \/ Cmp(LShift(delta, 1), c.bs) <= 0
                  THEN Done(rv)
                  ELSE IF more THEN Again(DropDown(rv)) ELSE Done(DropDown(rv))
        ELSE IF i = 0 THEN Done(ToEven(rv, above))
        ELSE Moved(rv, Adjustment(rv, Ratio(delta, c.bs), above), above, more)

RECURSIVE Rounds(_, _, _, _)
Rounds(r, bd0, e, more) ==
    IF r.again THEN Rounds(Judged(r.rv, Compared(D2B(r.rv), bd0, e), more), bd0, e, more) ELSE r
Corrected(rv, bd0, e, more) == Rounds(Again(rv), bd0, e, more)

\* Digit by digit against the number b/d, of which q is the next digit and the rest.
RECURSIVE Against(_, _, _)
Against(digits, q, d) ==
    IF digits = <<>> THEN IF q.q > 0 \/ ~IsZero(q.b) THEN -1 ELSE 0
    ELSE IF Head(digits) # q.q THEN Head(digits) - q.q
    ELSE IF q.b = <<0>> THEN Smaller(1, Len(Tail(digits)))
    ELSE Against(Tail(digits), Quorem(MultAdd(q.b, 10, 0), d), d)

FirstDigit(q, b, d) == IF q.q = 0 THEN Quorem(MultAdd(b, 10, 0), d) ELSE q
AgainstQuotient(digits, b, d) == Against(digits, FirstDigit(Quorem(b, d), b, d), d)

\* The text lies above the number x: beyond the middle between it and the next?
AgainstMiddle(x, digits, e) ==
    LET p5 == Len(digits) + e - 1
        i == P - x.bits + 1
        p2 == x.e - (p5 + i)
        middle == [LShift(x.b, i) EXCEPT ![1] = @ + 1]
        d0 == Pow5Mult(I2B(1), Greater(p5, 0))
        shift == DShift(d0, Greater(-p2, 0))
    IN  AgainstQuotient(digits, LShift(Pow5Mult(middle, Greater(-p5, 0)), Greater(p2, 0) + shift),
                        LShift(d0, Greater(-p2, 0) + shift))
RoundedBy(dd, rv) == IF dd > 0 \/ (dd = 0 /\ rv.f % 2 = 1) THEN Plus(rv, Ulp(rv), 1) ELSE rv
Bigcomp(rv, digits, e) == RoundedBy(AgainstMiddle(D2B(rv), digits, e), rv)

\* Of many digits only the first are compared with, without the zeros at their end.
Kept(digits) == IF Len(digits) > DigLim THEN WithoutLast(First(digits, KeptDigits)) ELSE digits

Bd0(kept) == S2B(Integer10(0, First(kept, WordDigits)), SubSeq(kept, WordDigits + 1, Len(kept)))

Finite(x) == IF Exponent(x) > Emax THEN Infinity ELSE x
AtLast(r, t) ==
    IF r.bigcomp THEN Finite(Bigcomp(r.rv, First(t.digits, Len(t.digits) - t.nz1), t.e + t.nz1)) ELSE r.rv
Near(rv, kept, t) ==
    LET nd == Len(t.digits)
    IN  IF rv = Infinity THEN rv
        ELSE AtLast(Corrected(rv, Bd0(kept), t.e + nd - Len(kept), nd - t.nz1 > Len(kept)), t)
ValueOf(t) ==
    LET nd == Len(t.digits)
    IN  IF nd = 0 THEN Zero
        ELSE IF InOneStep(nd, t.e) THEN OneStep(FirstDigits(t.digits), nd, t.e)
        ELSE Near(Approximation(FirstDigits(t.digits), t.e + nd - Smaller(nd, DBL_DIG + 2)), Kept(t.digits), t)

Converted(t) == [minus |-> t.minus, next |-> t.next, value |-> ValueOf(t)]
Strtod(s) == Converted(Scanned(s))
=============================================================================
