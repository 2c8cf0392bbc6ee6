------------------------------ MODULE RealText ------------------------------
(***************************************************************************)
(* Real numbers as the calculator writes and reads them (math.cpp), and    *)
(* what the text of a number means.                                        *)
(***************************************************************************)
EXTENDS Strtod, Dtoa

CONSTANTS MaxWhole,      \* digits before the point where there is no exponent: 16
          MaxFraction    \* and behind it: 15

DigitSigns(digits) == [n \in DOMAIN digits |-> <<"0", "1", "2", "3", "4", "5", "6", "7", "8", "9">>[digits[n] + 1]]
Zeros(n) == [i \in 1 .. n |-> "0"]

\* doubleToString: with leading or trailing zeros, or with an exponent, which is left out
\* where it is zero.  Infinity is a word to dtoa, and gets its point and exponent as well.
RECURSIVE DecimalSigns(_)
DecimalSigns(n) == IF n = 0 THEN <<>> ELSE DecimalSigns(n \div 10) \o DigitSigns(<<n % 10>>)
AppendExponent(n) == <<"E">> \o (IF n < 0 THEN <<"-">> \o DecimalSigns(-n) ELSE DecimalSigns(n))

LaidOut(s, n, decpt) ==
    IF decpt \in 1 .. MaxWhole
    THEN IF n <= decpt THEN s \o Zeros(decpt - n)
         ELSE SubSeq(s, 1, decpt) \o <<".">> \o SubSeq(s, decpt + 1, n)
    ELSE IF decpt <= 0 /\ n - decpt <= MaxFraction THEN <<"0", ".">> \o Zeros(-decpt) \o s
    ELSE <<s[1]>> \o (IF n > 1 THEN <<".">> \o Tail(s) ELSE <<>>)
         \o (IF decpt # 1 THEN AppendExponent(decpt - 1) ELSE <<>>)
DigitsOf(t) == LaidOut(DigitSigns(t.digits), Len(t.digits), t.decpt)

DoubleToString(d) ==
    (IF d.minus THEN <<"-">> ELSE <<>>)
    \o (IF d.value = Infinity THEN LaidOut(<<"I", "n", "f", "i", "n", "i", "t", "y">>, 8, 9999)
        ELSE DigitsOf(Dtoa(d.value)))

-------------------------------------------------------------------------------
(* Reading. *)

\* The sign for micro is left out.
Prefixes == [Y |-> 24, Z |-> 21, E |-> 18, P |-> 15, T |-> 12, G |-> 9, M |-> 6, k |-> 3,
             m |-> -3, n |-> -9, p |-> -12, f |-> -15, a |-> -18, z |-> -21, y |-> -24]

\* An operator ends the number, and so does a prefix, which stands for an exponent, also
\* the E with which the calculator writes one.
WithExponent(s) ==
    LET ends == {n \in DOMAIN s : s[n] \in DOMAIN Prefixes \/ (n > 1 /\ s[n] \in {"+", "-"})}
        end == CHOOSE n \in ends \cup {Len(s) + 1} : \A m \in ends : n <= m
        prefixed == Sign(s, end) \in DOMAIN Prefixes
        unsigned == SubSeq(s, IF s[1] = "+" THEN 2 ELSE 1, end - 1)
    IN  [text |-> IF prefixed THEN unsigned \o AppendExponent(Prefixes[s[end]]) ELSE unsigned,
         ended |-> prefixed /\ end < Len(s) => s[end + 1] \in {"+", "-"}]
Accepted(r, t) == [ok |-> r.next = Len(t.text) + 1 /\ t.ended, minus |-> r.minus, value |-> r.value]
FromText(t) == Accepted(Strtod(t.text), t)
StringToDouble(s) == FromText(WithExponent(s))

-------------------------------------------------------------------------------
(* What the text of a number means: a sign, digits with a point among them, and a prefix *)
(* or an exponent.  Whole numbers are compared by their decimal digits, the last first.  *)

AllDigits(s) == \A n \in DOMAIN s : s[n] \in DOMAIN DigitOf
DigitValues(s) == [n \in DOMAIN s |-> DigitOf[s[n]]]

Unsigned(s) == IF s # <<>> /\ s[1] \in {"+", "-"} THEN Tail(s) ELSE s
Integers10(s) ==
    IF Unsigned(s) # <<>> /\ AllDigits(Unsigned(s))
    THEN {IF s[1] = "-" THEN -Integer10(0, DigitValues(Tail(s))) ELSE Integer10(0, DigitValues(Unsigned(s)))}
    ELSE {}
Suffixes(s) ==
    IF s = <<>> THEN {0}
    ELSE IF Len(s) = 1 THEN {Prefixes[c] : c \in {s[1]} \cap DOMAIN Prefixes}
    ELSE IF s[1] = "e" THEN Integers10(Tail(s)) ELSE {}
Meanings(s) ==
    LET u == Unsigned(s)
        Part(i, j) == SubSeq(u, i, j)
        Split(a, b) == /\ a > 0 /\ AllDigits(Part(1, a))
                       /\ b = a \/ (u[a + 1] = "." /\ AllDigits(Part(a + 2, b)))
    IN  UNION {{[digits |-> DigitValues(Part(1, ab[1]) \o Part(ab[1] + 2, ab[2])),
                 e |-> x - Greater(0, ab[2] - ab[1] - 1), minus |-> s[1] = "-"] :
                   x \in Suffixes(Part(ab[2] + 1, Len(u)))} :
               ab \in {c \in (1 .. Len(u)) \X (1 .. Len(u)) : c[1] <= c[2] /\ Split(c[1], c[2])}}

RECURSIVE TimesSmall(_, _, _), TimesTwo(_, _), Compare(_, _, _)
TimesSmall(ds, m, carry) ==
    IF ds = <<>> THEN IF carry = 0 THEN <<>> ELSE TimesSmall(<<0>>, m, carry)
    ELSE LET y == Head(ds) * m + carry IN <<y % 10>> \o TimesSmall(Tail(ds), m, y \div 10)
TimesTwo(ds, n) == IF n <= 0 THEN ds ELSE TimesTwo(TimesSmall(ds, 2, 0), n - 1)
TenTimes(ds, n) == [i \in 1 .. Greater(0, n) |-> 0] \o ds
DigitAt(ds, i) == IF i <= Len(ds) THEN ds[i] ELSE 0
Compare(a, b, i) ==
    IF i = 0 THEN 0
    ELSE IF DigitAt(a, i) # DigitAt(b, i) THEN DigitAt(a, i) - DigitAt(b, i)
    ELSE Compare(a, b, i - 1)

\* digits * 10^e against f * 2^k
AgainstBinary(m, f, k) ==
    LET ds == [i \in DOMAIN m.digits |-> m.digits[Len(m.digits) - i + 1]]
        From(a, b) == Compare(a, b, Greater(Len(a), Len(b)))
    IN  From(TenTimes(TimesTwo(ds, -k), m.e), TenTimes(TimesTwo(TimesSmall(<<>>, 10, f), k), -m.e))

\* Between the middles to the numbers below and above; they belong to the even number.
Nearest(m, x, strictly) ==
    LET Between(low, high) ==
            IF x.f % 2 = 0 /\ ~strictly THEN low >= 0 /\ high <= 0 ELSE low > 0 /\ high < 0
    IN  IF x = Infinity THEN AgainstBinary(m, 2 * Big.f + 1, Big.e - 1) >= 0
        ELSE IF x = Zero THEN \A n \in DOMAIN m.digits : m.digits[n] = 0
        ELSE Between(IF PowerOfTwo(x) THEN AgainstBinary(m, 4 * x.f - 1, x.e - 2)
                     ELSE AgainstBinary(m, 2 * x.f - 1, x.e - 1),
                     AgainstBinary(m, 2 * x.f + 1, x.e - 1))

\* An exponent with a sign is not read, as the sign is an operator and ends the number.
AsMeant(s, r, meanings) ==
    /\ IF \E n \in 2 .. Len(s) : s[n] \in {"+", "-"} THEN meanings # {} => ~r.ok
       ELSE r.ok <=> meanings # {}
    /\ \A m \in meanings : r.ok => r.minus = m.minus /\ Nearest(m, r.value, FALSE)
ReadAsNearest(s) == AsMeant(s, StringToDouble(s), Meanings(s))

\* It begins with a digit that counts; and one digit less, cut off or rounded up, says
\* another number, or is just on the border.
Says(t, x) == Nearest([digits |-> t.digits, e |-> t.decpt - Len(t.digits)], x, TRUE)
ShortOf(t, cut, x) ==
    /\ t.digits[1] # 0
    /\ cut # <<>> => ~Says(Text(cut, t.decpt - 1), x) /\ ~Says(RoundOff(cut, t.decpt - 1), x)
NoShorter(t, x) == x # Zero => ShortOf(t, SubSeq(t.digits, 1, Len(t.digits) - 1), x)

\* What is written is read as the same number, unless it has an exponent: the E before it
\* is taken for a prefix.
ReadBack(s, d) ==
    (\A n \in DOMAIN s : s[n] # "E") =>
        NoShorter(Dtoa(d.value), d.value) /\ StringToDouble(s) = d
WrittenAndRead(d) == ReadBack(DoubleToString(d), [ok |-> TRUE, minus |-> d.minus, value |-> d.value])
=============================================================================
