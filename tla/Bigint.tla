------------------------------- MODULE Bigint -------------------------------
(***************************************************************************)
(* The whole numbers of any size with which the conversions of real        *)
(* numbers compute (math/dtoa.cpp).  A Bigint is the sequence of its words *)
(* x[0 .. wds-1], the lowest first; zero may have one word or none.        *)
(***************************************************************************)
EXTENDS Integers, Sequences

CONSTANT WordBits     \* of an ULong: 32

Base == 2 ^ WordBits

RECURSIVE MultAdd(_, _, _), I2B(_), BitLength(_)

\* b * m + a, a word longer where there is a carry.
MultAdd(b, m, a) ==
    IF b = <<>> THEN IF a = 0 THEN <<>> ELSE I2B(a)
    ELSE LET y == Head(b) * m + a IN <<y % Base>> \o MultAdd(Tail(b), m, y \div Base)

I2B(i) == IF i < Base THEN <<i>> ELSE <<i % Base>> \o I2B(i \div Base)

BitLength(x) == IF x = 0 THEN 0 ELSE 1 + BitLength(x \div 2)
Hi0Bits(x) == WordBits - BitLength(x)
RECURSIVE Lo0Bits(_)
Lo0Bits(x) == IF x % 2 = 1 THEN 0 ELSE 1 + Lo0Bits(x \div 2)
Bits(b) == WordBits * (Len(b) - 1) + BitLength(b[Len(b)])

\* s2b: digit by digit, but for the first ones, whose number is known.
RECURSIVE WithDigits(_, _)
WithDigits(b, digits) ==
    IF digits = <<>> THEN b ELSE WithDigits(MultAdd(b, 10, Head(digits)), Tail(digits))
S2B(y, digits) == WithDigits(I2B(y), digits)

RECURSIVE Trimmed(_, _)
Trimmed(b, least) ==
    IF Len(b) > least /\ b[Len(b)] = 0 THEN Trimmed(SubSeq(b, 1, Len(b) - 1), least) ELSE b

-------------------------------------------------------------------------------
(* Products. *)

\* A row: x * y is added to what stands there, and the carry put in the place after.
RECURSIVE Row(_, _, _, _), Rows(_, _, _)
Row(x, y, c, carry) ==
    IF x = <<>> THEN <<carry>> \o Tail(c)
    ELSE LET z == Head(x) * y + Head(c) + carry
         IN  <<z % Base>> \o Row(Tail(x), y, Tail(c), z \div Base)
Rows(a, b, c) ==
    IF b = <<>> THEN c
    ELSE LET d == IF Head(b) = 0 THEN c ELSE Row(a, Head(b), c, 0)
         IN  <<Head(d)>> \o Rows(a, Tail(b), Tail(d))

Mult(a, b) ==
    LET none == [n \in 1 .. Len(a) + Len(b) |-> 0]
    IN  Trimmed(IF Len(a) < Len(b) THEN Rows(b, a, none) ELSE Rows(a, b, none), 0)

\* b * 5^k: the lowest two bits of k at once, then the squares of 625 as they are kept in p5s.
RECURSIVE WithSquares(_, _, _)
WithSquares(b, k, p5) ==
    IF k = 0 THEN b
    ELSE WithSquares(IF k % 2 = 1 THEN Mult(b, p5) ELSE b, k \div 2, Mult(p5, p5))
Pow5Mult(b, k) == WithSquares(MultAdd(b, 5 ^ (k % 4), 0), k \div 4, I2B(625))

LShift(b, k) == [n \in 1 .. k \div WordBits |-> 0] \o MultAdd(b, 2 ^ (k % WordBits), 0)

-------------------------------------------------------------------------------
(* Comparison, difference and quotient. *)

Cmp(a, b) ==
    IF Len(a) # Len(b) THEN Len(a) - Len(b)
    ELSE LET differ == {n \in DOMAIN a : a[n] # b[n]}
         IN  IF differ = {} THEN 0
             ELSE LET n == CHOOSE m \in differ : \A k \in differ : k <= m
                  IN  IF a[n] < b[n] THEN -1 ELSE 1

RECURSIVE Less(_, _, _)
Less(a, b, borrow) ==
    IF a = <<>> THEN <<>>
    ELSE LET y == Head(a) - (IF b = <<>> THEN 0 ELSE Head(b)) - borrow
         IN  <<y % Base>> \o Less(Tail(a), IF b = <<>> THEN b ELSE Tail(b), IF y < 0 THEN 1 ELSE 0)

\* The sign is 1 where b is the larger one.
Diff(a, b) ==
    LET i == Cmp(a, b)
    IN  IF i = 0 THEN [x |-> <<0>>, sign |-> 0]
        ELSE IF i < 0 THEN [x |-> Trimmed(Less(b, a, 0), 0), sign |-> 1]
        ELSE [x |-> Trimmed(Less(a, b, 0), 0), sign |-> 0]

IsZero(b) == Len(b) <= 1 /\ (b = <<>> \/ b[1] = 0)

\* What S must be shifted by, after p2, to have four bits unset in its highest word.
DShift(S, p2) == (Hi0Bits(S[Len(S)]) - 4 - (IF p2 > 0 THEN p2 ELSE 0)) % WordBits

\* A quotient of one digit, from the highest words, which may give one too little.
Quorem(b, S) ==
    LET n == Len(S)
        Minus(c, d) == Trimmed(SubSeq(Less(c, d, 0), 1, n), IF n = 1 THEN 0 ELSE 1)
        q == b[n] \div (S[n] + 1)
        Left(c) == IF Cmp(c, S) >= 0 THEN [q |-> q + 1, b |-> Minus(c, S)] ELSE [q |-> q, b |-> c]
    IN  IF Len(b) < n THEN [q |-> 0, b |-> b]
        ELSE Left(IF q = 0 THEN b ELSE Minus(b, MultAdd(S, q, 0)))
=============================================================================
