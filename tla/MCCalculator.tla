---------------------------- MODULE MCCalculator ----------------------------
(* The calculator with a few objects, the formulas of few operators, and real numbers of *)
(* eleven bits.                                                                          *)
EXTENDS Calculator

SomeObjects == {[type |-> "real", val |-> v] : v \in {0, 1, 2}}
               \cup {[type |-> "integer", val |-> 1], [type |-> "string", val |-> 1]}

\* Of the arithmetic one of each kind of types.
SomeCommands == {"SWAP", "DROP", "DROP2", "DROPN", "DUP", "DUPDUP", "DUP2", "DUPN", "OVER",
                "PICK", "PICK3", "ROLL", "ROLLD", "ROT",
                "+", "/", "AND", "==", "<", "NEG"}

\* Everything of three tokens, and everything of two or three operators both as it is
\* written and with all its parentheses.
Tokens == {"2", "+", "*", "-", "AND", "(", ")", ","}
Short == UNION {[1 .. n -> Tokens] : n \in 1 .. 3}

Leaves == {Number("2", FALSE), Number("2", TRUE)}
Above(trees) == {Node("NEG", <<t>>) : t \in trees}
               \cup {Node(op, <<l, r>>) : op \in {"+", "-", "*", "AND"}, l \in trees, r \in trees}
Trees == Leaves \cup Above(Leaves \cup Above({Number("2", FALSE)}))

RECURSIVE Full(_)
Full(e) == IF e.operands = <<>> THEN AlgebraicText(e)
           ELSE IF e.op = "NEG" THEN <<"-">> \o Parenthesised(Full(e.operands[1]))
           ELSE Parenthesised(Full(e.operands[1])) \o <<e.op>> \o Parenthesised(Full(e.operands[2]))
Call(e) == <<e.op, "(">> \o Full(e.operands[1]) \o <<",">> \o Full(e.operands[2]) \o <<")">>

SomeFormulas ==
    {Append(s, "'") : s \in Short \cup {AlgebraicText(t) : t \in Trees} \cup {Full(t) : t \in Trees}
                            \cup {Call(t) : t \in {u \in Trees : Len(u.operands) = 2}}}

\* Texts of numbers, sign by sign: how they may look, those in the middle between two real
\* numbers (the integers are all there up to 2048) and next to it, and all that begin alike.
SignBySign(t) == [n \in 1 .. Len(t) |-> SubSeq(t, n, n)]
Looks == {"0", "-0", "+5", "-7", "007", "0.00", "5.", "1.2.3", "12.50", "100", "120000", "1200000", "5k7", "5kk",
          "5M", "5m", "05m", "1.25k", "1n", "9G", "1E", "-2e3", "12e-2", "1e", "1e+", "1e08", "3-2", "2k-1",
          "268300000", "268369920", "268369919.9", "268369921", "9e9", "1e20"}
Middles == {"1024.5", "1025.5", "1024.50000001", "1025.499999999", "1025.4999999990", "2047.5", "2047.50001",
            "2049", "2051", "2050.99999999", "1023.75", "1023.7500001", "511.9375", "0.50024414", "0.5002441406250",
            "0.50024414062501", "0.4998779296875", "0.49987792968", "0.499877929688", "16777216", "16769024", "16773120",
            "67125249", "67125248", "67158016"}
SomeNumerals ==
    {SignBySign(t) : t \in Looks \cup Middles}
    \cup {SignBySign(ToString(n) \o end) : n \in {1024 + 61 * k : k \in 0 .. 15} \cup {10 ^ k : k \in 1 .. 7} \cup {10 ^ k - 1 : k \in 1 .. 6},
                                end \in {"", ".5", ".49999999", "e3", "m"}}
    \cup {SignBySign(begin \o ToString(n)) : begin \in {"0.", "0.00"}, n \in {16 * k + 1 : k \in 0 .. 61} \cup (9990 .. 9999)}
    \cup {SignBySign(ToString(2 ^ k) \o end) : k \in 0 .. 27, end \in {"", "m"}}
    \cup {SignBySign("0." \o begin \o ToString(5 ^ k)) : k \in 1 .. 9, begin \in {"", "0", "00"}}
=============================================================================
