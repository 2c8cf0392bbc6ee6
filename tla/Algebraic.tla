------------------------------ MODULE Algebraic ------------------------------
(***************************************************************************)
(* Formulas of the calculator (objects/calgebraic.cpp): how one is read    *)
(* from what stands between two quotation marks, and how it is written.    *)
(*                                                                         *)
(* A formula is a sequence of tokens, numbers being one token each and the *)
(* closing quotation mark the last; names of commands stand between blanks *)
(* and symbols without any, as they are written.  A formula that is read   *)
(* is a tree.                                                              *)
(***************************************************************************)
EXTENDS Integers, Sequences, TLC

CONSTANT Numbers    \* tokens that are numbers

\* allcommands.i
Precedence == [c \in {"NEG"} |-> 22]
           @@ [c \in {"*", "/", "MOD"} |-> 21] @@ [c \in {"+", "-"} |-> 20]
           @@ [c \in {"<", ">", "<=", ">="} |-> 15] @@ [c \in {"==", "<>"} |-> 14]
           @@ ("NOT" :> 10) @@ ("AND" :> 9) @@ ("XOR" :> 8) @@ ("OR" :> 7)
Symbols == {"*", "/", "+", "-", "<", ">", "<=", ">=", "==", "<>"}
UnaryOps == {"NEG", "NOT"}
BinaryOps == DOMAIN Precedence \ UnaryOps

\* Operators of several characters.
Long == {"NEG", "MOD", "==", "NOT", "AND", "XOR", "OR"}

Number(n, minus) == [op |-> n, minus |-> minus, operands |-> <<>>]
Node(op, operands) == [op |-> op, minus |-> FALSE, operands |-> operands]
Tightness(e) == IF e.operands = <<>> THEN 99 ELSE Precedence[e.op]

-------------------------------------------------------------------------------
(* Reading.  The parsers return a tree and where they stopped. *)

Stops == {")", "'", ","}
Token(s, i) == IF i <= Len(s) THEN s[i] ELSE "end"

Fail == [ok |-> FALSE]
Parsed(tree, next) == [ok |-> TRUE, tree |-> tree, next |-> next]

\* parseCommand takes all the symbols that stand together for one name, up to a minus.
Merged(s, i) == Token(s, i) \in Symbols /\ Token(s, i + 1) \in Symbols \ {"-"}
IsCommand(s, i) == Token(s, i) \in DOMAIN Precedence /\ ~Merged(s, i)

RECURSIVE ParseAlgebraic(_, _, _), Rest(_, _, _, _), Arguments(_, _, _)

\* A command with its operands, in front of them: -x, NOT x, *(x,y).
Prefixed(s, i) ==
    LET op == IF Token(s, i) = "-" THEN "NEG" ELSE Token(s, i)
        p == IF op \in UnaryOps THEN ParseAlgebraic(s, i + 1, Precedence[op])
             ELSE IF Token(s, i + 1) = "(" THEN Arguments(s, i + 2, <<>>)
             ELSE Fail
    IN  IF ~p.ok THEN Fail
        ELSE IF op \in UnaryOps THEN Parsed(Node(op, <<p.tree>>), p.next)
        ELSE IF Len(p.tree) = 2 THEN Parsed(Node(op, p.tree), p.next)
        ELSE Fail

Arguments(s, i, list) ==
    LET p == ParseAlgebraic(s, i, 0)
    IN  IF ~p.ok THEN Fail
        ELSE CASE Token(s, p.next) = ")" -> Parsed(Append(list, p.tree), p.next + 1)
               [] Token(s, p.next) = "," -> Arguments(s, p.next + 1, Append(list, p.tree))
               [] OTHER -> Fail

InParentheses(s, i) ==
    LET p == ParseAlgebraic(s, i + 1, 0)
    IN  IF p.ok /\ Token(s, p.next) = ")" THEN Parsed(p.tree, p.next + 1) ELSE Fail

\* A sign in front of a number belongs to the number.
Operand(s, i) ==
    CASE Token(s, i) = "(" -> InParentheses(s, i)
      [] Token(s, i) \in Numbers -> Parsed(Number(s[i], FALSE), i + 1)
      [] Token(s, i) \in {"+", "-"} /\ Token(s, i + 1) \in Numbers ->
            Parsed(Number(s[i + 1], s[i] = "-"), i + 2)
      [] OTHER -> IF IsCommand(s, i) THEN Prefixed(s, i) ELSE Fail

\* Operators that follow an operand, as long as they bind it tightly enough.  One that
\* does not is put back, but for a long one only its last character: no command.
Tighter_NotLeft(op) == Precedence[op]                  \* fault: to the right
Tighter(op) == Precedence[op] + 1

Rest(s, left, i, minPrecedence) ==
    IF Token(s, i) \in Stops THEN Parsed(left, i)
    ELSE IF ~IsCommand(s, i) THEN Fail
    ELSE IF Precedence[s[i]] < minPrecedence
         THEN IF s[i] \in Long THEN Fail ELSE Parsed(left, i)
    ELSE LET p == ParseAlgebraic(s, i + 1, Tighter(s[i]))
         IN  IF p.ok THEN Rest(s, Node(s[i], <<left, p.tree>>), p.next, minPrecedence) ELSE Fail

ParseAlgebraic(s, i, minPrecedence) ==
    LET o == Operand(s, i) IN IF o.ok THEN Rest(s, o.tree, o.next, minPrecedence) ELSE Fail

\* parseString: from the one quotation mark to the other.
Read(s) ==
    LET p == ParseAlgebraic(s, 1, 0)
    IN  IF p.ok /\ Token(s, p.next) = "'" THEN p ELSE Fail

-------------------------------------------------------------------------------
(* Writing. *)

RECURSIVE AlgebraicText(_)

Parenthesised(text) == <<"(">> \o text \o <<")">>
OperandText_Bare(e, operand) == AlgebraicText(operand)  \* fault: never in parentheses
OperandText(e, operand) ==
    IF Tightness(operand) < Tightness(e) THEN Parenthesised(AlgebraicText(operand))
    ELSE AlgebraicText(operand)

AlgebraicText(e) ==
    IF e.operands = <<>> THEN IF e.minus THEN <<"-", e.op>> ELSE <<e.op>>
    ELSE IF e.op \in UnaryOps
         THEN <<IF e.op = "NEG" THEN "-" ELSE e.op>> \o OperandText(e, e.operands[1])
    ELSE OperandText(e, e.operands[1]) \o <<e.op>> \o OperandText(e, e.operands[2])

Written(e) == AlgebraicText(e) \o <<"'">>

-------------------------------------------------------------------------------
(* What a formula means: every tree it can be taken for, by the rules of precedence, and *)
(* how tightly it holds together.                                                        *)

Reading(tree, tight) == [tree |-> tree, tight |-> tight]

RECURSIVE Readings(_)
Readings(s) ==
    LET n == Len(s)
        Between(i, j) == Readings(SubSeq(s, i, j))
    IN  {Reading(Number(s[n], n = 2 /\ s[1] = "-"), 99) :
            x \in {k \in {1, 2} : k = n /\ s[n] \in Numbers /\ (n = 2 => s[1] \in {"+", "-"})}}
        \cup
        UNION {{Reading(r.tree, 99) : r \in Between(2, n - 1)} :
                 x \in {k \in {n} : n > 2 /\ s[1] = "(" /\ s[n] = ")"}}
        \cup
        UNION {{Reading(Node("NEG", <<r.tree>>), 22) : r \in {q \in Between(2, n) : q.tight >= 22}} :
                 x \in {k \in {n} : n > 1 /\ s[1] = "-" /\ s[2] \notin Numbers}}
        \cup
        UNION {{Reading(Node(s[1], <<l.tree, r.tree>>), 99) :
                  l \in Between(3, c - 1), r \in Between(c + 1, n - 1)} :
                 c \in {k \in 4 .. n - 2 : s[1] \in BinaryOps \ {"-"} /\ s[2] = "(" /\ s[n] = ")"
                                              /\ s[k] = ","}}
        \cup
        UNION {{Reading(Node(s[b], <<l.tree, r.tree>>), Precedence[s[b]]) :
                  l \in {q \in Between(1, b - 1) : q.tight >= Precedence[s[b]]},
                  r \in {q \in Between(b + 1, n) : q.tight > Precedence[s[b]]}} :
                 b \in {k \in 2 .. n - 1 : s[k] \in BinaryOps}}

WellSpaced(s) == \A i \in DOMAIN s : ~Merged(s, i)
Meanings(s) == IF WellSpaced(s) THEN {r.tree : r \in Readings(SubSeq(s, 1, Len(s) - 1))} ELSE {}
=============================================================================
