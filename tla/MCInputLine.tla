---- MODULE MCInputLine ----
\* A guillemet has two bytes, an x (any letter, digit or operator) two columns.
EXTENDS InputLine

TheChars == {"x", " ", "'", "[", "]", "<<", ">>", "pi", "quote", "\\"}
TheBytes == [c \in TheChars |-> IF c \in {"<<", ">>", "pi"} THEN 2 ELSE 1]
TheWidths == [c \in TheChars |-> IF c = "x" THEN 2 ELSE 1]
TheSpelling ==
    [s \in {"''", "pi sum integral derivative", "Y", "y", "<<  >>", "4", "8", "[  ]", "+", "EXP", "M", "m", "quotes", "5", "3", "arrow \\"} |->
        CASE s = "''" -> <<"'", "'">>
          [] s = "<<  >>" -> <<"<<", " ", " ", ">>">>
          [] s = "quotes" -> <<"quote", "quote">>
          [] s = "arrow \\" -> <<"x", "\\">>
          [] s = "[  ]" -> <<"[", " ", " ", "]">>
          [] s = "pi sum integral derivative" -> <<"pi", "x">>
          [] OTHER -> <<"x">>]

\* SHIFT, ALPHA, ' and Y, BS, brackets, guillemets, quotation marks, the backslash,
\* +, LEFT, RIGHT, and a key of a menu.
TheKeys == {6, 19, 20, 21, 27, 33, 36, 37, 42, 43, 50, 51}
TheAuxKeys == {Special("ENTER"), Special("ABORT"), InputChar("'")}

\* Bound: a behaviour is not followed once a backslash may have been typed.
NotAstray == astray = {}
====
