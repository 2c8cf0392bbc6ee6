------------------------------- MODULE KeyMap -------------------------------
(***************************************************************************)
(* The keys of the calculator and what each of them does (env,             *)
(* keyboard.h and keyboard.cpp): by itself, with SHIFT, with ALPHA, with   *)
(* both, and with ON, which the code calls META.                           *)
(*                                                                         *)
(* The strings that keys write are names here: what they are spelled with  *)
(* is a matter of those who insert them.  "<<" and ">>" stand for the      *)
(* guillemets, and other signs for their names.                            *)
(***************************************************************************)
EXTENDS Integers, Sequences

Act(type, name) == [type |-> type, name |-> name]

Void == Act("void", "")
Command(s) == Act("command", s)
Menu(s) == Act("menu", s)
Input(s) == Act("input", s)
MultiTap(s) == Act("multitap", s)
Braces(s) == Act("braces", s)
InputChar(c) == Act("inputchar", c)
Special(id) == Act("special", id)

Writes(a) == a.type \in {"input", "multitap", "braces", "inputchar"}

Key(normal, shift, alpha, alphaShift) ==
    [normal |-> normal, shift |-> shift, alpha |-> alpha, alphaShift |-> alphaShift, meta |-> Void]
Same(a) == Key(a, a, a, a)
Twice(a, b) == Key(a, b, a, b)            \* ALPHA makes no difference
Letter(normal, shift, upper, lower) == Key(normal, shift, Input(upper), Input(lower))
Function(f, upper, lower, env) ==
    [Letter(Special(f), Special(f), upper, lower) EXCEPT !.meta = Special(env)]

BelowTheDisplay == <<
    Function("F1", "G", "g", "ACTIVATE_ENV1"), Function("F2", "H", "h", "ACTIVATE_ENV2"),
    Function("F3", "I", "i", "ACTIVATE_ENV3"), Function("F4", "J", "j", "ACTIVATE_ENV4"),
    Function("F5", "K", "k", "ACTIVATE_ENV5"), Function("F6", "L", "l", "ACTIVATE_ENV6"),
    Letter(Menu("MENU"), Menu("CHARS"), "M", "m"), Letter(Menu("NEXT"), Menu("PREV"), "N", "n"),
    Letter(Menu("LOGIC"), Menu("MODES"), "O", "o"), Letter(Menu("VARS"), Menu("UNITS"), "P", "p"),
    Letter(Command("SWAP"), Menu("STACK"), "Q", "q"), Letter(Command("DROP"), Command("CLEAR"), "R", "r"),
    Letter(Menu("MATH"), Menu("PLOT"), "S", "s"), Letter(Menu("PROG"), Command("PURGE"), "T", "t"),
    Letter(Command("STO"), Command("RCL"), "U", "u"), Letter(Menu("HOME"), Menu("UP"), "V", "v"),
    Letter(Command("EDIT"), Command("VIEW"), "W", "w"), Letter(Command("EVAL"), Command("UNDO"), "X", "x") >>

ModifierRow == <<
    Twice(Special("ON"), Special("OFF")), Same(Special("SHIFT")), Same(Special("ALPHA")),
    Letter(Braces("''"), MultiTap("pi sum integral derivative"), "Y", "y"),
    Letter(Input("#"), Input("="), "Z", "z"),
    Letter(Special("CHANGE_SIGN"), MultiTap("notequal <> lessorequal greaterorequal"), "micro", "micro") >>

FunctionKeys == <<
    Letter(Command("SIN"), Command("ASIN"), "D", "d"), Letter(Command("COS"), Command("ACOS"), "E", "e"),
    Letter(Command("TAN"), Command("ATAN"), "F", "f"), Twice(Special("BS"), Special("DEL")),
    Letter(Command("SQRT"), Command("SQ"), "A", "a"), Letter(Command("^"), Command("NROOT"), "B", "b"),
    Letter(Command("INV"), Command("MOD"), "C", "c"), Key(Command("/"), Command("LOG"), Input("/"), Command("LOG")) >>

DigitKeys == <<
    Twice(Input("7"), Braces("(  )")), Twice(Input("8"), Braces("[  ]")),
    Twice(Input("9"), Braces("{  }")), Key(Command("*"), Command("ALOG"), Input("*"), Command("ALOG")),
    Twice(Input("4"), Braces("<<  >>")), Twice(Input("5"), Braces("quotes")),
    Twice(Input("6"), MultiTap(":;!?")), Key(Command("-"), Command("LN"), Input("-"), Command("LN")),
    Twice(Input("1"), MultiTap("%$")), Twice(Input("2"), MultiTap("degree ~")),
    Twice(Input("3"), MultiTap("arrow \\")), Key(Command("+"), Command("EXP"), Input("+"), Command("EXP")),
    Twice(Input("0"), MultiTap("_&@")), Twice(Input("."), MultiTap(", angle")), Same(Input(" ")),
    [Twice(Special("ENTER"), Command("DUP")) EXCEPT !.meta = Input("newline")] >>

Arrows == << Same(Special("UP")), Same(Special("DOWN")), Same(Special("LEFT")), Same(Special("RIGHT")) >>

keyDefs == BelowTheDisplay \o ModifierRow \o FunctionKeys \o DigitKeys \o Arrows

\* The first character of the string is one of A to F.
HexDigits == {"A", "B", "C", "D", "E", "F"}

\* Of two modifiers, the key and its lock: one that is locked is not undone by the key.
Either(mode, key, lock) == mode \cap {key, lock} # {}

Toggled(mode, m) == IF m \in mode THEN mode \ {m} ELSE mode \cup {m}

\* Key codes count from 0.
getKeyAction(keyCode, mode) ==
    LET def == keyDefs[keyCode + 1]
        hex == /\ "HEX" \in mode /\ "ALPHA_LOCK" \notin mode
               /\ def.alpha.type = "input" /\ def.alpha.name \in HexDigits
        m == IF hex THEN Toggled(mode, "ALPHA") ELSE mode
        alpha == Either(m, "ALPHA", "ALPHA_LOCK")
        shift == Either(m, "SHIFT", "SHIFT_LOCK")
    IN  IF "META" \in mode THEN def.meta
        ELSE IF alpha THEN (IF shift THEN def.alphaShift ELSE def.alpha)
        ELSE (IF shift THEN def.shift ELSE def.normal)

\* What is printed on the key, and above it.
Printed(keyCode, shift, alpha) ==
    LET def == keyDefs[keyCode + 1]
    IN  IF alpha THEN (IF shift THEN def.alphaShift ELSE def.alpha)
        ELSE (IF shift THEN def.shift ELSE def.normal)
=============================================================================
