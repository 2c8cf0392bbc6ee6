----------------------------- MODULE Calculator -----------------------------
(***************************************************************************)
(* The calculator (apps/calculator): keys, the line that is typed and what *)
(* is made of it, the commands over the stack, and what of all this is on  *)
(* the display (Screen).                                                   *)
(*                                                                         *)
(* The line is a sequence of words: objects, names of commands, formulas   *)
(* (Algebraic) and numbers (RealText).  How it is typed key by key is      *)
(* InputLine.  Of a plain object there is its type and a value, which for  *)
(* a real number is what commands that take one make of it; of what        *)
(* arithmetic computes there is the type.  Where an index leaves the       *)
(* stack, or an integer is divided by zero, the code has no defined        *)
(* behaviour and the model no step.                                        *)
(***************************************************************************)
EXTENDS Integers, Sequences, SequencesExt, Algebraic, Screen

CONSTANTS Plain,       \* objects other than formulas: [type, val]
          Formulas,    \* texts that may be typed between quotation marks
          Numerals,    \* texts of numbers, sign by sign
          Commands,    \* commands that have a key or may be typed
          MaxDepth, MaxWords    \* bounds: levels (a command may leave one more), words

\* The format of real numbers: see Bigint, Float and RealText.
CONSTANTS WordBits, P, Emax, WordDigits, TenBits, DigLim, KeptDigits, MaxWhole, MaxFraction

Decimal == INSTANCE RealText

VARIABLES
    stack,           \* from the bottom
    line, visible,   \* the input field
    screen,          \* the layout and the frame buffer
    pc,              \* "idle", "enter": the words of a line, "execute": a command
    todo, next       \* words to be entered, and the command that follows (or NULL)

field == <<line, visible>>
run == <<pc, todo, next>>
vars == <<stack, field, screen, run>>

Init ==
    /\ stack = <<>> /\ line = <<>> /\ visible = FALSE /\ screen = FirstScreen
    /\ pc = "idle" /\ todo = <<>> /\ next = NULL

-------------------------------------------------------------------------------
(* The stack: items are numbered from its top. *)

At(s, i) == s[Len(s) - i]
Set(s, i, o) == [s EXCEPT ![Len(s) - i] = o]
Without(s, i) == RemoveAt(s, Len(s) - i)
With(s, i, o) == InsertAt(s, Len(s) - i, o)

Below(s) == Without(s, 0)      \* without the argument

Swap(s) == Set(Set(s, 0, At(s, 1)), 1, At(s, 0))
Rot(s) == LET up == Set(s, 2, At(s, 1))
          IN  Set(Set(up, 1, At(up, 0)), 0, At(s, 2))

CopiedUp(s, n) == LET copied[i \in 0 .. n] == IF i = 0 THEN s ELSE Append(copied[i - 1], At(copied[i - 1], n))
                  IN  copied[n]
Counted(c, s, n) ==
    CASE c = "DROPN" -> SubSeq(s, 1, Len(s) - n - 1)
      [] c = "DUPN" -> CopiedUp(Below(s), n)
      [] c = "PICK" -> Append(Below(s), At(Below(s), n))
      [] c = "ROLL" -> Append(Without(Below(s), n), At(Below(s), n))
      [] c = "ROLLD" -> With(Below(Below(s)), n - 1, At(s, 1))

CountedCommands == {"DROPN", "DUPN", "PICK", "ROLL", "ROLLD"}

\* checkStack asks for one item less than pick, roll, rolld and dupn reach.
BeyondTheBottom(c, s) ==
    /\ c \in CountedCommands \ {"DROPN"} /\ s # <<>>
    /\ At(s, 0).type = "real" /\ At(s, 0).val > 0 /\ Len(s) = At(s, 0).val + 1

-------------------------------------------------------------------------------
(* Arithmetic: the type of what comes out, or NULL where the types are refused. *)

Real == "real"
Integer == "integer"
String == "string"
Numeric(x) == x.type \in {Real, Integer}
Both(x, y, type) == x.type = type /\ y.type = type

Mixed(x, y) == IF Both(x, y, Real) THEN Real ELSE IF Numeric(x) /\ Numeric(y) THEN Integer ELSE NULL
Sum(x, y) == IF Both(x, y, Real) THEN Real
             ELSE IF String \in {x.type, y.type} THEN String ELSE Mixed(x, y)
Logic(x, y) == IF Both(x, y, Real) THEN Real ELSE IF Both(x, y, Integer) THEN Integer ELSE NULL
Order(x, y) == IF \E t \in {Real, Integer, String} : Both(x, y, t) THEN Real ELSE NULL
Negated(x) == IF Numeric(x) THEN x.type ELSE NULL

OutcomeType(c, x, y) ==
    CASE c = "+" -> Sum(x, y)
      [] c \in {"-", "*", "/", "MOD"} -> Mixed(x, y)
      [] c \in {"AND", "OR", "XOR"} -> Logic(x, y)
      [] c \in {"==", "<>"} -> Real
      [] c \in {"<", ">", "<=", ">="} -> Order(x, y)

Outcomes(type) == {o \in Plain : o.type = type}

DividesByZero(c, s) ==
    c \in {"/", "MOD"} /\ Len(s) >= 2 /\ At(s, 0).val = 0 /\ Mixed(At(s, 0), At(s, 1)) = Integer

-------------------------------------------------------------------------------
(* What a command may make of a stack: nothing where it throws. *)

Needs(c) == CASE c \in {"DROP", "DUP", "DUPDUP"} \cup UnaryOps \cup CountedCommands -> 1
              [] c \in {"PICK3", "ROT"} -> 3
              [] OTHER -> 2

Executed(c, s) ==
    LET x == At(s, 0)  y == At(s, 1)
    IN  IF Len(s) < Needs(c) THEN {}
        ELSE CASE c = "SWAP" -> {Swap(s)}
               [] c = "DROP" -> {Below(s)}
               [] c = "DROP2" -> {Below(Below(s))}
               [] c = "DUP" -> {Append(s, x)}
               [] c = "DUPDUP" -> {Append(Append(s, x), x)}
               [] c = "DUP2" -> {Append(Append(s, y), x)}
               [] c = "OVER" -> {Append(s, y)}
               [] c = "PICK3" -> {Append(s, At(s, 2))}
               [] c = "ROT" -> {Rot(s)}
               [] c \in CountedCommands ->
                    IF x.type # Real THEN {}
                    ELSE IF x.val <= 0 THEN {Below(s)}
                    ELSE IF Len(s) < x.val + 1 THEN {}
                    ELSE {Counted(c, s, x.val)}
               [] c \in UnaryOps -> {Append(Below(s), o) : o \in Outcomes(Negated(x))}
               [] OTHER -> {Append(Below(Below(s)), o) : o \in Outcomes(OutcomeType(c, x, y))}

Undefined(c, s) == BeyondTheBottom(c, s) \/ DividesByZero(c, s)

-------------------------------------------------------------------------------
(* The line and what it is made of. *)

Word(o) == [object |-> o]
Name(c) == [command |-> c]
Quoted(f) == [text |-> f]
Numeral(t) == [numeral |-> t]
Formula(tree) == [type |-> "formula", val |-> 0, tree |-> tree]
Entry(r) == [type |-> "number", val |-> 0, minus |-> r.minus, value |-> r.value]

PlainWords == {Word(o) : o \in Plain} \cup {Name(c) : c \in Commands}
TextWords == {Quoted(f) : f \in Formulas} \cup {Numeral(t) : t \in Numerals}

IsQuoted(w) == "text" \in DOMAIN w
IsNumeral(w) == "numeral" \in DOMAIN w
IsName(w) == "command" \in DOMAIN w
Readable(w) == /\ IsQuoted(w) => Read(w.text).ok
               /\ IsNumeral(w) => Decimal!StringToDouble(w.numeral).ok
ObjectOf(w) == IF IsQuoted(w) THEN Formula(Read(w.text).tree)
               ELSE IF IsNumeral(w) THEN Entry(Decimal!StringToDouble(w.numeral))
               ELSE w.object

-------------------------------------------------------------------------------
(* Keys. *)

Idle == pc = "idle"

\* Bound: a formula or a number by its text is entered alone, and nothing is done to it
\* then but to drop it.
NoText == /\ \A n \in DOMAIN line : ~IsQuoted(line[n]) /\ ~IsNumeral(line[n])
          /\ \A n \in DOMAIN stack : stack[n].type \notin {"formula", "number"}
WordsHere == IF Idle /\ stack = <<>> /\ line = <<>> THEN PlainWords \cup TextWords ELSE PlainWords

\* A key that writes shows the field, with what an earlier line has left in it.
Type(w) ==
    /\ Idle /\ Len(line) < MaxWords /\ Len(stack) + Len(line) < MaxDepth
    /\ NoText
    /\ line' = Append(line, w) /\ visible' = TRUE
    /\ screen' = RedrawnField(IF visible THEN screen ELSE WithField(screen, stack, TRUE, line), line')
    /\ UNCHANGED <<stack, run>>

\* enterInput: the whole line is read before anything of it is entered.  One that cannot
\* be read stays, and is hidden; a line that is entered is gone, whatever follows.
EnterInput(c) ==
    IF \A n \in DOMAIN line : Readable(line[n])
    THEN /\ line' = <<>> /\ screen' = Forgotten(screen)
         /\ pc' = "enter" /\ todo' = line /\ next' = c
         /\ UNCHANGED <<stack, visible>>
    ELSE /\ visible' = FALSE
         /\ screen' = WithField(Forgotten(screen), stack, FALSE, line)
         /\ UNCHANGED <<stack, line, run>>

\* clearCachedItems, a command, relayout and redraw.
Refreshed(s) == RedrawnAll(Relaid(Forgotten(screen), s, visible), visible, line)

KeyENTER ==
    /\ Idle /\ Len(stack) < MaxDepth /\ (visible \/ NoText)
    /\ IF visible THEN EnterInput(NULL)
       ELSE /\ stack' = IF stack = <<>> THEN stack ELSE Append(stack, At(stack, 0))
            /\ screen' = IF stack = <<>> THEN Forgotten(screen) ELSE Refreshed(stack')
            /\ UNCHANGED <<field, run>>

KeyCommand(c) ==
    /\ Idle /\ NoText
    /\ IF visible THEN EnterInput(c)
       ELSE /\ pc' = "execute" /\ next' = c /\ screen' = Forgotten(screen)
            /\ UNCHANGED <<stack, field, todo>>

KeyBS ==
    /\ Idle
    /\ IF visible
       THEN /\ line' = IF line = <<>> THEN line ELSE Front(line)
            /\ screen' = IF line = <<>> THEN screen ELSE RedrawnField(screen, line')
            /\ UNCHANGED stack
       ELSE /\ stack # <<>> /\ stack' = Below(stack)
            /\ screen' = Refreshed(stack')
            /\ UNCHANGED line
    /\ UNCHANGED <<visible, run>>

KeyABORT ==
    /\ Idle /\ visible
    /\ line' = <<>> /\ visible' = FALSE
    /\ screen' = WithField(screen, stack, FALSE, line)
    /\ UNCHANGED <<stack, run>>

\* One word after the other; the first that fails is the last.
EnterNext ==
    /\ pc = "enter" /\ todo # <<>> /\ ~IsName(Head(todo)) /\ Len(stack) < MaxDepth
    /\ stack' = Append(stack, ObjectOf(Head(todo))) /\ todo' = Tail(todo)
    /\ UNCHANGED <<field, screen, pc, next>>

Carry(c, failed, done) ==
    /\ ~Undefined(c, stack) /\ \A s \in Executed(c, stack) : Len(s) <= MaxDepth + 1
    /\ IF Executed(c, stack) = {} THEN UNCHANGED stack /\ failed
       ELSE stack' \in Executed(c, stack) /\ done

EnterName(c) ==
    /\ pc = "enter" /\ todo # <<>> /\ Head(todo) = Name(c)
    /\ Carry(c, todo' = <<>> /\ next' = NULL, todo' = Tail(todo) /\ UNCHANGED next)
    /\ UNCHANGED <<field, screen, pc>>

Entered ==
    /\ pc = "enter" /\ todo = <<>>
    /\ visible' = FALSE /\ screen' = WithField(screen, stack, FALSE, line)
    /\ pc' = IF next = NULL THEN "idle" ELSE "execute"
    /\ UNCHANGED <<stack, line, todo, next>>

Execute(c) ==
    /\ pc = "execute" /\ next = c
    /\ Carry(c, TRUE, TRUE)
    /\ screen' = Refreshed(stack')
    /\ pc' = "idle" /\ next' = NULL
    /\ UNCHANGED <<field, todo>>

Next ==
    \/ \E w \in WordsHere : Type(w)
    \/ KeyENTER \/ KeyBS \/ KeyABORT \/ EnterNext \/ Entered
    \/ \E c \in Commands : KeyCommand(c) \/ EnterName(c) \/ Execute(c)

Spec == Init /\ [][Next]_vars

-------------------------------------------------------------------------------
(* Properties. *)

\* Between two keys there is on the screen what the calculator holds: the levels of the
\* stack, each beside its number, and the line that is typed, though only a part is drawn
\* at a time and items are kept from one layout to the next.
TextOf(o) ==
    CASE o.type = "formula" -> Written(o.tree)
      [] o.type = "number" -> Decimal!DoubleToString(o)
      [] OTHER -> <<o.type>>

ScreenShowsTheStack ==
    Idle => /\ screen.frame = Picture(stack, visible, line)
            /\ \A i \in DOMAIN screen.items : ShownInFull(i, TextOf(Level(stack, i)))

\* Typed or pressed, a command does to the stack what its diagram says, or nothing: what
\* it has taken when it fails is back in its place.  A number that is taken is used as an
\* index, which counts from 0: all but dropn reach one level deeper than it says.
Rpl == INSTANCE RplStack WITH levels <- Reverse(stack), Objects <- Plain
Follows(c) == Rpl!Command(c, IF c = "DROPN" THEN 0 ELSE 1)


\* A formula is read as the rules of precedence say, or refused: what has one meaning is
\* not refused, but where a long operator follows a tighter one.  A number is read as the
\* real number nearest to what its digits say, at the same distance as the even one.
ReadAsMeant ==
    \A n \in DOMAIN line :
        /\ IsNumeral(line[n]) => Decimal!ReadAsNearest(line[n].numeral)
        /\ IsQuoted(line[n]) =>
               LET f == line[n].text
               IN  IF Read(f).ok THEN Meanings(f) = {Read(f).tree}
                   ELSE Meanings(f) = {} \/ ToSet(f) \cap Long # {}

\* What is written of a formula is read as the same formula: parentheses are where they
\* are needed.  Not so where the right operand is of the same precedence, or begins with a
\* number that takes the sign in front of it.  A number is written with no more digits than
\* it takes to read the same one again.
RECURSIVE Tight(_)
Tight(e) ==
    /\ Len(e.operands) = 2 =>
         /\ Tightness(e.operands[2]) # Tightness(e)
         /\ e.op \in Long => \A n \in {1, 2} : Tightness(e.operands[n]) = 99
    /\ e.op = "NEG" => AlgebraicText(e)[2] \notin Numbers
    /\ \A n \in DOMAIN e.operands : Tight(e.operands[n])

WrittenIsRead ==
    \A n \in DOMAIN stack :
        /\ stack[n].type = "number" => Decimal!WrittenAndRead(stack[n])
        /\ stack[n].type = "formula" /\ Tight(stack[n].tree) =>
               Read(Written(stack[n].tree)) = Parsed(stack[n].tree, Len(Written(stack[n].tree)))
=============================================================================
