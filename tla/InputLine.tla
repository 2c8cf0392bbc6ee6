----------------------------- MODULE InputLine -----------------------------
(***************************************************************************)
(* The input line of the calculator: the field (env, graphics/textinput)   *)
(* over its text (GapBuffer), the context of the cursor                    *)
(* (objecttextcontext) and the keys the calculator gives to it or takes    *)
(* itself (calculator.cpp).  Keys go down and up: what one of them means is *)
(* looked up (KeyMap) under the modifiers the application has heard of     *)
(* (application.cpp).  The flags of the context that nobody asks for       *)
(* (numbers and identifiers) are left out.                                 *)
(***************************************************************************)
EXTENDS GapBuffer, KeyMap

CONSTANTS Width,        \* of each character: Font
          FieldWidth,
          Margin,       \* CURSOR_MARGIN, 24
          CursorWidth,
          Spelled,      \* the characters of the strings of keys
          KeyCodes,     \* keys of the calculator,
          AuxKeys,      \* and actions of the other keyboard
          MaxBytes      \* bound: bytes of the text

Chars == DOMAIN Bytes

ASSUME InputAssumption == /\ \A c \in Chars : Width[c] \in Nat \ {0}
                          /\ FieldWidth \in Nat /\ CursorWidth \in Nat /\ Margin \in Nat /\ MaxBytes \in Nat
                          /\ " " \in Chars /\ NONE # "\\"

\* A key that writes is spelled with characters: braces and several taps with one at least.
Spells(a) ==
    /\ a = Act(a.type, a.name)
    /\ a.type \in {"void", "menu", "command", "special", "input", "inputchar", "braces", "multitap"}
    /\ a.type \in {"command", "input", "braces", "multitap"} => Spelled[a.name] \in Seq(Chars)
    /\ a.type \in {"braces", "multitap"} => Spelled[a.name] # <<>>
    /\ a.type = "inputchar" => a.name \in Chars

ASSUME KeyAssumption == /\ KeyCodes \subseteq 0 .. Len(keyDefs) - 1
                        /\ \A k \in KeyCodes, mode \in SUBSET {"SHIFT", "ALPHA", "META"} :
                              Spells(getKeyAction(k, mode))
                        /\ \A a \in AuxKeys : Spells(a)

VARIABLES line,     \* the text, its width, the place of the cursor, and its context
          offset,   \* offsetX: what is left of the field
          tap,      \* lastMultiTap and multiTapIndex
          visible,
          kbdMode,  \* modifiers, as the application has heard of them
          down,     \* the keys among them that are held
          astray    \* history: a backslash and ON, once a key has been pressed for them
                    \*   (see below)

field == <<line, offset, tap, visible>>
keys == <<kbdMode, down>>
lineVars == <<field, keys, astray>>

NoTap == [string |-> <<>>, index |-> 0]
NoContext == [string |-> FALSE, algebraic |-> FALSE, vector |-> FALSE, prog |-> 0, dim |-> 0]

LineInit == /\ line = [g |-> Fresh, stringWidth |-> 0, cursorX |-> 0, context |-> NoContext]
            /\ offset = 0 /\ tap = NoTap /\ visible = FALSE
            /\ kbdMode = {} /\ down = {} /\ astray = {}

-------------------------------------------------------------------------------
(* The context: what the cursor is within.  Going back over a character undoes what *)
(* going forward has done; prior is the character the code finds before it.         *)

Plain(x) == ~x.algebraic /\ ~x.vector

Opens(c) == c \in {"{", "<<"}
Closes(c) == c \in {"}", ">>"}

Nested(x, by) == [x EXCEPT !.prog = @ + by]
InDimension(x, by) ==
    LET d == x.dim + by
    IN  [x EXCEPT !.dim = d,
                  !.vector = IF by = 1 /\ d = 1 THEN TRUE
                             ELSE IF by = -1 /\ d = 0 THEN FALSE ELSE @]

Passed(x, c, prior, by) ==
    IF x.string
    THEN IF c = "quote" /\ prior # "\\" THEN [x EXCEPT !.string = FALSE] ELSE x
    ELSE CASE Opens(c) /\ Plain(x) -> Nested(x, by)
           [] Closes(c) /\ Plain(x) -> Nested(x, -by)
           [] c = "[" -> InDimension(x, by)
           [] c = "]" -> InDimension(x, -by)
           [] c = "'" /\ ~x.vector -> [x EXCEPT !.algebraic = ~@]
           [] c = "quote" /\ Plain(x) -> [x EXCEPT !.string = TRUE]
           [] OTHER -> x

UpdateForward(x, c, prior) == Passed(x, c, prior, 1)
UpdateBackward_Forward(x, c, prior) == Passed(x, c, prior, 1)    \* fault
UpdateBackward(x, c, prior) == Passed(x, c, prior, -1)

-------------------------------------------------------------------------------
(* The operations of the field, on the line alone. *)

Scanned(x, prior, s) ==
    LET scan[n \in 0 .. Len(s)] ==
          IF n = 0 THEN x
          ELSE UpdateForward(scan[n - 1], s[n], IF n = 1 THEN prior ELSE s[n - 1])
    IN  scan[Len(s)]

Total(s) == FoldLeft(LAMBDA w, c : w + Width[c], 0, s)

\* insertText: the iterator stands before each character in turn.
InsertText(l, s) ==
    [g |-> InsertBytes(l.g, EncodedText(s)),
     stringWidth |-> l.stringWidth + Total(s),
     cursorX |-> l.cursorX + Total(s),
     context |-> Scanned(l.context, CharBefore(l.g), s)]

\* A character: the context looks back from the cursor, which is behind it.
InsertOne(l, c) ==
    LET g == InsertChar(l.g, c)
    IN  [g |-> g, stringWidth |-> l.stringWidth + Width[c], cursorX |-> l.cursorX + Width[c],
         context |-> UpdateForward(l.context, c, CharBefore(g))]

MoveForward(l) ==
    LET c == CharAfter(l.g)
        g == MoveRight(l.g)
    IN  IF c = NONE THEN l
        ELSE [l EXCEPT !.g = g, !.cursorX = @ + Width[c],
                       !.context = UpdateForward(@, c, CharBefore(g))]

MoveBackward(l) ==
    LET c == CharBefore(l.g)
        g == MoveLeft(l.g)
    IN  IF c = NONE THEN l
        ELSE [l EXCEPT !.g = g, !.cursorX = @ - Width[c],
                       !.context = UpdateBackward(@, c, CharBefore(g))]

EraseBackward(l) ==
    LET c == CharBefore(l.g)
        g == EraseLeft(l.g)
    IN  IF c = NONE THEN l
        ELSE [g |-> g, stringWidth |-> l.stringWidth - Width[c],
              cursorX |-> l.cursorX - Width[c],
              context |-> UpdateBackward(l.context, c, CharBefore(g))]

EraseForward(l) ==
    LET c == CharAfter(l.g)
    IN  IF c = NONE THEN l
        ELSE [l EXCEPT !.g = EraseRight(@), !.stringWidth = @ - Width[c]]

\* clearText leaves the offset and the tap alone.
Cleared_KeepsCursor(l) ==                              \* fault: a reset is missing
    [g |-> Fresh, stringWidth |-> 0, cursorX |-> l.cursorX, context |-> NoContext]
Cleared(l) == [g |-> Fresh, stringWidth |-> 0, cursorX |-> 0, context |-> NoContext]

\* update: the field moves no further than it must to show the cursor.
Update(l, o) ==
    LET right == Max({o, l.cursorX - FieldWidth + Margin})
        left == Min({right, l.cursorX - Margin})
    IN  Max({0, Min({left, l.stringWidth - FieldWidth})})

-------------------------------------------------------------------------------
(* Keys. *)

Shown(l) == visible' = TRUE /\ line' = l /\ offset' = Update(l, offset)
Other == tap' = NoTap                  \* any key that is not a multi-tap key

KeyInput(s) == Shown(InsertText(line, s)) /\ Other
KeyInputChar(c) == Shown(InsertOne(line, c)) /\ Other

\* The cursor goes back over one character, or two of a text of more than two bytes.
Inner(s) == IF Len(EncodedText(s)) > 2 THEN 2 ELSE 1
KeyBraces(s) ==
    LET l == MoveBackward(InsertText(line, s))
    IN  Shown(IF Inner(s) = 2 THEN MoveBackward(l) ELSE l) /\ Other

Repeats(s) == tap.string = s
NextTap(s) == IF ~Repeats(s) \/ tap.index = Len(s) THEN 1 ELSE tap.index + 1
KeyMultiTap_Adds(s) ==                                 \* fault: the last one stays
    /\ Shown(InsertOne(line, s[NextTap(s)]))
    /\ tap' = [string |-> s, index |-> NextTap(s)]
KeyMultiTap(s) ==
    LET l == IF Repeats(s) THEN EraseBackward(line) ELSE line
    IN  /\ Shown(InsertOne(l, s[NextTap(s)]))
        /\ tap' = [string |-> s, index |-> NextTap(s)]

\* A special key that does nothing leaves the field as it is, and the tap is over.
Edited(l) ==
    /\ line' = l /\ Other /\ UNCHANGED visible
    /\ offset' = IF l = line THEN offset ELSE Update(l, offset)

KeyABORT == /\ visible' = FALSE /\ line' = Cleared(line)
            /\ UNCHANGED <<offset, tap>>

\* enterInput: a text that cannot be parsed stays, out of sight, for the next key.
EnterInput ==
    /\ visible' = FALSE
    /\ line' = Cleared(line) \/ line' = line
    /\ UNCHANGED <<offset, tap>>

\* Out of sight the field gets none of these.
KeySpecial(id) ==
    CASE ~visible -> UNCHANGED field
      [] visible /\ id = "ABORT" -> KeyABORT
      [] visible /\ id = "ENTER" -> EnterInput
      [] visible /\ id = "BS" -> Edited(EraseBackward(line))
      [] visible /\ id = "DEL" -> Edited(EraseForward(line))
      [] visible /\ id = "LEFT" -> Edited(MoveBackward(line))
      [] visible /\ id = "RIGHT" -> Edited(MoveForward(line))
      [] OTHER -> Edited(line)

\* A command is written out within an expression, and, set apart by blanks, within a
\* program; elsewhere it ends the input.  The tap is not over then.
Blank(c) == c = " "
Spaced(l, c) == IF c # NONE /\ ~Blank(c) THEN InsertText(l, <<" ">>) ELSE l
Within(s) ==
    IF line.context.algebraic THEN InsertText(line, s)
    ELSE LET l == InsertText(Spaced(line, GetBackward(line.g, Cursor(line.g)).char), s)
             c == GetForward(l.g, Cursor(l.g)).char
         IN  IF Blank(c) THEN MoveForward(l) ELSE Spaced(l, c)

Written == line.context.algebraic \/ line.context.prog > 0

KeyCommand(s) ==
    CASE ~visible -> UNCHANGED field
      [] visible /\ Written -> Shown(Within(s)) /\ UNCHANGED tap
      [] visible /\ ~Written -> EnterInput

onKeyPress(a) ==
    CASE a.type \in {"void", "menu"} -> UNCHANGED field
      [] a.type = "command" -> KeyCommand(Spelled[a.name])
      [] a.type = "special" -> KeySpecial(a.name)
      [] a.type = "input" -> KeyInput(Spelled[a.name])
      [] a.type = "inputchar" -> KeyInputChar(a.name)
      [] a.type = "braces" -> KeyBraces(Spelled[a.name])
      [] a.type = "multitap" -> KeyMultiTap(Spelled[a.name])

-------------------------------------------------------------------------------
(* Events. *)

\* onCursorBlink: the tap is over.
CursorBlink == tap # NoTap /\ tap' = NoTap /\ UNCHANGED <<line, offset, visible, keys, astray>>

Modifier(a) == IF a.type # "special" THEN {}
               ELSE CASE a.name = "SHIFT" -> {"SHIFT"}
                      [] a.name = "ALPHA" -> {"ALPHA"}
                      [] a.name = "ON" -> {"META"}
                      [] OTHER -> {}

\* The code looks for the backslash of an escape behind the quotation mark, and takes back
\* META only if it finds it where META has changed what the key means: the line may be in
\* another context than it knows, and the modifier stays.  All taps of a key count.
TextOf(a) == IF a.type = "inputchar" THEN <<a.name>>
             ELSE IF a.type \in {"command", "input", "braces", "multitap"} THEN Spelled[a.name]
             ELSE <<>>
LeadsAstray(a) == (ToSet(TextOf(a)) \cap {"\\"}) \cup (Modifier(a) \cap {"META"})

\* Bound: a key that writes has room.  Of the keys that are held those that modify count.
Room(a) == Writes(a) \/ a.type = "command" => GetLength(line.g) < MaxBytes

onKeyDown(k) ==
    LET action == getKeyAction(k, kbdMode)
    IN  /\ k \notin down /\ Room(action)
        /\ onKeyPress(action)
        /\ kbdMode' = kbdMode \cup Modifier(action)
        /\ astray' = astray \cup LeadsAstray(action)
        /\ down' = IF Modifier(Printed(k, FALSE, FALSE)) = {} THEN down ELSE down \cup {k}

onKeyUp(k) ==
    /\ k \in down /\ down' = down \ {k}
    /\ kbdMode' = kbdMode \ Modifier(getKeyAction(k, kbdMode))
    /\ UNCHANGED <<field, astray>>

KeyPressEvent(a) ==
    Room(a) /\ onKeyPress(a) /\ astray' = astray \cup LeadsAstray(a) /\ UNCHANGED keys

LineNext ==
    \/ \E k \in KeyCodes : onKeyDown(k) \/ onKeyUp(k)
    \/ \E a \in AuxKeys : KeyPressEvent(a)
    \/ CursorBlink

LineSpec == LineInit /\ [][LineNext]_lineVars

-------------------------------------------------------------------------------
(* Drawing: where initLineScanning starts, for what is left of the field and what *)
(* of the field is not asked for.                                                 *)

BackTo(g, it, x) ==
    LET walk[n \in 0 .. GetLength(g)] ==
          IF n = 0 THEN [it |-> it, x |-> x]
          ELSE LET at == walk[n - 1]
                   back == GetBackward(g, at.it)
               IN  IF at.x >= 0 \/ back.char = NONE THEN at
                   ELSE [it |-> back.it, x |-> at.x + Width[back.char]]
    IN  walk[GetLength(g)]
ForthTo(g, it, x) ==
    LET walk[n \in 0 .. GetLength(g)] ==
          IF n = 0 THEN [it |-> it, x |-> x]
          ELSE LET at == walk[n - 1]
                   forth == GetForward(g, at.it)
               IN  IF at.x <= 0 \/ forth.char = NONE \/ at.x < Width[forth.char] THEN at
                   ELSE [it |-> forth.it, x |-> at.x - Width[forth.char]]
        last == walk[GetLength(g)]
        beyond == GetForward(g, last.it)
    IN  IF last.x <= 0 \/ beyond.char = NONE THEN last
        ELSE [it |-> GetBackward(g, beyond.it).it, x |-> last.x]

DrawFrom(skip) ==
    LET x == skip + offset - line.cursorX
    IN  IF x <= 0 THEN BackTo(line.g, Cursor(line.g), x) ELSE ForthTo(line.g, Cursor(line.g), x)

\* drawLine: the columns of a glyph that are drawn, from one of them on, clip at most.
GlyphColumns(c, from, clip) ==
    [n \in 1 .. Max({0, Min({Width[c] - from, clip})}) |-> <<c, from + n - 1>>]

\* processLine: glyph after glyph until the columns asked for are full.
Glyphs(it, from, w) ==
    LET walk[n \in 0 .. GetLength(line.g)] ==
          IF n = 0 THEN [it |-> it, from |-> from, drawn |-> <<>>]
          ELSE LET at == walk[n - 1]
                   forth == GetForward(line.g, at.it)
               IN  IF Len(at.drawn) = w \/ forth.char = NONE THEN at
                   ELSE [it |-> forth.it, from |-> 0,
                         drawn |-> at.drawn \o GlyphColumns(forth.char, at.from, w - Len(at.drawn))]
    IN  walk[GetLength(line.g)].drawn

ProcessLine(skip, w) == LET d == DrawFrom(skip) IN Glyphs(d.it, d.x, w)

\* The cursor stands over the end of the character before it.
drawCursorX == Max({0, line.cursorX - CursorWidth}) - offset

-------------------------------------------------------------------------------
(* Properties. *)

Before == Characters(SubSeq(line.g.chars, 1, line.g.gapPos))
After == Characters(SubSeq(line.g.chars, line.g.gapPos + line.g.gapLen + 1, Len(line.g.chars)))

\* A key does to the text and the cursor what a line editor would, and what is printed on
\* it, under the modifiers that are held: no character is lost, cut apart or doubled as
\* the gap moves over the borders of the buffers, and no modifier sticks or is missed; up
\* to a backslash or ON.
Editor == INSTANCE LineEditor WITH before <- Before, after <- After

Held(modifier) == \E k \in down : Modifier(Printed(k, FALSE, FALSE)) = {modifier}

Here == Scanned(NoContext, NONE, Before)
Ends(a) == /\ visible
           /\ \/ a = Special("ENTER")
              \/ a.type = "command" /\ ~Here.algebraic /\ Here.prog <= 0

\* What the key is for, as it is printed on it and above it.
Does(a) ==
    LET s == Spelled[a.name]
    IN  CASE a.type = "input" -> Editor!Type(s)
          [] a.type = "inputchar" -> Editor!Type(<<a.name>>)
          [] a.type = "braces" -> Editor!TypeAround(s, Inner(s))
          [] a.type = "multitap" -> IF Repeats(s) THEN Editor!Retype(s[NextTap(s)])
                                    ELSE Editor!Type(<<s[NextTap(s)]>>)
          [] a = Special("BS") /\ visible -> Editor!EraseLeft
          [] a = Special("DEL") /\ visible -> Editor!EraseRight
          [] a = Special("LEFT") /\ visible -> Editor!MoveLeft
          [] a = Special("RIGHT") /\ visible -> Editor!MoveRight
          [] a = Special("ABORT") /\ visible -> Editor!Clear
          [] a.type = "command" /\ visible /\ Here.algebraic -> Editor!Type(s)
          [] a.type = "command" /\ visible /\ ~Here.algebraic /\ Here.prog > 0 -> Editor!TypeApart(s, " ")
          [] Ends(a) -> Editor!Clear \/ Editor!Stay
          [] OTHER -> Editor!Stay

ImplementsEditor ==
    [][astray' = {} =>
         /\ \A k \in KeyCodes : /\ onKeyDown(k) => Does(Printed(k, Held("SHIFT"), Held("ALPHA")))
                                /\ onKeyUp(k) => Editor!Stay
         /\ \A a \in AuxKeys : KeyPressEvent(a) => Does(a)]_lineVars

\* The widths that are kept up to date key by key, and the offset, are those the text has:
\* what is drawn of the field, from wherever in it, is that part of the text, column by
\* column, and the cursor is in view, where it is in the text.
Columns == LET parts == [n \in DOMAIN Before |-> GlyphColumns(Before[n], 0, Width[Before[n]])]
                       \o [n \in DOMAIN After |-> GlyphColumns(After[n], 0, Width[After[n]])]
           IN  FlattenSeq(parts)

DrawnWhereItIs ==
    visible =>
      /\ \A skip \in 0 .. FieldWidth - 1 :
            /\ ProcessLine(skip, FieldWidth - skip)
                 = SubSeq(Columns, offset + skip + 1, Min({offset + FieldWidth, Len(Columns)}))
            /\ LET d == DrawFrom(skip)
                   passed == SubSeq(TextBytes(line.g), 1, GetPosition(line.g, d.it))
               IN  Total(Characters(passed)) + d.x = offset + skip
      /\ drawCursorX \in 0 .. FieldWidth - CursorWidth
      /\ offset + drawCursorX = Max({0, Total(Before) - CursorWidth})

\* The context follows the cursor back and forth: it is always the one a scan of the
\* text before the cursor gives, so a command is written out when it is within an
\* expression or a program, and executed when it is not; up to a backslash.
ContextOfTheCursor == "\\" \notin astray => line.context = Here
=============================================================================
