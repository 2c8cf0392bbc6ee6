------------------------------- MODULE Screen -------------------------------
(***************************************************************************)
(* The display of the calculator: how the levels of the stack and the      *)
(* field are laid out (stacklayout.cpp), which lines are drawn when        *)
(* (graphics/composite.cpp, displayitem.cpp, the canvas of application.cpp *)
(* and display.cpp), and what is then in the frame buffer.                 *)
(*                                                                         *)
(* A row of the frame buffer is known by the level it is a line of and by  *)
(* the item drawn there; the field is level 0.                             *)
(***************************************************************************)
EXTENDS TextItem, TLC

CONSTANTS NULL,
          ScreenWidth, ScreenHeight, HeaderHeight, MenuHeight,
          LineHeight         \* of the font

ASSUME ScreenAssumption ==
    /\ {ScreenWidth, LineHeight} \subseteq Nat \ {0}
    /\ {ScreenHeight, HeaderHeight, MenuHeight} \subseteq Nat
    /\ ScreenHeight - MenuHeight - HeaderHeight > LineHeight

Top == HeaderHeight
Height == ScreenHeight - MenuHeight - HeaderHeight      \* of the contents
MenuTop == ScreenHeight - MenuHeight

FieldHeight(visible) == IF visible THEN LineHeight ELSE 0

-------------------------------------------------------------------------------
(* The layout: items[i] is the item of level i, NULL where none is kept. *)

Level(s, i) == s[Len(s) - i + 1]

\* doRelayout: items are made for the levels in view that have none, and the others
\* dropped.  The uppermost may be in view in part.
Relaid(screen, s, visible) ==
    LET bottom == Height - FieldHeight(visible)
        upper == (bottom + LineHeight - 1) \div LineHeight
        items == screen.items
    IN  [screen EXCEPT
            !.items = [i \in 1 .. Least(upper, Len(s)) |->
                          IF i <= Len(items) /\ items[i] # NULL THEN items[i] ELSE Level(s, i)],
            !.upperItemNr = upper,
            !.upperItemScanStart = upper * LineHeight - bottom,
            !.needsFullRedraw = TRUE]

Forgotten_ButFirst(screen) ==                           \* fault
    [screen EXCEPT !.items = [i \in DOMAIN @ |-> IF i = 1 THEN @[i] ELSE NULL]]
Forgotten(screen) == [screen EXCEPT !.items = [i \in DOMAIN @ |-> NULL]]   \* clearCachedItems

-------------------------------------------------------------------------------
(* Drawing. *)

Blank == [level |-> -1]
MenuRow == [level |-> -2]

\* initLineScanning and processLine of the layout: level by level from the uppermost.
Scanned(screen, visible, text, y) ==
    LET passed == screen.upperItemScanStart + y
        nr == screen.upperItemNr - (passed \div LineHeight)
        line == passed % LineHeight
    IN  IF nr > 0 THEN [level |-> nr, line |-> line,
                        item |-> IF nr <= Len(screen.items) THEN screen.items[nr] ELSE NULL]
        ELSE IF nr = 0 /\ visible THEN [level |-> 0, line |-> line, text |-> text]
        ELSE Blank

\* Display::draw, of the contents and of the menu, each within its own bounds.
Drawn(screen, visible, text, top, height) ==
    [screen EXCEPT !.frame = [y \in DOMAIN @ |->
        IF y \notin top .. top + height - 1 \/ y < Top THEN @[y]
        ELSE IF y < Top + Height THEN Scanned(screen, visible, text, y - Top) ELSE MenuRow]]

\* Composite::redraw: all of it after a new layout, whatever was asked for.
Redrawn(screen, visible, text, from, height) ==
    IF screen.needsFullRedraw
    THEN Drawn([screen EXCEPT !.needsFullRedraw = FALSE], visible, text, Top, Height)
    ELSE Drawn(screen, visible, text, Top + from, height)

RedrawnAll(screen, visible, text) == Redrawn(screen, visible, text, 0, Height)
RedrawnField(screen, text) == Redrawn(screen, TRUE, text, Height - LineHeight, LineHeight)

\* setVisible of the field.
WithField(screen, s, visible, text) == RedrawnAll(Relaid(screen, s, visible), visible, text)

\* setContents: laid out for its size, and drawn for the first time with all there is.
FirstScreen ==
    LET empty == [items |-> <<>>, upperItemNr |-> 0, upperItemScanStart |-> 0, needsFullRedraw |-> FALSE,
                  frame |-> [y \in 0 .. ScreenHeight - 1 |-> Blank]]
    IN  Drawn(Relaid(empty, <<>>, FALSE), FALSE, <<>>, 0, ScreenHeight)

-------------------------------------------------------------------------------
(* The columns of a row. *)

RECURSIVE Digits(_)
Digits(i) == IF i < 10 THEN <<ToString(i)>> ELSE Append(Digits(i \div 10), ToString(i % 10))

NumberText(i) == Append(Digits(i), ":")
NumberWidth(i) == Extent(NumberText(i))

\* drawNumber, and beside it the item, which has all that is left of the width.
LevelColumns(i, text) ==
    Columns(NumberText(i)) \o ProcessLine(text, ScreenWidth - NumberWidth(i), 0)

-------------------------------------------------------------------------------
(* What there is to be seen: from below the line that is typed, then the levels. *)

Picture(s, visible, text) ==
    [y \in 0 .. ScreenHeight - 1 |->
        LET above == Top + Height - 1 - y                     \* rows below this one
            n == above - FieldHeight(visible)
        IN  IF y < Top THEN Blank
            ELSE IF y >= MenuTop THEN MenuRow
            ELSE IF n < 0 THEN [level |-> 0, line |-> LineHeight - 1 - above, text |-> text]
            ELSE [level |-> (n \div LineHeight) + 1, line |-> LineHeight - 1 - (n % LineHeight),
                  item |-> IF n \div LineHeight < Len(s) THEN Level(s, (n \div LineHeight) + 1) ELSE NULL]]

\* A level is shown with its number, and as much of its text as fits beside it.
ShownInFull(i, text) ==
    LET w == ScreenWidth - NumberWidth(i)
    IN  /\ LevelColumns(i, text) = Columns(NumberText(i)) \o InTheBox(text, w)
        /\ \A skip \in 1 .. w - 1 : ProcessLine(text, w, skip) = SubSeq(InTheBox(text, w), skip + 1, w)
=============================================================================
