------------------------------ MODULE TextItem ------------------------------
(***************************************************************************)
(* A text in a box (graphics/text.cpp), as the levels of the stack are     *)
(* shown: aligned to the right, and cut short with an ellipsis where it is *)
(* too long.  A text is a sequence of signs, a place in it the number of   *)
(* signs before; what is drawn of it is a sequence of columns.             *)
(***************************************************************************)
EXTENDS Integers, Sequences

CONSTANTS Wide     \* signs of two columns: all others have one

Ellipsis == "ellipsis"
Width(c) == IF c \in Wide THEN 2 ELSE 1

Nowhere == -1      \* an iterator over nothing

-------------------------------------------------------------------------------
(* sizeChanged: where the text starts, and where the ellipsis is in its place. *)

RECURSIVE Forth(_, _, _, _), Back(_, _, _, _)
Forth(s, width, i, w) ==
    IF w <= width /\ i < Len(s) THEN Forth(s, width, i + 1, w + Width(s[i + 1])) ELSE [i |-> i, w |-> w]
Back(s, width, i, w) ==
    IF w > width /\ i > 0 THEN Back(s, width, i - 1, w - Width(s[i])) ELSE [i |-> i, w |-> w]

SizeChanged(s, width) ==
    LET all == Forth(s, width, 0, 0)
        cut == Back(s, width - Width(Ellipsis), all.i, all.w)
        w == IF all.w > width THEN cut.w + Width(Ellipsis) ELSE all.w
    IN  [textX |-> IF w < width THEN width - w ELSE 0,
         ellipsisStop |-> IF all.w > width THEN cut.i ELSE Nowhere]

-------------------------------------------------------------------------------
(* Drawing, from a column of the box on. *)

RECURSIVE Passing(_, _, _, _)
Passing(s, stop, i, x) ==
    IF x <= 0 \/ i = stop \/ i = Len(s) \/ x < Width(s[i + 1]) THEN [i |-> i, x |-> x]
    ELSE Passing(s, stop, i + 1, x - Width(s[i + 1]))

InitLineScanning(s, size, skip) ==
    LET at == Passing(s, size.ellipsisStop, 0, skip - size.textX)
    IN  IF at.x > 0 /\ at.i = size.ellipsisStop /\ at.x >= Width(Ellipsis)
        THEN [at EXCEPT !.i = Len(s)] ELSE at

Least(a, b) == IF a < b THEN a ELSE b
Most(a, b) == IF a > b THEN a ELSE b

\* drawLine of a glyph: its columns from one on, as many as there is room for.
DrawLine(c, from, clip) == [n \in 1 .. Most(0, Least(Width(c) - from, clip)) |-> <<c, from + n - 1>>]

RECURSIVE Signs(_, _, _, _, _)
Signs(s, stop, i, from, w) ==
    IF w = 0 THEN <<>>
    ELSE IF i = stop THEN DrawLine(Ellipsis, from, w)
    ELSE IF i = Len(s) THEN <<>>
    ELSE LET drawn == DrawLine(s[i + 1], from, w)
         IN  drawn \o Signs(s, stop, i + 1, 0, w - Len(drawn))

Nothing == <<"nothing", 0>>
Gap(n) == [k \in 1 .. n |-> Nothing]

ProcessLine(s, width, skip) ==
    LET size == SizeChanged(s, width)
        at == InitLineScanning(s, size, skip)
        left == Most(0, -at.x)
    IN  Gap(left) \o Signs(s, size.ellipsisStop, at.i, Most(0, at.x), width - skip - left)

-------------------------------------------------------------------------------
(* What it comes to. *)

RECURSIVE Columns(_)
Columns(s) == IF s = <<>> THEN <<>> ELSE DrawLine(s[1], 0, Width(s[1])) \o Columns(Tail(s))

Extent(s) == Len(Columns(s))

\* All of the text where it fits, or as much as fits beside the ellipsis.
Fitting(s, width) ==
    IF Extent(s) <= width THEN s
    ELSE LET fits == {n \in 0 .. Len(s) : Extent(SubSeq(s, 1, n)) + Width(Ellipsis) <= width}
             most == IF fits = {} THEN 0 ELSE CHOOSE n \in fits : \A m \in fits : m <= n
         IN  Append(SubSeq(s, 1, most), Ellipsis)

InTheBox(s, width) ==
    LET c == Columns(Fitting(s, width))
    IN  Gap(Most(0, width - Len(c))) \o SubSeq(c, 1, Least(Len(c), width))
=============================================================================
