------------------------------ MODULE GapBuffer ------------------------------
(***************************************************************************)
(* A line of text with a cursor (env, util/gapstringbuffer): a chain of    *)
(* buffers of bytes with a gap at the cursor.  A position counts the bytes *)
(* of the whole chain, the gap included; gapBuf is the number of the       *)
(* buffer the gap starts in.  A byte is <<character, k>>: the k-th byte of *)
(* the character's code (util/utf8).  Bytes in the gap are NONE here: the  *)
(* code leaves there what it finds.                                        *)
(*                                                                         *)
(* The decoders go on until a byte completes a character.  Two bytes are   *)
(* enough here; no character of chars.h has a byte 0xBF, which both        *)
(* decoders skip (utf8.cpp:30 and 62), or four bytes, which the encoder    *)
(* writes over each other (line 110).                                      *)
(***************************************************************************)
EXTENDS Integers, Sequences, SequencesExt

CONSTANTS BufferSize,  \* 64
          Bytes,       \* the number of bytes of each character
          NONE         \* no byte, no character

ASSUME BytesAssumption == /\ \A c \in DOMAIN Bytes : Bytes[c] \in 1 .. 2
                          /\ NONE \notin DOMAIN Bytes /\ NONE \notin (DOMAIN Bytes) \X (1 .. 2)
ASSUME BufferAssumption == BufferSize \in Nat \ {0}

END == -1    \* the position behind the last byte of the chain

Encoded(c) == [k \in 1 .. Bytes[c] |-> <<c, k>>]
EncodedText(s) == FlattenSeq([n \in 1 .. Len(s) |-> Encoded(s[n])])

InGap(g, p) == g.gapPos <= p /\ p < g.gapPos + g.gapLen
InBuf(p) == p % BufferSize
StartsBuf(p) == p % BufferSize = 0

\* The bytes of the text, in order, and the characters that are complete, byte by byte.
TextBytes(g) == SubSeq(g.chars, 1, g.gapPos)
                \o SubSeq(g.chars, g.gapPos + g.gapLen + 1, Len(g.chars))
Characters(bytes) ==
    LET decoded[n \in 0 .. Len(bytes)] ==
          IF n = 0 THEN <<>>
          ELSE IF bytes[n][2] = Bytes[bytes[n][1]] THEN Append(decoded[n - 1], bytes[n][1])
          ELSE decoded[n - 1]
    IN  decoded[Len(bytes)]

GetLength(g) == Len(g.chars) - g.gapLen

Junk(n) == [k \in 1 .. n |-> NONE]

\* A new one, and one that is cleared.
Fresh == [chars |-> Junk(BufferSize), gapBuf |-> 0, gapPos |-> 0, gapLen |-> BufferSize]

-------------------------------------------------------------------------------
(* One byte. *)

\* The byte behind the gap, counted from the buffer the gap starts in.
NextByte(g) == g.chars[g.gapBuf * BufferSize + InBuf(g.gapPos) + g.gapLen + 1]

Write(chars, p, b) == [chars EXCEPT ![p + 1] = b]

RightByte(g) ==
    LET to == g.gapBuf * BufferSize + InBuf(g.gapPos)
    IN  [g EXCEPT !.chars = Write(Write(@, to, NextByte(g)), to + g.gapLen, NONE),
                  !.gapPos = @ + 1,
                  !.gapBuf = IF InBuf(g.gapPos) = BufferSize - 1 THEN @ + 1 ELSE @]

\* The buffer of the byte before the gap.
BufBefore(g) == IF StartsBuf(g.gapPos) THEN g.gapBuf - 1 ELSE g.gapBuf

ByteBefore(g) == BufBefore(g) * BufferSize + InBuf(g.gapPos - 1)

LeftByte(g) ==
    LET from == ByteBefore(g)
    IN  [g EXCEPT !.chars = Write(Write(@, from + g.gapLen, g.chars[from + 1]), from, NONE),
                  !.gapPos = @ - 1,
                  !.gapBuf = BufBefore(g)]

EraseRightByte(g) ==
    [g EXCEPT !.chars = Write(@, g.gapPos + g.gapLen, NONE), !.gapLen = @ + 1]

EraseLeftByte(g) ==
    [g EXCEPT !.chars = Write(@, ByteBefore(g), NONE),
              !.gapPos = @ - 1, !.gapLen = @ + 1, !.gapBuf = BufBefore(g)]

\* Buffers are added behind the one the gap starts in, so many that the gap is never
\* empty; the bytes behind a gap within one buffer move to the first of them.
Missing(g, l) == IF l < g.gapLen THEN 0 ELSE (l - g.gapLen) \div BufferSize + 1

Enlarged(g, l) ==
    LET more == Missing(g, l) * BufferSize
    IN  [g EXCEPT !.chars = SubSeq(@, 1, g.gapPos) \o Junk(g.gapLen + more)
                            \o SubSeq(@, g.gapPos + g.gapLen + 1, Len(@)),
                  !.gapLen = @ + more]

InsertBytes(g, bytes) ==
    LET l == Len(bytes)
        h == Enlarged(g, l)
        p == g.gapPos + l
    IN  [chars |-> SubSeq(h.chars, 1, g.gapPos) \o bytes \o SubSeq(h.chars, p + 1, Len(h.chars)),
         gapPos |-> p, gapLen |-> h.gapLen - l,
         gapBuf |-> g.gapBuf + (InBuf(g.gapPos) + l) \div BufferSize]

-------------------------------------------------------------------------------
(* One character: bytes until one completes it.  -1 at the end (start). *)

AtEnd(g) == g.gapPos = GetLength(g)
AtStart(g) == g.gapPos = 0

Times(Op(_), g, n) == IF n = 1 THEN Op(g) ELSE Op(Op(g))
CharAfter(g) == IF AtEnd(g) THEN NONE ELSE NextByte(g)[1]
CharBefore(g) == IF AtStart(g) THEN NONE ELSE g.chars[ByteBefore(g) + 1][1]

InsertChar(g, c) == InsertBytes(g, Encoded(c))
MoveRight(g) == IF AtEnd(g) THEN g ELSE Times(RightByte, g, Bytes[CharAfter(g)])
MoveLeft(g) == IF AtStart(g) THEN g ELSE Times(LeftByte, g, Bytes[CharBefore(g)])
EraseRight(g) == IF AtEnd(g) THEN g ELSE Times(EraseRightByte, g, Bytes[CharAfter(g)])
EraseLeft(g) == IF AtStart(g) THEN g ELSE Times(EraseLeftByte, g, Bytes[CharBefore(g)])

-------------------------------------------------------------------------------
(* Iterators: a buffer and a position, END behind the last byte of the chain. *)

Iterator(buf, pos) == [buf |-> buf, pos |-> pos]
Start == Iterator(0, 0)
Cursor(g) == Iterator(g.gapBuf, g.gapPos)

GetPosition(g, it) ==
    IF it.pos = END THEN GetLength(g)
    ELSE IF it.pos > g.gapPos THEN it.pos - g.gapLen ELSE it.pos

\* getForward and getBackward of a byte: the byte, or NONE, and where it leads.
ForwardByte(g, it) ==
    LET pos == IF it.pos = g.gapPos THEN it.pos + g.gapLen ELSE it.pos
        buf == it.buf + ((InBuf(it.pos) + pos - it.pos) \div BufferSize)
        p == buf * BufferSize + InBuf(pos)
        over == p >= Len(g.chars)
    IN  IF it.pos = END THEN [byte |-> NONE, it |-> it]
        ELSE IF over THEN [byte |-> NONE, it |-> Iterator(Len(g.chars) \div BufferSize - 1, END)]
        ELSE [byte |-> g.chars[p + 1],
              it |-> IF p + 1 = Len(g.chars) THEN Iterator(buf, END)
                     ELSE Iterator((p + 1) \div BufferSize, pos + 1)]

\* From the end the buffer is taken to be that of the byte before, also when the
\* position moves over the gap to the end of the buffer before; and in front of a gap at
\* the start of the text there is no byte.  Going back by one from the cursor, or from
\* where going forward from there has led, as the callers do, meets neither.
BackwardByte(g, it) ==
    LET atEnd == it.pos = END
        from == IF atEnd THEN Len(g.chars) ELSE it.pos
        over == from = g.gapPos + g.gapLen
        pos == (IF over THEN g.gapPos ELSE from) - 1
        buf == IF over THEN g.gapBuf ELSE it.buf
        b == IF ~atEnd /\ InBuf(pos) = BufferSize - 1 THEN buf - 1 ELSE buf
    IN  IF it.pos = 0 THEN [byte |-> NONE, it |-> it]
        ELSE [byte |-> g.chars[b * BufferSize + InBuf(pos) + 1], it |-> Iterator(b, pos)]

GetForward(g, it) ==
    LET one == ForwardByte(g, it)
        two == ForwardByte(g, one.it)
    IN  IF one.byte = NONE THEN [char |-> NONE, it |-> one.it]
        ELSE [char |-> one.byte[1], it |-> IF Bytes[one.byte[1]] = 1 THEN one.it ELSE two.it]

GetBackward(g, it) ==
    LET one == BackwardByte(g, it)
        two == BackwardByte(g, one.it)
    IN  IF one.byte = NONE THEN [char |-> NONE, it |-> one.it]
        ELSE [char |-> one.byte[1], it |-> IF Bytes[one.byte[1]] = 1 THEN one.it ELSE two.it]
=============================================================================
