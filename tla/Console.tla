------------------------------ MODULE Console ------------------------------
(***************************************************************************)
(* The terminal on the framebuffer (kernel/arch/x86_64/framebuffer/tty.c):  *)
(* the pen, the pixels, scrolling.                                         *)
(*                                                                         *)
(* A pixel holds the set of characters whose ink may still be seen in it:   *)
(* glyphs are drawn without a background (ssfn_dst.bg stays 0, no caller    *)
(* sets it), so ink is only ever removed by clearing or moving pixels.      *)
(* All lengths are in pixels, addresses too: framebuffer->pitch / 4 is      *)
(* pitch here.                                                             *)
(***************************************************************************)
EXTENDS Integers, Sequences

CONSTANTS
    Glyphs,         \* characters the font has
    Others,         \* characters it has not, but for the new line
    GLYPH_WIDTH, GLYPH_HEIGHT,
    Modes,          \* the video modes the boot loader may set up
    MAX_ROWS        \* a bound on the rows of text written

ASSUME FontAssumption == GLYPH_WIDTH \in Nat \ {0} /\ GLYPH_HEIGHT \in Nat \ {0}

\* A line of pixels is stored in pitch pixels, of which the screen shows width.
ASSUME ModeAssumption ==
    \A m \in Modes : /\ m.width \in Nat \ {0}
                     /\ m.height \in Nat /\ m.height >= GLYPH_HEIGHT
                     /\ m.pitch \in Nat /\ m.pitch >= m.width

VARIABLES
    framebuffer,    \* the mode
    pixels,         \* the pixels' addresses -> the ink in them
    ssfn_dst,       \* the pen
    \* History:
    paper,          \* the rows of text written since terminal_initialize
    wrapped_home    \* the pen has gone from the last row back to the first

vars == <<framebuffer, pixels, ssfn_dst, paper, wrapped_home>>

COLORS_BG == {}
BootScreen == "what was on the screen before"

Addresses == 0 .. framebuffer.pitch * framebuffer.height - 1

\* memmove of n pixels: all of them are read before they are overwritten.
memmove(px, dst, src, n) ==
    [a \in DOMAIN px |-> IF a \in dst .. dst + n - 1 THEN px[src + a - dst] ELSE px[a]]

\* Pixel lines from first on, as the code counts them: width to a line.
Cleared(px, first) ==
    LET w == framebuffer.width
    IN  [a \in DOMAIN px |->
            IF a \in first * w .. framebuffer.height * w - 1 THEN COLORS_BG ELSE px[a]]

\* terminal_initialize, up to its first printf.
Init ==
    /\ framebuffer \in Modes
    /\ pixels = Cleared([a \in Addresses |-> {BootScreen}], 0)
    /\ ssfn_dst = [x |-> 0, y |-> 0]
    /\ paper = << << >> >>
    /\ wrapped_home = FALSE

-----------------------------------------------------------------------------
\* Mutant: the glyph is not clipped at the lower edge.
BoxUnclipped(pen) ==
    {(pen.y + j) * framebuffer.pitch + pen.x + i :
        i \in {i \in 0 .. GLYPH_WIDTH - 1 : pen.x + i < framebuffer.width},
        j \in 0 .. GLYPH_HEIGHT - 1}
\* The addresses of the glyph's box at the pen: clipped by the screen's edges.
Box(pen) ==
    {(pen.y + j) * framebuffer.pitch + pen.x + i :
        i \in {i \in 0 .. GLYPH_WIDTH - 1 : pen.x + i < framebuffer.width},
        j \in {j \in 0 .. GLYPH_HEIGHT - 1 : pen.y + j < framebuffer.height}}

Drawn(px, c) ==
    [a \in DOMAIN px |-> IF a \in Box(ssfn_dst) THEN px[a] \union {c} ELSE px[a]]

\* Mutant: the last row is not cleared.
ScrolledUncleared(px) ==
    memmove(px, 0, GLYPH_HEIGHT * framebuffer.pitch,
            framebuffer.width * (framebuffer.height - GLYPH_HEIGHT))
\* Mutant: the copy is a line of pixels short.
ScrolledShort(px) ==
    Cleared(memmove(px, 0, GLYPH_HEIGHT * framebuffer.pitch,
                    framebuffer.width * (framebuffer.height - GLYPH_HEIGHT - 1)),
            framebuffer.height - GLYPH_HEIGHT)
\* terminal_scroll's pixels and its pen.
Scrolled(px) ==
    Cleared(memmove(px, 0, GLYPH_HEIGHT * framebuffer.pitch,
                    framebuffer.width * (framebuffer.height - GLYPH_HEIGHT)),
            framebuffer.height - GLYPH_HEIGHT)
LastRow == [x |-> 0, y |-> framebuffer.height - GLYPH_HEIGHT]

\* Mutant: the pen is one row too far.
FinishOffByOne(pen, px) ==
    IF pen.y > framebuffer.height
    THEN pixels' = Scrolled(px) /\ ssfn_dst' = LastRow
    ELSE pixels' = px /\ ssfn_dst' = pen
\* The end of terminal_putchar.
Finish(pen, px) ==
    IF pen.y >= framebuffer.height
    THEN pixels' = Scrolled(px) /\ ssfn_dst' = LastRow
    ELSE pixels' = px /\ ssfn_dst' = pen

NextRow == [x |-> 0, y |-> ssfn_dst.y + GLYPH_HEIGHT]

-----------------------------------------------------------------------------
(***************************************************************************)
(* terminal_putchar(c).                                                    *)
(***************************************************************************)
NewLine ==
    /\ Len(paper) < MAX_ROWS
    /\ Finish(NextRow, pixels)
    /\ paper' = Append(paper, << >>)
    /\ UNCHANGED <<framebuffer, wrapped_home>>

Row == paper[Len(paper)]

\* The glyph leaves room for another in the row.
PutGlyph(c) ==
    /\ ssfn_dst.x + GLYPH_WIDTH < framebuffer.width
    /\ Finish([ssfn_dst EXCEPT !.x = @ + GLYPH_WIDTH], Drawn(pixels, c))
    /\ paper' = [paper EXCEPT ![Len(paper)] = Append(Row, c)]
    /\ UNCHANGED <<framebuffer, wrapped_home>>

\* The glyph fills the row: the pen wraps, from the last row to the first one.
PutLastGlyph(c) ==
    /\ ssfn_dst.x + GLYPH_WIDTH >= framebuffer.width
    /\ Len(paper) < MAX_ROWS
    /\ LET home == NextRow.y = framebuffer.height
       IN  /\ Finish(IF home THEN [NextRow EXCEPT !.y = 0] ELSE NextRow, Drawn(pixels, c))
           /\ wrapped_home' = (wrapped_home \/ home)
    /\ paper' = Append([paper EXCEPT ![Len(paper)] = Append(Row, c)], << >>)
    /\ UNCHANGED framebuffer

\* ssfn_putc finds no glyph and leaves the pen where it is.
PutOther(c) ==
    /\ Finish(ssfn_dst, pixels)
    /\ UNCHANGED <<framebuffer, paper, wrapped_home>>

Next ==
    \/ NewLine
    \/ \E c \in Glyphs : PutGlyph(c) \/ PutLastGlyph(c)
    \/ \E c \in Others : PutOther(c)

Spec == Init /\ [][Next]_vars

-----------------------------------------------------------------------------
(***************************************************************************)
(* Properties.                                                             *)
(***************************************************************************)
\* Every variable has its type; between two calls the pen is on the screen.
TypeOK ==
    /\ framebuffer \in Modes
    /\ pixels \in [Addresses -> SUBSET (Glyphs \union {BootScreen})]
    /\ ssfn_dst \in [x : 0 .. framebuffer.width - 1, y : 0 .. framebuffer.height - 1]
    /\ wrapped_home \in BOOLEAN

\* The next glyph is drawn inside the framebuffer, in every mode: also in the
\* rows and columns that are cut off, and where a scroll has left the pen.
DrawsInside == Box(ssfn_dst) \subseteq Addresses

\* What the screen shows at column x of its line y.
Shown(x, y) == pixels[y * framebuffer.pitch + x]

Screen == [x : 0 .. framebuffer.width - 1, y : 0 .. framebuffer.height - 1]

\* The ink that belongs at (x, y) if the screen's first row shows row first of
\* the paper.
Expected(x, y, first) ==
    LET row == first + y \div GLYPH_HEIGHT
        column == x \div GLYPH_WIDTH + 1
    IN  IF row \in DOMAIN paper /\ column \in DOMAIN paper[row]
        THEN {paper[row][column]} ELSE COLORS_BG

\* In a mode whose lines have no padding and that holds whole rows of text, the
\* screen shows the newest rows of all that was written, and nothing else, with
\* the pen in the last of them - until a line fills the last row to its
\* end, when the pen goes back to the first row (terminal_putchar does not
\* scroll then) and text is printed over text.
ShowsNewestRows ==
    LET rows == framebuffer.height \div GLYPH_HEIGHT
        first == IF Len(paper) <= rows THEN 1 ELSE Len(paper) - rows + 1
    IN  /\ framebuffer.pitch = framebuffer.width
        /\ framebuffer.height % GLYPH_HEIGHT = 0
        /\ ~ wrapped_home
        => /\ \A p \in Screen : Shown(p.x, p.y) = Expected(p.x, p.y, first)
           /\ ssfn_dst = [x |-> Len(Row) * GLYPH_WIDTH,
                          y |-> (Len(paper) - first) * GLYPH_HEIGHT]

\* "Scroll the screen to a new line by moving the buffer of row 1 up to 0, then
\* clear the last row" (tty.c:96): a new line that scrolls moves what the
\* screen shows up by a row and leaves the last row clear.
NewLineScrolls ==
    [][ NewLine /\ NextRow.y >= framebuffer.height
        => \A p \in Screen :
              Shown(p.x, p.y)' = IF p.y + GLYPH_HEIGHT < framebuffer.height
                                 THEN Shown(p.x, p.y + GLYPH_HEIGHT)
                                 ELSE COLORS_BG ]_vars
=============================================================================
