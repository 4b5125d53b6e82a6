--------------------------- MODULE ConsoleProofs ---------------------------
(***************************************************************************)
(* For every video mode and font size: the pen stays on the screen, and     *)
(* drawing, scrolling and clearing stay inside the framebuffer.            *)
(*                                                                         *)
(* And for every font size and every mode whose lines have no padding:        *)
(* terminal_scroll moves the picture up by a row of text, and as long as no   *)
(* line has filled the last row to its end the screen shows the newest rows   *)
(* of the text, however much has been written.                              *)
(***************************************************************************)
EXTENDS Console, TLAPS

Ink == SUBSET (Glyphs \union {BootScreen})

\* Row r and column c of a picture whose lines take p pixels lie in its h
\* lines: the arithmetic behind every address of tty.c and ssfn_putc.
LEMMA AddressInside ==
    \A p, h, r, c \in Nat : r < h /\ c < p => r * p + c \in 0 .. p * h - 1
<1> SUFFICES ASSUME NEW p \in Nat, NEW h \in Nat, NEW r \in Nat, NEW c \in Nat,
                    r < h, c < p
             PROVE  r * p + c \in 0 .. p * h - 1
    OBVIOUS
<1>1. (r + 1) * p <= h * p
    BY Z3
<1>2. (r + 1) * p = r * p + p /\ h * p = p * h /\ r * p \in Nat /\ p * h \in Nat
    BY Z3
<1> QED
    BY <1>1, <1>2

\* What terminal_scroll's memmove reads: n = w * (h - g) pixels from g * p on,
\* where a line has w pixels of its p in use.
LEMMA CopyInside ==
    \A w, p, h, g, a \in Nat :
        w <= p /\ g <= h /\ a < w * (h - g) => g * p + a \in 0 .. p * h - 1
<1> SUFFICES ASSUME NEW w \in Nat, NEW p \in Nat, NEW h \in Nat, NEW g \in Nat,
                    NEW a \in Nat, w <= p, g <= h, a < w * (h - g)
             PROVE  g * p + a \in 0 .. p * h - 1
    OBVIOUS
<1> DEFINE k == h - g
<1>1. k \in Nat /\ h = k + g
    OBVIOUS
<1> HIDE DEF k
<1>2. w * k <= p * k
    BY <1>1, Z3
<1>3. p * h = p * k + g * p /\ p * k \in Nat /\ g * p \in Nat /\ p * h \in Nat /\ w * k \in Nat
    BY <1>1, Z3
<1>4. a < w * k
    BY DEF k
<1> QED
    BY <1>2, <1>3, <1>4

Mode ==
    /\ framebuffer.width \in Nat \ {0}
    /\ framebuffer.height \in Nat /\ framebuffer.height >= GLYPH_HEIGHT
    /\ framebuffer.pitch \in Nat /\ framebuffer.pitch >= framebuffer.width
    /\ GLYPH_WIDTH \in Nat \ {0} /\ GLYPH_HEIGHT \in Nat \ {0}

LEMMA ModeFacts == TypeOK => Mode
    BY ModeAssumption, FontAssumption DEF TypeOK, Mode

Pixels == [Addresses -> Ink]

\* Clearing keeps the picture a picture.
LEMMA ClearedTyped ==
    ASSUME NEW px \in Pixels, NEW first
    PROVE  Cleared(px, first) \in Pixels
    BY DEF Cleared, Pixels, Ink, COLORS_BG

\* Scrolling reads pixels of the framebuffer only.
LEMMA ScrolledTyped ==
    ASSUME Mode, NEW px \in Pixels
    PROVE  Scrolled(px) \in Pixels
<1> DEFINE src == GLYPH_HEIGHT * framebuffer.pitch
           n == framebuffer.width * (framebuffer.height - GLYPH_HEIGHT)
           moved == memmove(px, 0, src, n)
<1>1. n \in Nat /\ src \in Nat
  <2>1. framebuffer.height - GLYPH_HEIGHT \in Nat
    BY DEF Mode
  <2> QED
    BY <2>1, Z3 DEF Mode
<1>2. ASSUME NEW a \in Addresses, a \in 0 .. 0 + n - 1
      PROVE  src + a - 0 \in Addresses
  <2>1. a \in Nat /\ a < n
    BY <1>1, <1>2
  <2>2. src + a \in 0 .. framebuffer.pitch * framebuffer.height - 1
    BY <2>1, CopyInside DEF Mode
  <2>3. src + a - 0 = src + a
    BY <1>1, <2>1
  <2> QED
    BY <2>2, <2>3 DEF Addresses
<1>3. moved \in Pixels
    BY <1>2 DEF memmove, Pixels
<1> QED
    BY <1>3, ClearedTyped DEF Scrolled

LEMMA DrawnTyped ==
    ASSUME NEW px \in Pixels, NEW c \in Glyphs
    PROVE  Drawn(px, c) \in Pixels
    BY DEF Drawn, Pixels, Ink

OnScreen(pen) ==
    pen \in [x : 0 .. framebuffer.width - 1, y : 0 .. framebuffer.height - 1]

\* The end of terminal_putchar: whatever row the pen has come to, it ends on
\* the screen.
LEMMA FinishTyped ==
    ASSUME Mode, NEW px \in Pixels, NEW x \in 0 .. framebuffer.width - 1, NEW y \in Nat,
           NEW pen, pen = [x |-> x, y |-> y], Finish(pen, px)
    PROVE  pixels' \in Pixels /\ OnScreen(ssfn_dst')
<1>1. CASE y >= framebuffer.height
  <2>1. pixels' = Scrolled(px) /\ ssfn_dst' = LastRow
    BY <1>1 DEF Finish
  <2>2. OnScreen(LastRow)
    BY DEF LastRow, OnScreen, Mode
  <2> QED
    BY <2>1, <2>2, ScrolledTyped
<1>2. CASE ~ (y >= framebuffer.height)
    BY <1>2 DEF Finish, OnScreen, Mode
<1> QED
    BY <1>1, <1>2

LEMMA TypeStep == TypeOK /\ [Next]_vars => TypeOK'
<1> SUFFICES ASSUME TypeOK, [Next]_vars
             PROVE  TypeOK'
    OBVIOUS
<1>1. Mode
    BY ModeFacts
<1>2. pixels \in Pixels /\ OnScreen(ssfn_dst) /\ wrapped_home \in BOOLEAN /\ framebuffer \in Modes
    BY DEF TypeOK, Pixels, Ink, OnScreen
<1> DEFINE X == ssfn_dst.x  Y == ssfn_dst.y
<1>3. /\ X \in 0 .. framebuffer.width - 1 /\ Y \in 0 .. framebuffer.height - 1
      /\ ssfn_dst = [x |-> X, y |-> Y]
    BY <1>2 DEF OnScreen
<1>4. SUFFICES framebuffer' = framebuffer /\ pixels' \in Pixels /\ OnScreen(ssfn_dst')
               /\ wrapped_home' \in BOOLEAN
    BY <1>2 DEF TypeOK, Pixels, Ink, OnScreen, Addresses
<1>5. NextRow = [x |-> 0, y |-> Y + GLYPH_HEIGHT] /\ Y + GLYPH_HEIGHT \in Nat
    BY <1>1, <1>3 DEF NextRow, Mode
<1>6. 0 \in 0 .. framebuffer.width - 1
    BY <1>1 DEF Mode
<1>7. CASE NewLine
    BY <1>1, <1>2, <1>5, <1>6, <1>7, FinishTyped DEF NewLine
<1>8. ASSUME NEW c \in Glyphs, PutGlyph(c)
      PROVE  framebuffer' = framebuffer /\ pixels' \in Pixels /\ OnScreen(ssfn_dst')
             /\ wrapped_home' \in BOOLEAN
  <2>1. Drawn(pixels, c) \in Pixels
    BY <1>2, DrawnTyped
  <2>2. X + GLYPH_WIDTH \in 0 .. framebuffer.width - 1 /\ Y \in Nat
    BY <1>1, <1>3, <1>8 DEF PutGlyph, Mode
  <2>3. [ssfn_dst EXCEPT !.x = @ + GLYPH_WIDTH] = [x |-> X + GLYPH_WIDTH, y |-> Y]
    BY <1>3
  <2>4. Finish([x |-> X + GLYPH_WIDTH, y |-> Y], Drawn(pixels, c))
    BY <1>8, <2>3 DEF PutGlyph
  <2> QED
    BY <1>1, <1>2, <1>8, <2>1, <2>2, <2>4, FinishTyped DEF PutGlyph
<1>9. ASSUME NEW c \in Glyphs, PutLastGlyph(c)
      PROVE  framebuffer' = framebuffer /\ pixels' \in Pixels /\ OnScreen(ssfn_dst')
             /\ wrapped_home' \in BOOLEAN
  <2> DEFINE home == NextRow.y = framebuffer.height
             y == IF home THEN 0 ELSE Y + GLYPH_HEIGHT
  <2>1. Drawn(pixels, c) \in Pixels
    BY <1>2, DrawnTyped
  <2>2. (IF home THEN [NextRow EXCEPT !.y = 0] ELSE NextRow) = [x |-> 0, y |-> y]
    BY <1>5
  <2>3. y \in Nat
    BY <1>5
  <2>4. Finish([x |-> 0, y |-> y], Drawn(pixels, c))
    BY <1>9, <2>2 DEF PutLastGlyph
  <2>5. pixels' \in Pixels /\ OnScreen(ssfn_dst')
    BY <1>1, <1>6, <2>1, <2>3, <2>4, FinishTyped
  <2>6. wrapped_home' = (wrapped_home \/ home) /\ framebuffer' = framebuffer
    BY <1>9 DEF PutLastGlyph
  <2>7. (wrapped_home \/ home) \in BOOLEAN
    BY <1>2
  <2> QED
    BY <2>5, <2>6, <2>7, Zenon
<1>10. ASSUME NEW c \in Others, PutOther(c)
       PROVE  framebuffer' = framebuffer /\ pixels' \in Pixels /\ OnScreen(ssfn_dst')
              /\ wrapped_home' \in BOOLEAN
  <2>1. Y \in Nat
    BY <1>1, <1>3 DEF Mode
  <2> QED
    BY <1>1, <1>2, <1>3, <1>10, <2>1, FinishTyped DEF PutOther
<1>11. CASE UNCHANGED vars
    BY <1>2, <1>11 DEF vars, OnScreen
<1> QED
    BY <1>7, <1>8, <1>9, <1>10, <1>11 DEF Next

LEMMA TypeInit == Init => TypeOK
<1> SUFFICES ASSUME Init
             PROVE  TypeOK
    OBVIOUS
<1>1. framebuffer \in Modes /\ framebuffer.width \in Nat \ {0}
      /\ framebuffer.height \in Nat \ {0}
    BY ModeAssumption, FontAssumption DEF Init
<1>2. [a \in Addresses |-> {BootScreen}] \in Pixels
    BY DEF Pixels, Ink
<1>3. pixels \in Pixels
    BY <1>2, ClearedTyped DEF Init
<1>4. 0 \in 0 .. framebuffer.width - 1 /\ 0 \in 0 .. framebuffer.height - 1
    BY <1>1
<1>5. ssfn_dst \in [x : 0 .. framebuffer.width - 1, y : 0 .. framebuffer.height - 1]
    BY <1>4 DEF Init
<1>6. wrapped_home \in BOOLEAN
    BY DEF Init
<1> QED
    BY <1>1, <1>3, <1>5, <1>6 DEF TypeOK, Pixels, Ink

\* In every mode the pen is on the screen after each character, and every
\* pixel terminal_scroll moves is one of the framebuffer (tty.c:101-136, 138-159).
THEOREM TypeCorrect == Spec => []TypeOK
    BY TypeInit, TypeStep, PTL DEF Spec

\* A glyph is drawn inside the framebuffer, also where the edges cut it off
\* (terminal_putchar's pen and ssfn_putc's clipping).
THEOREM GlyphsInside == Spec => []DrawsInside
<1>1. TypeOK => DrawsInside
  <2> SUFFICES ASSUME TypeOK, NEW i \in 0 .. GLYPH_WIDTH - 1, NEW j \in 0 .. GLYPH_HEIGHT - 1,
                      ssfn_dst.x + i < framebuffer.width,
                      ssfn_dst.y + j < framebuffer.height
               PROVE  (ssfn_dst.y + j) * framebuffer.pitch + ssfn_dst.x + i \in Addresses
    BY DEF DrawsInside, Box
  <2> DEFINE r == ssfn_dst.y + j  c == ssfn_dst.x + i
  <2>1. Mode
    BY ModeFacts
  <2>2. ssfn_dst.x \in Nat /\ ssfn_dst.y \in Nat /\ i \in Nat /\ j \in Nat
    BY <2>1 DEF TypeOK, Mode
  <2>3. r \in Nat /\ c \in Nat /\ c < framebuffer.pitch
    BY <2>1, <2>2 DEF Mode
  <2>4. r * framebuffer.pitch + c \in 0 .. framebuffer.pitch * framebuffer.height - 1
    BY <2>1, <2>3, AddressInside DEF Mode
  <2>5. r * framebuffer.pitch \in Int
    BY <2>1, <2>3 DEF Mode
  <2>6. r * framebuffer.pitch + ssfn_dst.x + i = r * framebuffer.pitch + c
    BY <2>2, <2>5
  <2> QED
    BY <2>4, <2>6 DEF Addresses
<1> QED
    BY <1>1, TypeCorrect, PTL

-----------------------------------------------------------------------------
(***************************************************************************)
(* What the terminal shows.  The pixels are compared with the paper cell by   *)
(* cell: the addresses that a glyph is drawn at are exactly those of one cell. *)
(***************************************************************************)
F == GLYPH_WIDTH
G == GLYPH_HEIGHT
W == framebuffer.width
H == framebuffer.height

\* Lines without padding, whole rows of text.
Unpadded == framebuffer.pitch = framebuffer.width
Regular == Unpadded /\ H % G = 0
Rows == H \div G

Sheets == Seq(Seq(Glyphs))

\* The ink in one cell of a sheet.
InkOf(sheet, row, column) ==
    IF row \in DOMAIN sheet /\ column \in DOMAIN sheet[row] THEN {sheet[row][column]} ELSE {}

\* The row of the sheet that the screen's first row shows.
First(sheet) == IF Len(sheet) <= Rows THEN 1 ELSE Len(sheet) - Rows + 1

\* Picture px and the pen show the sheet's rows from first on.
Shows(px, pen, sheet, first) ==
    /\ \A x \in 0 .. W - 1, y \in 0 .. H - 1 :
          px[y * W + x] = InkOf(sheet, first + y \div G, x \div F + 1)
    /\ pen = [x |-> Len(sheet[Len(sheet)]) * F, y |-> (Len(sheet) - first) * G]

Showing == Shows(pixels, ssfn_dst, paper, First(paper))

SInv ==
    /\ TypeOK
    /\ paper \in Sheets
    /\ Len(paper) >= 1
    /\ Regular /\ ~wrapped_home => Showing

-----------------------------------------------------------------------------
(***************************************************************************)
(* Rows, columns and addresses.                                            *)
(***************************************************************************)
\* A quotient, as the cell a coordinate lies in.
LEMMA CellOf ==
    ASSUME NEW z \in Nat, NEW g \in Nat \ {0}, NEW k \in Nat
    PROVE  z \div g = k <=> k * g <= z /\ z < k * g + g
BY Z3

LEMMA Times ==
    ASSUME NEW k \in Nat, NEW g \in Nat
    PROVE  k * g \in Nat
BY Z3

\* An address is of one line and one column.
LEMMA AddressUnique ==
    ASSUME NEW w \in Nat, NEW r1 \in Nat, NEW r2 \in Nat, NEW c1 \in Nat, NEW c2 \in Nat,
           c1 < w, c2 < w, r1 * w + c1 = r2 * w + c2
    PROVE  r1 = r2 /\ c1 = c2
<1>1. ASSUME NEW a \in Nat, NEW b \in Nat, a < b
      PROVE  a * w + w <= b * w
  BY <1>1, Z3
<1>2. r1 * w \in Nat /\ r2 * w \in Nat
  BY Z3
<1>3. ~(r1 < r2)
  BY <1>1, <1>2
<1>4. ~(r2 < r1)
  BY <1>1, <1>2
<1> QED
  BY <1>2, <1>3, <1>4

\* Lines in order have their addresses in order.
LEMMA LinesInOrder ==
    ASSUME NEW w \in Nat, NEW r \in Nat, NEW h \in Nat, NEW c \in Nat, c < w
    PROVE  /\ r < h => r * w + c < h * w
           /\ h <= r => h * w <= r * w + c
           /\ r * w + c \in Nat /\ h * w \in Nat
<1>1. r < h => (r + 1) * w <= h * w
  BY Z3
<1>2. (r + 1) * w = r * w + w /\ r * w \in Nat /\ h * w \in Nat
  BY Z3
<1>3. h <= r => h * w <= r * w
  BY Z3
<1> QED
  BY <1>1, <1>2, <1>3

\* The numbers of a mode without padding.
LEMMA ModeNumbers ==
    ASSUME TypeOK
    PROVE  /\ W \in Nat \ {0} /\ H \in Nat \ {0} /\ F \in Nat \ {0} /\ G \in Nat \ {0}
           /\ H >= G
           /\ framebuffer.pitch \in Nat
  BY ModeFacts DEF Mode, W, H, F, G

LEMMA RowNumbers ==
    ASSUME TypeOK, H % G = 0
    PROVE  Rows \in Nat \ {0} /\ H = Rows * G
<1> DEFINE h == H  g == G
<1>1. h \in Nat \ {0} /\ g \in Nat \ {0} /\ h >= g
  BY ModeNumbers
<1>2. h % g = 0
  OBVIOUS
<1> HIDE DEF h, g
<1>3. h \div g \in Nat \ {0} /\ h = (h \div g) * g
  BY <1>1, <1>2, Z3
<1> QED
  BY <1>3 DEF Rows, h, g

\* The glyph's box at the corner of a cell is the cell.
LEMMA BoxIsCell ==
    ASSUME TypeOK, Unpadded, NEW m \in Nat, NEW k \in Nat,
           ssfn_dst = [x |-> m * F, y |-> k * G],
           NEW x \in 0 .. W - 1, NEW y \in 0 .. H - 1
    PROVE  y * W + x \in Box(ssfn_dst) <=> x \div F = m /\ y \div G = k
<1>1. W \in Nat \ {0} /\ H \in Nat \ {0} /\ F \in Nat \ {0} /\ G \in Nat \ {0}
  BY ModeNumbers
<1>2. x \in Nat /\ y \in Nat /\ x < W /\ y < H
  BY <1>1
<1>3. m * F \in Nat /\ k * G \in Nat
  BY <1>1, Times
<1>4. /\ x \div F = m <=> m * F <= x /\ x < m * F + F
      /\ y \div G = k <=> k * G <= y /\ y < k * G + G
  BY <1>1, <1>2, CellOf
<1>5. y * W + x \in Box(ssfn_dst) <=>
         \E i \in {i \in 0 .. F - 1 : m * F + i < W},
            j \in {j \in 0 .. G - 1 : k * G + j < H} :
               y * W + x = (k * G + j) * W + m * F + i
  BY DEF Box, Unpadded, F, G, W, H
<1>6. ASSUME NEW i \in 0 .. F - 1, NEW j \in 0 .. G - 1,
             m * F + i < W, y * W + x = (k * G + j) * W + m * F + i
      PROVE  x = m * F + i /\ y = k * G + j
  <2> DEFINE c == m * F + i  r == k * G + j
  <2>1. c \in Nat /\ r \in Nat /\ c < W
    BY <1>1, <1>3, <1>6
  <2>2. r * W \in Nat /\ y * W \in Nat
    BY <1>1, <1>2, <2>1, Times
  <2>3. y * W + x = r * W + c
    BY <1>1, <1>3, <1>6, <2>2
  <2> HIDE DEF c, r
  <2>4. y = r /\ x = c
    BY <1>1, <1>2, <2>1, <2>3, AddressUnique
  <2> QED
    BY <2>4 DEF c, r
<1>7. ASSUME x \div F = m, y \div G = k
      PROVE  y * W + x \in Box(ssfn_dst)
  <2> DEFINE i == x - m * F  j == y - k * G
  <2>1. i \in 0 .. F - 1 /\ j \in 0 .. G - 1 /\ m * F + i = x /\ k * G + j = y
    BY <1>1, <1>2, <1>3, <1>4, <1>7
  <2>2. y * W \in Nat
    BY <1>1, <1>2, Times
  <2> HIDE DEF i, j
  <2>3. (k * G + j) * W + m * F + i = y * W + x
    <3>1. (k * G + j) * W = y * W
      BY <2>1
    <3> QED
      BY <3>1, <2>1, <2>2, <1>2, <1>3
  <2> QED
    BY <1>2, <1>5, <2>1, <2>3
<1>8. ASSUME y * W + x \in Box(ssfn_dst)
      PROVE  x \div F = m /\ y \div G = k
  <2>1. PICK i \in 0 .. F - 1, j \in 0 .. G - 1 :
           m * F + i < W /\ y * W + x = (k * G + j) * W + m * F + i
    BY <1>5, <1>8
  <2>2. x = m * F + i /\ y = k * G + j
    BY <1>6, <2>1
  <2>3. i \in Nat /\ i < F /\ j \in Nat /\ j < G
    BY <1>1
  <2> QED
    BY <1>1, <1>3, <1>4, <2>2, <2>3
<1> QED
  BY <1>7, <1>8

-----------------------------------------------------------------------------
(***************************************************************************)
(* What drawing and scrolling do to the picture at (x, y).                  *)
(***************************************************************************)
LEMMA AddressOf ==
    ASSUME TypeOK, Unpadded, NEW x \in 0 .. W - 1, NEW y \in 0 .. H - 1
    PROVE  y * W + x \in Addresses
<1>1. W \in Nat \ {0} /\ H \in Nat \ {0}
  BY ModeNumbers
<1>2. x \in Nat /\ y \in Nat /\ x < W /\ y < H
  BY <1>1
<1>3. y * W + x \in 0 .. W * H - 1
  BY <1>1, <1>2, AddressInside
<1> QED
  BY <1>3 DEF Addresses, Unpadded, W, H

LEMMA DrawnAt ==
    ASSUME TypeOK, Unpadded, NEW m \in Nat, NEW k \in Nat,
           ssfn_dst = [x |-> m * F, y |-> k * G],
           NEW px \in Pixels, NEW c,
           NEW x \in 0 .. W - 1, NEW y \in 0 .. H - 1
    PROVE  Drawn(px, c)[y * W + x] =
              IF x \div F = m /\ y \div G = k THEN px[y * W + x] \union {c} ELSE px[y * W + x]
<1>1. y * W + x \in DOMAIN px
  BY AddressOf DEF Pixels
<1>2. y * W + x \in Box(ssfn_dst) <=> x \div F = m /\ y \div G = k
  BY BoxIsCell
<1> DEFINE a == y * W + x
<1>3. a \in DOMAIN px /\ (a \in Box(ssfn_dst) <=> x \div F = m /\ y \div G = k)
  BY <1>1, <1>2
<1> HIDE DEF a
<1>4. Drawn(px, c)[a] =
         IF x \div F = m /\ y \div G = k THEN px[a] \union {c} ELSE px[a]
  BY <1>3 DEF Drawn
<1> QED
  BY <1>4 DEF a

LEMMA ScrolledAt ==
    ASSUME TypeOK, Unpadded, NEW px \in Pixels, NEW x \in 0 .. W - 1, NEW y \in 0 .. H - 1
    PROVE  Scrolled(px)[y * W + x] = IF y + G < H THEN px[(y + G) * W + x] ELSE {}
<1> DEFINE a == y * W + x
           n == W * (H - G)
           src == G * W
           moved == memmove(px, 0, src, n)
<1>1. W \in Nat \ {0} /\ H \in Nat \ {0} /\ G \in Nat \ {0} /\ H >= G
  BY ModeNumbers
<1>2. x \in Nat /\ y \in Nat /\ x < W /\ y < H /\ H - G \in Nat
  BY <1>1
<1>3. a \in DOMAIN px
  BY AddressOf DEF Pixels
<1>4. a \in Nat /\ a < H * W /\ H * W \in Nat
  BY <1>1, <1>2, LinesInOrder
<1>5. /\ y < H - G => a < (H - G) * W
      /\ H - G <= y => (H - G) * W <= a
      /\ (H - G) * W \in Nat
  BY <1>1, <1>2, LinesInOrder
<1>6. n = (H - G) * W /\ src \in Nat
  BY <1>1, <1>2, Z3
<1>7. DOMAIN moved = DOMAIN px
  BY DEF memmove
<1>8. Scrolled(px) = Cleared(moved, H - G)
  BY DEF Scrolled, Unpadded, W, H, G
<1>9. Scrolled(px)[a] = IF a \in (H - G) * W .. H * W - 1 THEN {} ELSE moved[a]
  BY <1>3, <1>7, <1>8 DEF Cleared, COLORS_BG, W, H
<1>10. CASE H - G <= y
  <2>1. a \in (H - G) * W .. H * W - 1
    BY <1>4, <1>5, <1>10
  <2>2. ~(y + G < H)
    BY <1>1, <1>2, <1>10
  <2> QED
    BY <1>9, <2>1, <2>2
<1>11. CASE y < H - G
  <2>1. a \notin (H - G) * W .. H * W - 1
    BY <1>4, <1>5, <1>11
  <2>2. a \in 0 .. 0 + n - 1
    BY <1>4, <1>5, <1>6, <1>11
  <2>3. moved[a] = px[src + a - 0]
    BY <1>3, <2>2 DEF memmove
  <2>4. (y + G) * W = y * W + src /\ y * W \in Nat
    BY <1>1, <1>2, Z3
  <2>5. src + a - 0 = (y + G) * W + x
    BY <2>4, <1>2, <1>6
  <2>6. y + G < H
    BY <1>1, <1>2, <1>11
  <2> QED
    BY <1>9, <2>1, <2>3, <2>5, <2>6
<1> QED
  BY <1>1, <1>2, <1>10, <1>11

-----------------------------------------------------------------------------
(***************************************************************************)
(* What writing does to the paper.                                         *)
(***************************************************************************)
Write(sheet, c) == [sheet EXCEPT ![Len(sheet)] = Append(sheet[Len(sheet)], c)]
Feed(sheet) == Append(sheet, << >>)

LEMMA Written ==
    ASSUME NEW sheet \in Sheets, Len(sheet) >= 1, NEW c \in Glyphs
    PROVE  /\ Write(sheet, c) \in Sheets
           /\ Len(Write(sheet, c)) = Len(sheet)
           /\ Len(sheet[Len(sheet)]) \in Nat
           /\ Len(Write(sheet, c)[Len(sheet)]) = Len(sheet[Len(sheet)]) + 1
           /\ InkOf(sheet, Len(sheet), Len(sheet[Len(sheet)]) + 1) = {}
           /\ \A row, column \in Nat :
                 InkOf(Write(sheet, c), row, column) =
                    IF row = Len(sheet) /\ column = Len(sheet[Len(sheet)]) + 1
                    THEN {c} ELSE InkOf(sheet, row, column)
<1> DEFINE n == Len(sheet)  last == sheet[n]  longer == Append(last, c)
<1>1. n \in Nat \ {0} /\ n \in 1 .. n /\ DOMAIN sheet = 1 .. n
  BY DEF Sheets
<1>2. last \in Seq(Glyphs)
  BY <1>1 DEF Sheets
<1>3. /\ longer \in Seq(Glyphs) /\ Len(longer) = Len(last) + 1 /\ Len(last) \in Nat
      /\ DOMAIN last = 1 .. Len(last) /\ DOMAIN longer = 1 .. Len(last) + 1
      /\ \A i \in 1 .. Len(last) : longer[i] = last[i]
      /\ longer[Len(last) + 1] = c
  BY <1>2
<1>4. Write(sheet, c) = [sheet EXCEPT ![n] = longer]
  BY DEF Write
<1> HIDE DEF longer
<1>5. /\ Write(sheet, c) \in Sheets /\ Len(Write(sheet, c)) = n
      /\ DOMAIN Write(sheet, c) = DOMAIN sheet
  BY <1>1, <1>3, <1>4 DEF Sheets
<1>6. /\ Write(sheet, c)[n] = longer
      /\ \A row \in DOMAIN sheet : row # n => Write(sheet, c)[row] = sheet[row]
  BY <1>1, <1>4
<1>7. Len(last) + 1 \notin DOMAIN last
  BY <1>3
<1>8. InkOf(sheet, n, Len(last) + 1) = {}
  BY <1>7 DEF InkOf
<1>9. ASSUME NEW row \in Nat, NEW column \in Nat
      PROVE  InkOf(Write(sheet, c), row, column) =
                IF row = n /\ column = Len(last) + 1 THEN {c} ELSE InkOf(sheet, row, column)
  <2>1. CASE row = n
    <3>1. InkOf(Write(sheet, c), row, column) =
             IF column \in DOMAIN longer THEN {longer[column]} ELSE {}
      BY <1>1, <1>5, <1>6, <2>1 DEF InkOf
    <3>2. InkOf(sheet, row, column) = IF column \in DOMAIN last THEN {last[column]} ELSE {}
      BY <1>1, <2>1 DEF InkOf
    <3>3. CASE column = Len(last) + 1
      BY <1>3, <2>1, <3>1, <3>3
    <3>4. CASE column # Len(last) + 1
      <4>1. column \in DOMAIN longer <=> column \in DOMAIN last
        BY <1>3, <3>4
      <4>2. column \in DOMAIN last => longer[column] = last[column]
        BY <1>3
      <4> QED
        BY <3>1, <3>2, <3>4, <4>1, <4>2
    <3> QED
      BY <3>3, <3>4
  <2>2. CASE row # n
    <3>1. row \in DOMAIN sheet => Write(sheet, c)[row] = sheet[row]
      BY <1>6, <2>2
    <3>2. row \in DOMAIN Write(sheet, c) <=> row \in DOMAIN sheet
      BY <1>5
    <3> HIDE DEF Write
    <3> QED
      BY <2>2, <3>1, <3>2 DEF InkOf
  <2> QED
    BY <2>1, <2>2
<1> QED
  BY <1>3, <1>5, <1>6, <1>8, <1>9

LEMMA Fed ==
    ASSUME NEW sheet \in Sheets
    PROVE  /\ Feed(sheet) \in Sheets
           /\ Len(Feed(sheet)) = Len(sheet) + 1
           /\ Len(Feed(sheet)[Len(Feed(sheet))]) = 0
           /\ \A row, column \in Nat : InkOf(Feed(sheet), row, column) = InkOf(sheet, row, column)
<1> DEFINE n == Len(sheet)
<1>1. n \in Nat /\ DOMAIN sheet = 1 .. n
  BY DEF Sheets
<1>2. << >> \in Seq(Glyphs) /\ Len(<< >>) = 0 /\ DOMAIN << >> = {}
  OBVIOUS
<1>3. /\ Feed(sheet) \in Sheets /\ Len(Feed(sheet)) = n + 1
      /\ DOMAIN Feed(sheet) = 1 .. n + 1
      /\ Feed(sheet)[n + 1] = << >>
      /\ \A row \in 1 .. n : Feed(sheet)[row] = sheet[row]
  BY <1>1, <1>2 DEF Feed, Sheets
<1>4. ASSUME NEW row \in Nat, NEW column \in Nat
      PROVE  InkOf(Feed(sheet), row, column) = InkOf(sheet, row, column)
  <2>1. CASE row = n + 1
    <3>1. row \notin DOMAIN sheet
      BY <1>1, <2>1
    <3>2. column \notin DOMAIN Feed(sheet)[row]
      BY <1>2, <1>3, <2>1
    <3> QED
      BY <3>1, <3>2 DEF InkOf
  <2>2. CASE row # n + 1
    <3>1. row \in DOMAIN Feed(sheet) <=> row \in DOMAIN sheet
      BY <1>1, <1>3, <2>2
    <3>2. row \in DOMAIN sheet => Feed(sheet)[row] = sheet[row]
      BY <1>1, <1>3
    <3> QED
      BY <3>1, <3>2 DEF InkOf
  <2> QED
    BY <2>1, <2>2
<1> QED
  BY <1>2, <1>3, <1>4

-----------------------------------------------------------------------------
(***************************************************************************)
(* The rows of the screen and those of the paper.                          *)
(***************************************************************************)
\* The pen's row on the screen, k, counts from 0 and is the last one exactly
\* when the next row is off the screen; then a new row moves the first one.
LEMMA PenRow ==
    ASSUME TypeOK, Regular, NEW n \in Nat \ {0}, NEW first,
           first = IF n <= Rows THEN 1 ELSE n - Rows + 1
    PROVE  /\ first \in Nat \ {0} /\ n - first \in Nat /\ n - first < Rows
           /\ (n - first) * G \in Nat
           /\ (n - first) * G + G = H <=> n - first + 1 = Rows
           /\ (n - first) * G + G < H <=> n - first + 1 < Rows
           /\ (n - first) * G < H
           /\ n - first + 1 < Rows => first = 1 /\ n + 1 <= Rows
           /\ n - first + 1 = Rows => ~(n + 1 <= Rows) /\ n + 1 - Rows + 1 = first + 1
<1>1. Rows \in Nat \ {0} /\ H = Rows * G /\ G \in Nat \ {0}
  BY ModeNumbers, RowNumbers DEF Regular
<1> DEFINE k == n - first
<1>2. first \in Nat \ {0} /\ k \in Nat /\ k < Rows
  BY <1>1
<1>3. /\ k + 1 < Rows => first = 1 /\ n + 1 <= Rows
      /\ k + 1 = Rows => ~(n + 1 <= Rows) /\ n + 1 - Rows + 1 = first + 1
  BY <1>1
<1> DEFINE r == Rows  g == G  h == H
<1>4. r \in Nat \ {0} /\ h = r * g /\ g \in Nat \ {0} /\ k \in Nat /\ k < r
  BY <1>1, <1>2
<1> HIDE DEF k, r, g, h
<1>5. k * g \in Nat /\ k * g + g = (k + 1) * g
  BY <1>4, Z3
<1>6. k + 1 < r => (k + 1) * g < h
  <2>1. \A a \in Nat : k + 1 + a + 1 = r => r * g = (k + 1) * g + a * g + g /\ a * g \in Nat
    BY <1>4, Z3
  <2>2. k + 1 < r => r - k - 2 \in Nat /\ k + 1 + (r - k - 2) + 1 = r
    BY <1>4
  <2> QED
    BY <1>4, <1>5, <2>1, <2>2
<1>7. k + 1 = r => (k + 1) * g = h
  BY <1>4
<1>8. k + 1 < r \/ k + 1 = r
  BY <1>4
<1>9. /\ k * g + g = h <=> k + 1 = r
      /\ k * g + g < h <=> k + 1 < r
      /\ k * g < h
  BY <1>4, <1>5, <1>6, <1>7, <1>8
<1> QED
  BY <1>2, <1>3, <1>5, <1>9 DEF k, r, g, h

\* The numbers of a pixel on the screen.
LEMMA PixelNumbers ==
    ASSUME TypeOK, Regular, NEW x \in 0 .. W - 1, NEW y \in 0 .. H - 1
    PROVE  /\ x \in Nat /\ y \in Nat /\ y < H /\ x < W
           /\ x \div F \in Nat /\ y \div G \in Nat
           /\ y + G < H => y + G \in 0 .. H - 1 /\ (y + G) \div G = y \div G + 1
           /\ ~(y + G < H) => y \div G + 1 = Rows
<1>1. W \in Nat \ {0} /\ H \in Nat \ {0} /\ F \in Nat \ {0} /\ G \in Nat \ {0} /\ H >= G
  BY ModeNumbers
<1>2. Rows \in Nat \ {0} /\ H = Rows * G
  BY RowNumbers DEF Regular
<1>3. x \in Nat /\ y \in Nat /\ y < H /\ x < W
  BY <1>1
<1> DEFINE r == Rows  g == G  h == H  f == F  q == y \div g
<1>4. r \in Nat \ {0} /\ h = r * g /\ g \in Nat \ {0} /\ f \in Nat \ {0} /\ h \in Nat
  BY <1>1, <1>2
<1> HIDE DEF r, g, h, f
<1>5. x \div f \in Nat /\ q \in Nat
  BY <1>3, <1>4, Z3
<1>6. q * g <= y /\ y < q * g + g /\ q * g \in Nat
  BY <1>3, <1>4, <1>5, CellOf, Times
<1>7. (y + g) \div g = q + 1
  <2>1. (q + 1) * g = q * g + g
    BY <1>4, <1>5, Z3
  <2>2. (q + 1) * g <= y + g /\ y + g < (q + 1) * g + g /\ y + g \in Nat /\ q + 1 \in Nat
    BY <1>3, <1>4, <1>5, <1>6, <2>1
  <2> HIDE DEF q
  <2> QED
    BY <1>4, <2>2, CellOf
<1>8. ~(y + g < h) => q + 1 = r
  <2>1. (r - 1) * g = h - g /\ r - 1 \in Nat
    BY <1>4, Z3
  <2>2. ~(y + g < h) => (r - 1) * g <= y /\ y < (r - 1) * g + g
    BY <1>3, <1>4, <2>1 DEF h
  <2>3. ~(y + g < h) => y \div g = r - 1
    BY <1>3, <1>4, <2>1, <2>2, CellOf
  <2> QED
    BY <1>4, <2>3
<1>9. y + g < h => y + g \in 0 .. h - 1
  BY <1>3, <1>4
<1> QED
  BY <1>3, <1>5, <1>7, <1>8, <1>9 DEF r, g, h, f

-----------------------------------------------------------------------------
(***************************************************************************)
(* The steps.                                                              *)
(***************************************************************************)
\* Where the pen is, as long as the screen shows the paper.
Here ==
    /\ TypeOK /\ Regular /\ Showing
    /\ paper \in Sheets /\ Len(paper) >= 1

Last == Len(paper)      \* the row of the paper being written
Top == First(paper)     \* the one that the screen's first row shows
Column == Len(Row)      \* and the pen, in cells
Line == Last - Top

LEMMA HereFacts ==
    ASSUME Here
    PROVE  /\ Last \in Nat \ {0} /\ Top \in Nat \ {0} /\ Column \in Nat /\ Line \in Nat /\ Line < Rows
           /\ ssfn_dst = [x |-> Column * F, y |-> Line * G]
           /\ Column * F \in Nat /\ Line * G \in Nat
           /\ Line * G + G = H <=> Line + 1 = Rows
           /\ Line * G + G < H <=> Line + 1 < Rows
           /\ Line * G < H
           /\ Line + 1 < Rows => Top = 1 /\ Last + 1 <= Rows
           /\ Line + 1 = Rows => ~(Last + 1 <= Rows) /\ Last + 1 - Rows + 1 = Top + 1
           /\ NextRow = [x |-> 0, y |-> Line * G + G]
           /\ pixels \in Pixels
<1>1. Last \in Nat \ {0} /\ DOMAIN paper = 1 .. Last
  BY DEF Here, Sheets, Last
<1>2. Row \in Seq(Glyphs)
  BY <1>1 DEF Here, Sheets, Row, Last
<1>3. Column \in Nat
  BY <1>2 DEF Column
<1>4. Top = IF Last <= Rows THEN 1 ELSE Last - Rows + 1
  BY DEF Top, First, Last
<1>5. ssfn_dst = [x |-> Column * F, y |-> Line * G]
  BY DEF Here, Showing, Shows, Column, Line, Last, Top, Row
<1>6. F \in Nat \ {0} /\ G \in Nat \ {0}
  BY ModeNumbers DEF Here
<1>7. Column * F \in Nat
  BY <1>3, <1>6, Times
<1>8. NextRow = [x |-> 0, y |-> Line * G + G]
  BY <1>5 DEF NextRow, G
<1>9. pixels \in Pixels
  BY DEF Here, TypeOK, Pixels, Ink
<1> HIDE DEF Last, Top, Column
<1>10. TypeOK /\ Regular
  BY DEF Here
<1>11. /\ Top \in Nat \ {0} /\ Last - Top \in Nat /\ Last - Top < Rows
       /\ (Last - Top) * G \in Nat
       /\ (Last - Top) * G + G = H <=> Last - Top + 1 = Rows
       /\ (Last - Top) * G + G < H <=> Last - Top + 1 < Rows
       /\ (Last - Top) * G < H
       /\ Last - Top + 1 < Rows => Top = 1 /\ Last + 1 <= Rows
       /\ Last - Top + 1 = Rows => ~(Last + 1 <= Rows) /\ Last + 1 - Rows + 1 = Top + 1
  BY <1>1, <1>4, <1>10, PenRow
<1> QED
  BY <1>1, <1>3, <1>5, <1>7, <1>8, <1>9, <1>11 DEF Line

LEMMA HereDrawn ==
    ASSUME Here, NEW c, NEW x \in 0 .. W - 1, NEW y \in 0 .. H - 1
    PROVE  Drawn(pixels, c)[y * W + x] =
              IF x \div F = Column /\ y \div G = Line
              THEN pixels[y * W + x] \union {c} ELSE pixels[y * W + x]
<1>1. /\ Column \in Nat /\ Line \in Nat /\ pixels \in Pixels
      /\ ssfn_dst = [x |-> Column * F, y |-> Line * G]
  BY HereFacts
<1>2. TypeOK /\ Unpadded
  BY DEF Here, Regular
<1>3. \A kk, mm \in Nat :
         ssfn_dst = [x |-> mm * F, y |-> kk * G] =>
         Drawn(pixels, c)[y * W + x] =
            IF x \div F = mm /\ y \div G = kk
            THEN pixels[y * W + x] \union {c} ELSE pixels[y * W + x]
  BY <1>1, <1>2, DrawnAt
<1> QED
  BY <1>1, <1>3

\* At the start of a row.
LEMMA PenOf ==
    ASSUME NEW sheet \in Sheets, NEW l, Len(sheet) = l, Len(sheet[Len(sheet)]) = 0,
           NEW f, NEW pen, pen = [x |-> 0 * F, y |-> (l - f) * G]
    PROVE  pen = [x |-> Len(sheet[Len(sheet)]) * F, y |-> (Len(sheet) - f) * G]
OBVIOUS

\* What is to be shown of a step: the new picture and pen show the new paper.
LEMMA PutGlyphShows ==
    ASSUME Here, NEW c \in Glyphs, PutGlyph(c)
    PROVE  Shows(pixels', ssfn_dst', paper', First(paper'))
<1> DEFINE sheet == Write(paper, c)
<1>1. /\ Last \in Nat \ {0} /\ Top \in Nat \ {0} /\ Column \in Nat /\ Line \in Nat
      /\ ssfn_dst = [x |-> Column * F, y |-> Line * G]
      /\ Line * G < H /\ Line = Last - Top
      /\ pixels \in Pixels
      /\ Column * F \in Nat /\ Line * G \in Nat
  BY HereFacts DEF Line
<1>2. TypeOK /\ Unpadded /\ Regular
  BY DEF Here, Regular
<1>3. F \in Nat \ {0} /\ H \in Nat
  BY <1>2, ModeNumbers
<1>4. paper' = sheet
  BY DEF PutGlyph, Write, Row
<1>5. /\ Len(sheet) = Last /\ Len(sheet[Last]) = Column + 1
      /\ InkOf(paper, Last, Column + 1) = {}
      /\ \A row, column \in Nat :
            InkOf(sheet, row, column) =
               IF row = Last /\ column = Column + 1 THEN {c} ELSE InkOf(paper, row, column)
  BY Written DEF Here, Last, Column, Row
<1>6. First(sheet) = Top
  BY <1>5 DEF First, Top, Last
<1>7. [ssfn_dst EXCEPT !.x = @ + GLYPH_WIDTH] = [x |-> Column * F + F, y |-> Line * G]
  BY <1>1 DEF F
<1>8. pixels' = Drawn(pixels, c) /\ ssfn_dst' = [x |-> Column * F + F, y |-> Line * G]
  <2>1. ~(Line * G >= framebuffer.height)
    BY <1>1, <1>3 DEF H
  <2>2. Finish([x |-> Column * F + F, y |-> Line * G], Drawn(pixels, c))
    BY <1>7 DEF PutGlyph
  <2> QED
    BY <2>1, <2>2 DEF Finish
<1>9. ssfn_dst' = [x |-> (Column + 1) * F, y |-> (Last - Top) * G]
  <2>1. (Column + 1) * F = Column * F + F
    BY <1>1, <1>3, Z3
  <2> QED
    BY <1>1, <1>8, <2>1
<1> HIDE DEF sheet
<1>10. ASSUME NEW x \in 0 .. W - 1, NEW y \in 0 .. H - 1
       PROVE  pixels'[y * W + x] = InkOf(sheet, Top + y \div G, x \div F + 1)
  <2> DEFINE q == y \div G  p == x \div F
  <2>1. q \in Nat /\ p \in Nat
    BY <1>2, PixelNumbers
  <2>2. pixels'[y * W + x] =
           IF p = Column /\ q = Line THEN pixels[y * W + x] \union {c} ELSE pixels[y * W + x]
    BY <1>8, HereDrawn
  <2>3. pixels[y * W + x] = InkOf(paper, Top + q, p + 1)
    BY DEF Here, Showing, Shows, Top
  <2> HIDE DEF q, p
  <2>4. Top + q \in Nat /\ p + 1 \in Nat
    BY <1>1, <2>1
  <2>5. p = Column /\ q = Line <=> Top + q = Last /\ p + 1 = Column + 1
    BY <1>1, <2>1
  <2>6. CASE p = Column /\ q = Line
    BY <1>5, <2>2, <2>3, <2>4, <2>5, <2>6 DEF q, p
  <2>7. CASE ~(p = Column /\ q = Line)
    <3>1. InkOf(sheet, Top + q, p + 1) = InkOf(paper, Top + q, p + 1)
      BY <1>5, <2>4, <2>5, <2>7
    <3>2. pixels'[y * W + x] = pixels[y * W + x]
      BY <2>2, <2>7
    <3> QED
      BY <2>3, <3>1, <3>2 DEF q, p
  <2> QED
    BY <2>6, <2>7
<1> QED
  BY <1>4, <1>5, <1>6, <1>9, <1>10 DEF Shows

\* A row is filled and it is not the last one on the screen.
LEMMA PutLastGlyphShows ==
    ASSUME Here, NEW c \in Glyphs, PutLastGlyph(c), NextRow.y # framebuffer.height
    PROVE  Shows(pixels', ssfn_dst', paper', First(paper'))
<1> DEFINE sheet == Write(paper, c)  fed == Feed(sheet)
<1>1. /\ Last \in Nat \ {0} /\ Top \in Nat \ {0} /\ Column \in Nat /\ Line \in Nat
      /\ Line = Last - Top /\ Line < Rows
      /\ ssfn_dst = [x |-> Column * F, y |-> Line * G]
      /\ Line * G \in Nat /\ pixels \in Pixels
      /\ NextRow = [x |-> 0, y |-> Line * G + G]
  BY HereFacts DEF Line
<1>2. TypeOK /\ Unpadded /\ Regular
  BY DEF Here, Regular
<1>3. F \in Nat \ {0} /\ H \in Nat /\ G \in Nat \ {0} /\ Rows \in Nat \ {0}
  BY <1>2, ModeNumbers, RowNumbers DEF Regular
<1>4. Line * G + G # H
  BY <1>1 DEF H
<1>5. Line + 1 < Rows /\ Line * G + G < H /\ Top = 1 /\ Last + 1 <= Rows
  BY <1>1, <1>3, <1>4, HereFacts
<1>6. paper' = fed
  BY DEF PutLastGlyph, Write, Row, Feed
<1>7. /\ Len(sheet) = Last /\ sheet \in Sheets
      /\ InkOf(paper, Last, Column + 1) = {}
      /\ \A row, column \in Nat :
            InkOf(sheet, row, column) =
               IF row = Last /\ column = Column + 1 THEN {c} ELSE InkOf(paper, row, column)
  BY Written DEF Here, Last, Column, Row
<1> HIDE DEF sheet
<1>8. /\ fed \in Sheets /\ Len(fed) = Last + 1 /\ Len(fed[Len(fed)]) = 0
      /\ \A row, column \in Nat : InkOf(fed, row, column) = InkOf(sheet, row, column)
  BY <1>7, Fed
<1>9. First(fed) = Top
  BY <1>5, <1>8 DEF First
<1> HIDE DEF fed
<1>10. pixels' = Drawn(pixels, c) /\ ssfn_dst' = [x |-> 0, y |-> Line * G + G]
  <2>1. ~(Line * G + G >= framebuffer.height)
    BY <1>1, <1>3, <1>5 DEF H
  <2>2. Finish([x |-> 0, y |-> Line * G + G], Drawn(pixels, c))
    BY <1>1 DEF PutLastGlyph
  <2> QED
    BY <2>1, <2>2 DEF Finish
<1>11. ssfn_dst' = [x |-> 0 * F, y |-> (Last + 1 - Top) * G]
  <2>1. (Line + 1) * G = Line * G + G /\ 0 * F = 0
    BY <1>1, <1>3, Z3
  <2>2. Last + 1 - Top = Line + 1
    BY <1>1
  <2> QED
    BY <1>10, <2>1, <2>2
<1>12. ASSUME NEW x \in 0 .. W - 1, NEW y \in 0 .. H - 1
       PROVE  pixels'[y * W + x] = InkOf(fed, Top + y \div G, x \div F + 1)
  <2> DEFINE q == y \div G  p == x \div F
  <2>1. q \in Nat /\ p \in Nat
    BY <1>2, PixelNumbers
  <2>2. pixels'[y * W + x] =
           IF p = Column /\ q = Line THEN pixels[y * W + x] \union {c} ELSE pixels[y * W + x]
    <3>1. Drawn(pixels, c)[y * W + x] =
             IF p = Column /\ q = Line THEN pixels[y * W + x] \union {c} ELSE pixels[y * W + x]
      BY HereDrawn
    <3> QED
      BY <1>10, <3>1
  <2>3. pixels[y * W + x] = InkOf(paper, Top + q, p + 1)
    BY DEF Here, Showing, Shows, Top
  <2> HIDE DEF q, p
  <2>4. Top + q \in Nat /\ p + 1 \in Nat
    BY <1>1, <2>1
  <2>5. p = Column /\ q = Line <=> Top + q = Last /\ p + 1 = Column + 1
    BY <1>1, <2>1
  <2>6. InkOf(fed, Top + q, p + 1) = InkOf(sheet, Top + q, p + 1)
    BY <1>8, <2>4
  <2>7. CASE p = Column /\ q = Line
    BY <1>7, <2>2, <2>3, <2>4, <2>5, <2>6, <2>7 DEF q, p
  <2>8. CASE ~(p = Column /\ q = Line)
    <3>1. InkOf(sheet, Top + q, p + 1) = InkOf(paper, Top + q, p + 1)
      BY <1>7, <2>4, <2>5, <2>8
    <3>2. pixels'[y * W + x] = pixels[y * W + x]
      BY <2>2, <2>8
    <3> QED
      BY <2>3, <2>6, <3>1, <3>2 DEF q, p
  <2> QED
    BY <2>7, <2>8
<1>13. ssfn_dst' = [x |-> Len(fed[Len(fed)]) * F, y |-> (Len(fed) - First(fed)) * G]
  BY <1>1, <1>8, <1>9, <1>11, PenOf
<1> QED
  BY <1>6, <1>9, <1>12, <1>13 DEF Shows

\* A new line, with a scroll on the last row and without one above it.
LEMMA NewLineShows ==
    ASSUME Here, NewLine
    PROVE  Shows(pixels', ssfn_dst', paper', First(paper'))
<1> DEFINE fed == Feed(paper)
<1>1. /\ Last \in Nat \ {0} /\ Top \in Nat \ {0} /\ Line \in Nat
      /\ Line = Last - Top /\ Line < Rows
      /\ Line * G \in Nat /\ pixels \in Pixels
      /\ NextRow = [x |-> 0, y |-> Line * G + G]
  BY HereFacts DEF Line
<1>2. TypeOK /\ Unpadded /\ Regular
  BY DEF Here, Regular
<1>3. /\ F \in Nat \ {0} /\ H \in Nat /\ G \in Nat \ {0} /\ Rows \in Nat \ {0}
      /\ W \in Nat \ {0}
  BY <1>2, ModeNumbers, RowNumbers DEF Regular
<1>4. paper' = fed
  BY DEF NewLine, Feed
<1>5. /\ fed \in Sheets /\ Len(fed) = Last + 1 /\ Len(fed[Len(fed)]) = 0
      /\ \A row, column \in Nat : InkOf(fed, row, column) = InkOf(paper, row, column)
  BY Fed DEF Here, Last
<1>6. Finish([x |-> 0, y |-> Line * G + G], pixels)
  BY <1>1 DEF NewLine
<1>7. 0 * F = 0 /\ (Line + 1) * G = Line * G + G
  BY <1>1, <1>3, Z3
<1> HIDE DEF fed
<1>8. First(fed) = IF Last + 1 <= Rows THEN 1 ELSE Last + 1 - Rows + 1
  <2>1. Last + 1 \in Nat
    BY <1>1
  <2>2. \A l \in Nat : Len(fed) = l => First(fed) = IF l <= Rows THEN 1 ELSE l - Rows + 1
    BY DEF First
  <2> QED
    BY <1>1, <1>3, <1>5, <2>1, <2>2
<1>9. CASE Line + 1 < Rows
  <2>1. Line * G + G < H /\ Top = 1 /\ Last + 1 <= Rows
    BY <1>9, HereFacts
  <2>2. pixels' = pixels /\ ssfn_dst' = [x |-> 0, y |-> Line * G + G]
    <3>1. ~(Line * G + G >= framebuffer.height)
      BY <1>1, <1>3, <2>1 DEF H
    <3> QED
      BY <1>6, <3>1 DEF Finish
  <2>3. First(fed) = Top
    BY <1>8, <2>1
  <2>4. ssfn_dst' = [x |-> 0 * F, y |-> (Last + 1 - Top) * G]
    <3>1. Last + 1 - Top = Line + 1
      BY <1>1
    <3> QED
      BY <1>7, <2>2, <3>1
  <2>5. ASSUME NEW x \in 0 .. W - 1, NEW y \in 0 .. H - 1
        PROVE  pixels'[y * W + x] = InkOf(fed, Top + y \div G, x \div F + 1)
    <3>1. Top + y \div G \in Nat /\ x \div F + 1 \in Nat
      BY <1>1, <1>2, PixelNumbers
    <3>2. pixels[y * W + x] = InkOf(paper, Top + y \div G, x \div F + 1)
      BY DEF Here, Showing, Shows, Top
    <3> QED
      BY <1>5, <2>2, <3>1, <3>2
  <2>6. ssfn_dst' = [x |-> Len(fed[Len(fed)]) * F, y |-> (Len(fed) - First(fed)) * G]
    BY <1>1, <1>5, <2>3, <2>4, PenOf
  <2> QED
    BY <1>4, <2>3, <2>5, <2>6 DEF Shows
<1>10. CASE Line + 1 = Rows
  <2>1. Line * G + G = H /\ First(fed) = Top + 1
    BY <1>8, <1>10, HereFacts
  <2>2. pixels' = Scrolled(pixels) /\ ssfn_dst' = [x |-> 0, y |-> H - G]
    <3>1. Line * G + G >= framebuffer.height
      BY <1>1, <1>3, <2>1 DEF H
    <3> QED
      BY <1>6, <3>1 DEF Finish, LastRow, H, G
  <2>3. ssfn_dst' = [x |-> 0 * F, y |-> (Last + 1 - (Top + 1)) * G]
    <3>1. Last + 1 - (Top + 1) = Line /\ H - G = Line * G
      BY <1>1, <1>3, <2>1
    <3> QED
      BY <1>7, <2>2, <3>1
  <2>4. ASSUME NEW x \in 0 .. W - 1, NEW y \in 0 .. H - 1
        PROVE  pixels'[y * W + x] = InkOf(fed, Top + 1 + y \div G, x \div F + 1)
    <3> DEFINE q == y \div G  p == x \div F
    <3>1. q \in Nat /\ p \in Nat /\ y \in Nat
      BY <1>2, PixelNumbers
    <3>2. pixels'[y * W + x] = IF y + G < H THEN pixels[(y + G) * W + x] ELSE {}
      BY <1>1, <1>2, <2>2, ScrolledAt
    <3>3. InkOf(fed, Top + 1 + q, p + 1) = InkOf(paper, Top + 1 + q, p + 1)
      <4> HIDE DEF q, p
      <4> QED
        BY <1>1, <1>5, <3>1
    <3>4. CASE y + G < H
      <4>1. y + G \in 0 .. H - 1 /\ (y + G) \div G = q + 1
        BY <1>2, <3>4, PixelNumbers
      <4>2. pixels[(y + G) * W + x] = InkOf(paper, Top + (y + G) \div G, p + 1)
        <5> DEFINE z == y + G
        <5>1. z \in 0 .. H - 1
          BY <4>1
        <5> HIDE DEF z
        <5>2. pixels[z * W + x] = InkOf(paper, Top + z \div G, p + 1)
          BY <5>1 DEF Here, Showing, Shows, Top
        <5> QED
          BY <5>2 DEF z
      <4> HIDE DEF q, p
      <4>3. Top + (q + 1) = Top + 1 + q
        BY <1>1, <3>1
      <4> QED
        BY <3>2, <3>3, <3>4, <4>1, <4>2, <4>3 DEF q, p
    <3>5. CASE ~(y + G < H)
      <4>1. q + 1 = Rows
        BY <1>2, <3>5, PixelNumbers
      <4> HIDE DEF q, p
      <4>2. Top + 1 + q = Last + 1
        BY <1>1, <1>10, <3>1, <4>1
      <4>3. Top + 1 + q \notin DOMAIN paper
        BY <1>1, <4>2 DEF Here, Sheets, Last
      <4>4. InkOf(paper, Top + 1 + q, p + 1) = {}
        BY <4>3 DEF InkOf
      <4> QED
        BY <3>2, <3>3, <3>5, <4>4 DEF q, p
    <3> QED
      BY <3>4, <3>5
  <2>5. ssfn_dst' = [x |-> Len(fed[Len(fed)]) * F, y |-> (Len(fed) - First(fed)) * G]
    BY <1>1, <1>5, <2>1, <2>3, PenOf
  <2> QED
    BY <1>4, <2>1, <2>4, <2>5 DEF Shows
<1> QED
  BY <1>1, <1>3, <1>9, <1>10

-----------------------------------------------------------------------------
(***************************************************************************)
(* The invariant.                                                          *)
(***************************************************************************)
LEMMA ScreenInit == Init => SInv
<1> SUFFICES ASSUME Init
             PROVE  SInv
  OBVIOUS
<1>1. TypeOK
  BY TypeInit
<1>2. /\ paper = << << >> >> /\ paper \in Sheets /\ Len(paper) = 1
      /\ Len(paper[Len(paper)]) = 0
      /\ DOMAIN paper = {1} /\ DOMAIN paper[1] = {}
  BY DEF Init, Sheets
<1>3. ASSUME Regular
      PROVE  Showing
  <2>1. /\ W \in Nat \ {0} /\ H \in Nat \ {0} /\ F \in Nat \ {0} /\ G \in Nat \ {0}
        /\ Rows \in Nat \ {0} /\ Unpadded
    BY <1>1, <1>3, ModeNumbers, RowNumbers DEF Regular
  <2>2. First(paper) = 1
    BY <1>2, <2>1 DEF First
  <2>3. 0 * F = 0 /\ (1 - 1) * G = 0
    BY <2>1, Z3
  <2>4. ssfn_dst = [x |-> Len(paper[Len(paper)]) * F, y |-> (Len(paper) - 1) * G]
    BY <1>2, <2>3 DEF Init
  <2>5. ASSUME NEW x \in 0 .. W - 1, NEW y \in 0 .. H - 1
        PROVE  pixels[y * W + x] = InkOf(paper, 1 + y \div G, x \div F + 1)
    <3> DEFINE a == y * W + x
    <3>1. a \in Addresses
      BY <1>1, <2>1, AddressOf
    <3>2. x \in Nat /\ y \in Nat /\ x < W /\ y < H
      BY <2>1
    <3>3. a \in Nat /\ a < H * W /\ H * W \in Nat
      BY <2>1, <3>2, LinesInOrder
    <3>4. 0 * W = 0
      BY <2>1, Z3
    <3>5. a \in 0 * W .. H * W - 1
      BY <3>3, <3>4
    <3> HIDE DEF a
    <3>6. pixels[a] = {}
      BY <3>1, <3>5 DEF Init, Cleared, COLORS_BG, W, H
    <3>7. InkOf(paper, 1 + y \div G, x \div F + 1) = {}
      BY <1>2 DEF InkOf
    <3> QED
      BY <3>6, <3>7 DEF a
  <2> QED
    BY <2>2, <2>4, <2>5 DEF Showing, Shows
<1> QED
  BY <1>1, <1>2, <1>3 DEF SInv

\* What is written stays a sheet.
LEMMA PaperStep ==
    ASSUME paper \in Sheets, Len(paper) >= 1, [Next]_vars
    PROVE  paper' \in Sheets /\ Len(paper') >= 1 /\ framebuffer' = framebuffer
<1>1. Len(paper) \in Nat
  BY DEF Sheets
<1>2. CASE NewLine
  <2>1. paper' = Feed(paper) /\ framebuffer' = framebuffer
    BY <1>2 DEF NewLine, Feed
  <2> QED
    BY <1>1, <2>1, Fed
<1>3. ASSUME NEW c \in Glyphs, PutGlyph(c)
      PROVE  paper' \in Sheets /\ Len(paper') >= 1 /\ framebuffer' = framebuffer
  <2>1. paper' = Write(paper, c) /\ framebuffer' = framebuffer
    BY <1>3 DEF PutGlyph, Write, Row
  <2> QED
    BY <1>1, <2>1, Written
<1>4. ASSUME NEW c \in Glyphs, PutLastGlyph(c)
      PROVE  paper' \in Sheets /\ Len(paper') >= 1 /\ framebuffer' = framebuffer
  <2>1. paper' = Feed(Write(paper, c)) /\ framebuffer' = framebuffer
    BY <1>4 DEF PutLastGlyph, Write, Row, Feed
  <2>2. Write(paper, c) \in Sheets /\ Len(Write(paper, c)) = Len(paper)
    BY Written
  <2> HIDE DEF Write
  <2>3. Feed(Write(paper, c)) \in Sheets /\ Len(Feed(Write(paper, c))) = Len(paper) + 1
    BY <2>2, Fed
  <2> QED
    BY <1>1, <2>1, <2>3
<1>5. ASSUME NEW c \in Others, PutOther(c)
      PROVE  paper' \in Sheets /\ Len(paper') >= 1 /\ framebuffer' = framebuffer
  BY <1>5 DEF PutOther
<1>6. CASE UNCHANGED vars
  BY <1>6 DEF vars
<1> QED
  BY <1>2, <1>3, <1>4, <1>5, <1>6 DEF Next

\* Every step of which the pen does not return to the first row leaves the
\* screen showing the paper.
LEMMA ShowingStep ==
    ASSUME Here, ~wrapped_home, ~wrapped_home', [Next]_vars
    PROVE  Shows(pixels', ssfn_dst', paper', First(paper'))
<1>1. CASE NewLine
  BY <1>1, NewLineShows
<1>2. ASSUME NEW c \in Glyphs, PutGlyph(c)
      PROVE  Shows(pixels', ssfn_dst', paper', First(paper'))
  BY <1>2, PutGlyphShows
<1>3. ASSUME NEW c \in Glyphs, PutLastGlyph(c)
      PROVE  Shows(pixels', ssfn_dst', paper', First(paper'))
  <2>1. NextRow.y # framebuffer.height
    BY <1>3, Zenon DEF PutLastGlyph
  <2> QED
    BY <1>3, <2>1, PutLastGlyphShows
<1>4. ASSUME NEW c \in Others, PutOther(c)
      PROVE  Shows(pixels', ssfn_dst', paper', First(paper'))
  <2>1. Line * G < H /\ ssfn_dst = [x |-> Column * F, y |-> Line * G] /\ Line * G \in Nat
    BY HereFacts
  <2>2. H \in Nat
    BY ModeNumbers DEF Here
  <2>3. ~(ssfn_dst.y >= framebuffer.height)
    BY <2>1, <2>2 DEF H
  <2>4. pixels' = pixels /\ ssfn_dst' = ssfn_dst /\ paper' = paper
    BY <1>4, <2>3 DEF PutOther, Finish
  <2> QED
    BY <2>4 DEF Here, Showing
<1>5. CASE UNCHANGED vars
  BY <1>5 DEF vars, Here, Showing
<1> QED
  BY <1>1, <1>2, <1>3, <1>4, <1>5 DEF Next

LEMMA ScreenStep == SInv /\ [Next]_vars => SInv'
<1> SUFFICES ASSUME SInv, [Next]_vars
             PROVE  SInv'
  OBVIOUS
<1>1. TypeOK'
  BY TypeStep DEF SInv
<1>2. paper' \in Sheets /\ Len(paper') >= 1 /\ framebuffer' = framebuffer
  BY PaperStep DEF SInv
<1>3. wrapped_home => wrapped_home'
  <2>1. ASSUME NEW c \in Glyphs, PutLastGlyph(c)
        PROVE  wrapped_home => wrapped_home'
    BY <2>1, Zenon DEF PutLastGlyph
  <2> QED
    BY <2>1 DEF Next, NewLine, PutGlyph, PutOther, vars
<1>4. W' = W /\ H' = H /\ Rows' = Rows /\ (Regular' <=> Regular)
  BY <1>2 DEF W, H, Rows, Regular, Unpadded
<1>5. First(paper)' = First(paper')
  BY <1>4 DEF First
<1>6. ASSUME Regular', ~wrapped_home'
      PROVE  Showing'
  <2>1. ~wrapped_home /\ Regular
    BY <1>3, <1>4, <1>6, Zenon
  <2>2. Here
    BY <2>1 DEF Here, SInv
  <2>3. Shows(pixels', ssfn_dst', paper', First(paper'))
    BY <1>6, <2>1, <2>2, ShowingStep
  <2> QED
    BY <1>4, <1>5, <2>3 DEF Showing, Shows
<1> QED
  BY <1>1, <1>2, <1>6, Zenon DEF SInv

LEMMA ScreenInv == Spec => []SInv
  BY ScreenInit, ScreenStep, PTL DEF Spec

\* In every mode without padding that holds whole rows of text, and for every
\* font size, the screen shows the newest rows of all that was written, with the
\* pen behind the last character, until a line fills the last row to its end
\* (terminal_putchar and terminal_scroll, tty.c:96-136, 138-159).
THEOREM NewestRowsShown == Spec => []ShowsNewestRows
<1>1. SInv => ShowsNewestRows
  <2> SUFFICES ASSUME SInv, Regular, ~wrapped_home
               PROVE  /\ \A p \in Screen : Shown(p.x, p.y) = Expected(p.x, p.y, First(paper))
                      /\ ssfn_dst = [x |-> Len(Row) * GLYPH_WIDTH,
                                     y |-> (Len(paper) - First(paper)) * GLYPH_HEIGHT]
    BY DEF ShowsNewestRows, First, Rows, Regular, Unpadded, G, H
  <2>1. Showing
    BY DEF SInv
  <2>2. ASSUME NEW p \in Screen
        PROVE  Shown(p.x, p.y) = Expected(p.x, p.y, First(paper))
    <3>1. p.x \in 0 .. W - 1 /\ p.y \in 0 .. H - 1
      BY DEF Screen, W, H
    <3>2. pixels[p.y * W + p.x] = InkOf(paper, First(paper) + p.y \div G, p.x \div F + 1)
      BY <2>1, <3>1 DEF Showing, Shows
    <3>3. Shown(p.x, p.y) = pixels[p.y * W + p.x]
      BY DEF Shown, Regular, Unpadded, W
    <3> QED
      BY <3>2, <3>3 DEF Expected, InkOf, COLORS_BG, F, G
  <2>3. ssfn_dst = [x |-> Len(Row) * GLYPH_WIDTH,
                    y |-> (Len(paper) - First(paper)) * GLYPH_HEIGHT]
    BY <2>1 DEF Showing, Shows, Row, F, G
  <2> QED
    BY <2>2, <2>3
<1> QED
  BY <1>1, ScreenInv, PTL

\* In every mode without padding, whatever its height and whatever the screen
\* shows, a new line on the last row moves the picture up by a row of text and
\* leaves the last row clear (terminal_scroll, tty.c:96-113).
THEOREM ScrollsByARow ==
    (\A mode \in Modes : mode.pitch = mode.width) => (Spec => NewLineScrolls)
<1> SUFFICES ASSUME \A mode \in Modes : mode.pitch = mode.width
             PROVE  Spec => NewLineScrolls
  OBVIOUS
<1>1. ASSUME TypeOK, [Next]_vars
      PROVE  [ NewLine /\ NextRow.y >= framebuffer.height
               => \A p \in Screen :
                     Shown(p.x, p.y)' = IF p.y + GLYPH_HEIGHT < framebuffer.height
                                        THEN Shown(p.x, p.y + GLYPH_HEIGHT)
                                        ELSE COLORS_BG ]_vars
  <2> SUFFICES ASSUME NewLine, NextRow.y >= framebuffer.height, NEW p \in Screen
               PROVE  Shown(p.x, p.y)' = IF p.y + GLYPH_HEIGHT < framebuffer.height
                                         THEN Shown(p.x, p.y + GLYPH_HEIGHT)
                                         ELSE COLORS_BG
    OBVIOUS
  <2>1. Unpadded
    BY <1>1 DEF TypeOK, Unpadded
  <2>2. p.x \in 0 .. W - 1 /\ p.y \in 0 .. H - 1
    BY DEF Screen, W, H
  <2>3. pixels \in Pixels
    BY <1>1 DEF TypeOK, Pixels, Ink
  <2>4. pixels' = Scrolled(pixels) /\ framebuffer' = framebuffer
    BY DEF NewLine, Finish
  <2>5. Shown(p.x, p.y)' = Scrolled(pixels)[p.y * W + p.x]
    BY <2>1, <2>4 DEF Shown, Unpadded, W
  <2>6. Scrolled(pixels)[p.y * W + p.x] =
           IF p.y + G < H THEN pixels[(p.y + G) * W + p.x] ELSE {}
    BY <1>1, <2>1, <2>2, <2>3, ScrolledAt
  <2>7. Shown(p.x, p.y + GLYPH_HEIGHT) = pixels[(p.y + G) * W + p.x]
    BY <2>1 DEF Shown, Unpadded, W, G
  <2> QED
    BY <2>5, <2>6, <2>7 DEF COLORS_BG, G, H
<1> QED
  BY <1>1, TypeCorrect, PTL DEF Spec, NewLineScrolls
=============================================================================
