----------------------------- MODULE MCConsole -----------------------------
(***************************************************************************)
(* Small screens for Console: a glyph is two pixels wide and high.          *)
(***************************************************************************)
EXTENDS Console

Mode(w, h, p) == [width |-> w, height |-> h, pitch |-> p]

\* Two and three rows of text; a row whose last glyph is cut off; a last row
\* that is.
UnpaddedModes == {Mode(4, 4, 4), Mode(4, 6, 4), Mode(3, 4, 3), Mode(4, 5, 4)}

\* Lines with padding.
PaddedModes == {Mode(4, 4, 5)}
=============================================================================
