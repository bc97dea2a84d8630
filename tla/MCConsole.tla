----------------------------- MODULE MCConsole -----------------------------
(* Glyphs of 4 x 4 pixels: narrow full screens, a panel of 2 x 2 cells, a  *)
(* panel that does not lie in the screen, one the heap has no room for,    *)
(* and a screen too small for a glyph.                                     *)
EXTENDS Console

CONSTANTS red, black, a, space

Full(w, h) == [fbw |-> w, fbh |-> h, splash |-> FALSE,
               px |-> 0, py |-> 0, pw |-> 0, ph |-> 0, room |-> TRUE]
Panel(w, h, x, y, pw, ph, room) ==
    [fbw |-> w, fbh |-> h, splash |-> TRUE,
     px |-> x, py |-> y, pw |-> pw, ph |-> ph, room |-> room]

MCScreens == {Full(4, 8), Full(9, 4), Full(3, 9),
              Panel(13, 12, 2, 1, 11, 10, TRUE),
              Panel(7, 7, 3, 0, 7, 7, TRUE), Panel(7, 7, 0, 0, 7, 7, FALSE)}
FullScreens == {Full(9, 8)}
=============================================================================
