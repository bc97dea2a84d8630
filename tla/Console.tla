------------------------------ MODULE Console ------------------------------
(***************************************************************************)
(* The framebuffer text console (console.c): a grid of cells, a shadow of  *)
(* the screen that glyphs are rendered into, and the framebuffer, which    *)
(* receives dirty rectangles of the shadow.  A pixel is not modelled: the  *)
(* look of a cell, its character, its background and whether the cursor    *)
(* block is on it, stands for its FontW x FontH pixels, and ch for the     *)
(* glyph with its colour.  The border and the splash around the panel      *)
(* never change after con_init.                                            *)
(***************************************************************************)
EXTENDS Integers

CONSTANTS
    Screens,              \* what the loader may hand over: see Screen
    FontW, FontH,         \* size of a glyph: 8, 16
    WinPad,               \* pixels between panel border and text: 8
    Chars, Blank,         \* printable characters; the space
    Black, Colors         \* backgrounds, Black the default

\* Framebuffer size, splash frame present, panel rectangle, and whether the
\* heap has room for the panel's background.
Screen == [fbw : Nat, fbh : Nat, splash : BOOLEAN,
           px : Nat, py : Nat, pw : Nat, ph : Nat, room : BOOLEAN]

ASSUME ConsoleAssumption ==
    /\ Screens \subseteq Screen
    /\ FontW \in Nat \ {0} /\ FontH \in Nat \ {0} /\ WinPad \in Nat
    /\ Black \in Colors /\ Blank \in Chars

Controls == {"newline", "return", "backspace"}
Glass    == "glass"

ASSUME NamesAssumption == Chars \cap Controls = {} /\ Glass \notin Colors

VARIABLES
    bi,                   \* the loader's screen record
    up,                   \* con_init succeeded
    windowed, cols, rows, \* mode and grid
    cx, cy,               \* cursor cell
    cur_bg, cursor_on,
    cells, shadow, screen,\* the grid, its look in the shadow and on the screen
    stale                 \* ghost: what the code leaves unpainted, see below

grid   == <<bi, up, windowed, cols, rows>>
vars   == <<grid, cx, cy, cur_bg, cursor_on, cells, shadow, screen, stale>>

-----------------------------------------------------------------------------
(* con_init: the panel is taken when it lies within this mode and holds at *)
(* least one glyph.                                                        *)
PanelFitsAnywhere(s) ==
    /\ s.splash /\ s.pw > 0 /\ s.ph > 0
    /\ s.pw <= s.fbw /\ s.ph <= s.fbh
    /\ s.pw > 2 * WinPad + FontW /\ s.ph > 2 * WinPad + FontH

PanelFits(s) ==
    /\ s.splash /\ s.pw > 0 /\ s.ph > 0
    /\ s.pw <= s.fbw /\ s.ph <= s.fbh
    /\ s.px <= s.fbw - s.pw /\ s.py <= s.fbh - s.ph
    /\ s.pw > 2 * WinPad + FontW /\ s.ph > 2 * WinPad + FontH

Windowed(s) == PanelFits(s) /\ s.room

Cols(s) == (IF Windowed(s) THEN s.pw - 2 * WinPad ELSE s.fbw) \div FontW
Rows(s) == (IF Windowed(s) THEN s.ph - 2 * WinPad ELSE s.fbh) \div FontH

win_px == IF windowed THEN bi.px + WinPad ELSE 0
win_py == IF windowed THEN bi.py + WinPad ELSE 0

Grid == (0..cols - 1) \X (0..rows - 1)

Cell(ch, bg) == [ch |-> ch, bg |-> bg]

\* A default background shows the splash through the panel.
Look(c, block) ==
    [ch |-> c.ch, block |-> block,
     bg |-> IF windowed /\ c.bg = Black THEN Glass ELSE c.bg]

\* What con_clear leaves of a cell: the panel's background, whatever cur_bg is.
Clean(panel) == [ch |-> Blank, block |-> FALSE, bg |-> IF panel THEN Glass ELSE cur_bg]

Init ==
    /\ bi \in Screens /\ up = FALSE
    /\ windowed = FALSE /\ cols = 0 /\ rows = 0 /\ cx = 0 /\ cy = 0
    /\ cur_bg = Black /\ cursor_on = TRUE
    /\ cells = <<>> /\ shadow = <<>> /\ screen = <<>> /\ stale = FALSE

\* con_init, with the con_clear and the blit at its end.
con_init ==
    /\ ~up /\ Cols(bi) > 0 /\ Rows(bi) > 0
    /\ up' = TRUE
    /\ windowed' = Windowed(bi) /\ cols' = Cols(bi) /\ rows' = Rows(bi)
    /\ cells' = [p \in Grid' |-> Cell(Blank, cur_bg)]
    /\ shadow' = [p \in Grid' |-> Clean(windowed')]
    /\ screen' = shadow'
    /\ UNCHANGED <<bi, cx, cy, cur_bg, cursor_on, stale>>

-----------------------------------------------------------------------------
\* paint_cell of each of the cells ps: rendered, then copied to the screen.
Paint(ps) ==
    /\ shadow' = [p \in Grid |->
                    IF p \in ps THEN Look(cells'[p], cursor_on' /\ p = <<cx', cy'>>)
                    ELSE shadow[p]]
    /\ screen' = [p \in Grid |-> IF p \in ps THEN shadow'[p] ELSE screen[p]]

con_color(bg) ==
    /\ up /\ cur_bg' = bg
    /\ UNCHANGED <<grid, cx, cy, cursor_on, cells, shadow, screen, stale>>

con_cursor(on) ==
    /\ up /\ cursor_on' = on
    /\ UNCHANGED <<grid, cx, cy, cur_bg, cells, stale>>
    /\ Paint({<<cx, cy>>})

ClipLate(v, n) == IF v <= n THEN v ELSE n - 1
Clip(v, n)     == IF v < n THEN v ELSE n - 1

con_setxy_leaving(x, y) ==
    /\ up /\ cx' = Clip(x, cols) /\ cy' = Clip(y, rows)
    /\ UNCHANGED <<grid, cur_bg, cursor_on, cells, stale>>
    /\ Paint({<<cx', cy'>>})

con_setxy(x, y) ==
    /\ up /\ cx' = Clip(x, cols) /\ cy' = Clip(y, rows)
    /\ UNCHANGED <<grid, cur_bg, cursor_on, cells, stale>>
    /\ Paint({<<cx, cy>>, <<cx', cy'>>})

\* The cursor is not painted.
con_clear ==
    /\ up /\ cx' = 0 /\ cy' = 0
    /\ cells' = [p \in Grid |-> Cell(Blank, cur_bg)]
    /\ shadow' = [p \in Grid |-> Clean(windowed)]
    /\ screen' = shadow'
    /\ stale' = (windowed /\ cur_bg # Black)
    /\ UNCHANGED <<grid, cur_bg, cursor_on>>

-----------------------------------------------------------------------------
(* con_putc.                                                               *)
\* Where the cursor goes, perhaps below the last row.
After(c) ==
    CASE c = "newline"   -> <<0, cy + 1>>
      [] c = "return"    -> <<0, cy>>
      [] c = "backspace" -> <<IF cx > 0 THEN cx - 1 ELSE cx, cy>>
      [] c \in Chars     -> IF cx + 1 >= cols THEN <<0, cy + 1>> ELSE <<cx + 1, cy>>

Drawn(c) ==
    CASE c \in Chars                -> [cells EXCEPT ![<<cx, cy>>] = Cell(c, cur_bg)]
      [] c = "backspace" /\ cx > 0  -> [cells EXCEPT ![<<cx - 1, cy>>] = Cell(Blank, cur_bg)]
      [] OTHER                      -> cells

\* The row below, or e in the last one.
Up(f, e) == [p \in Grid |-> IF p[2] + 1 < rows THEN f[<<p[1], p[2] + 1>>] ELSE e]

PutHere(c) ==
    /\ cx' = After(c)[1] /\ cy' = After(c)[2]
    /\ cells' = Drawn(c)
    /\ UNCHANGED <<grid, cur_bg, cursor_on, stale>>
    /\ Paint({<<cx, cy>>, <<cx', cy'>>})

\* Past the last row: the panel is rendered anew; in full screen the pixels
\* move, with whatever they showed of the cell the cursor leaves.
PutScrolling(c) ==
    /\ cx' = After(c)[1] /\ cy' = rows - 1
    /\ cells' = Up(Drawn(c), Cell(Blank, cur_bg))
    /\ UNCHANGED <<grid, cur_bg, cursor_on>>
    /\ LET here == <<cx', cy'>>
           at(p) == Look(cells'[p], cursor_on /\ p = here)
       IN shadow' = IF windowed THEN [p \in Grid |-> at(p)]
                    ELSE [Up(shadow, Look(Cell(Blank, cur_bg), FALSE)) EXCEPT ![here] = at(here)]
    /\ screen' = shadow'
    /\ stale' = (stale \/ ~windowed)

con_putc(c) ==
    /\ up
    /\ IF After(c)[2] < rows THEN PutHere(c) ELSE PutScrolling(c)

Next == \/ con_init
        \/ \E bg \in Colors : con_color(bg)
        \/ \E on \in BOOLEAN : con_cursor(on)
        \/ \E x \in 0..cols, y \in 0..rows : con_setxy(x, y)
        \/ con_clear
        \/ \E c \in Chars \cup Controls : con_putc(c)

Spec == Init /\ [][Next]_vars

-----------------------------------------------------------------------------
(* Properties.                                                             *)

\* Wherever programs put the cursor and however they write, it is on a cell:
\* con_putc and con_cursor index cells[] with it unchecked.
CursorInGrid == up => cx \in 0..cols - 1 /\ cy \in 0..rows - 1

\* Every cell's pixels lie in the framebuffer, and in the panel when there is
\* one: render_cell and blit write them, and read panelbg, unchecked.
GridInScreen ==
    up => \A p \in Grid :
       LET x0 == win_px + p[1] * FontW
           y0 == win_py + p[2] * FontH
       IN /\ x0 + FontW <= bi.fbw /\ y0 + FontH <= bi.fbh
          /\ windowed => /\ bi.px <= x0 /\ x0 + FontW <= bi.px + bi.pw
                         /\ bi.py <= y0 /\ y0 + FontH <= bi.py + bi.ph

\* The screen shows the cells, and a cursor block nowhere but at the cursor.
Shows(p) ==
    /\ screen[p].ch = cells[p].ch
    /\ screen[p].bg = Look(cells[p], FALSE).bg
    /\ screen[p].block => cursor_on /\ p = <<cx, cy>>

\* console.c:237 "repaint cell cursor left": whatever is printed, the cells
\* are what is seen.
ScreenShowsCells == up => \A p \in Grid : Shows(p)

\* The same, until a full-screen scroll moved pixels that were never painted
\* or the panel was cleared under another background; the next con_clear
\* with the default one mends both.
ScreenShowsCellsUnlessStale == stale \/ ScreenShowsCells
=============================================================================
