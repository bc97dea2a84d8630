--------------------------- MODULE ConsoleProofs ---------------------------
(***************************************************************************)
(* The console, for every screen, panel and glyph size: the cursor is on a *)
(* cell of the grid, and the pixels of every cell are in the framebuffer   *)
(* and in the panel.  Both rest on what con_init computes once (Geometry)  *)
(* and on the clipping of con_setxy and con_putc.  A second part follows   *)
(* what is seen: a cell shows what was printed last, or is known stale.    *)
(*                                                                         *)
(* The line editor on its bottom row, for every alphabet, line, history    *)
(* and prompt: the row shows the line and nothing else, and its first word *)
(* is green just when it runs.  The one takes the hues into its invariant; *)
(* the other compares two recursions that split a line into words.         *)
(***************************************************************************)
EXTENDS Console, LineEditor, TLAPS, WellFoundedInduction

\* Division, as it is used here: as many glyphs of n pixels as fit in w.
LEMMA Division ==
    ASSUME NEW w \in Nat, NEW n \in Nat \ {0}
    PROVE  w \div n \in Nat /\ (w \div n) * n <= w
  OBVIOUS

\* The p-th of k glyphs ends where the k-th does, at the latest.
LEMMA GlyphEnd ==
    ASSUME NEW k \in Nat, NEW n \in Nat \ {0}, NEW p \in 0..(k - 1)
    PROVE  p * n \in Nat /\ p * n + n <= k * n
  <1>1. p + 1 <= k /\ p \in Nat /\ k - (p + 1) \in Nat
    OBVIOUS
  <1>2. PICK d \in Nat : k = (p + 1) + d
    BY <1>1
  <1>3. k * n = (p + 1) * n + d * n /\ d * n >= 0 /\ (p + 1) * n = p * n + n
    BY <1>1, <1>2
  <1> QED  BY <1>1, <1>3

\* What con_init leaves, and nothing changes.
Geometry ==
    /\ bi \in Screens
    /\ up => /\ windowed = Windowed(bi)
             /\ cols = Cols(bi) /\ cols \in Nat \ {0}
             /\ rows = Rows(bi) /\ rows \in Nat \ {0}
    /\ ~up => cx = 0 /\ cy = 0

IInv == Geometry /\ CursorInGrid

-----------------------------------------------------------------------------
\* The grid con_init computes fits the panel or the screen.
LEMMA GridFits ==
    ASSUME NEW s \in Screens
    PROVE  /\ Cols(s) \in Nat /\ Rows(s) \in Nat
           /\ Windowed(s) => /\ Cols(s) * FontW + 2 * WinPad <= s.pw
                             /\ Rows(s) * FontH + 2 * WinPad <= s.ph
                             /\ s.px + s.pw <= s.fbw /\ s.py + s.ph <= s.fbh
           /\ ~Windowed(s) => Cols(s) * FontW <= s.fbw /\ Rows(s) * FontH <= s.fbh
  <1>1. /\ s.fbw \in Nat /\ s.fbh \in Nat /\ s.px \in Nat /\ s.py \in Nat
        /\ s.pw \in Nat /\ s.ph \in Nat
        /\ FontW \in Nat \ {0} /\ FontH \in Nat \ {0} /\ WinPad \in Nat
    BY ConsoleAssumption DEF Screen
  <1>2. CASE Windowed(s)
    <2>1. /\ s.pw - 2 * WinPad \in Nat /\ s.ph - 2 * WinPad \in Nat
          /\ s.px + s.pw <= s.fbw /\ s.py + s.ph <= s.fbh
      BY <1>1, <1>2 DEF Windowed, PanelFits
    <2>2. /\ Cols(s) = (s.pw - 2 * WinPad) \div FontW
          /\ Rows(s) = (s.ph - 2 * WinPad) \div FontH
      BY <1>2 DEF Cols, Rows
    <2>3. /\ Cols(s) \in Nat /\ Cols(s) * FontW <= s.pw - 2 * WinPad
          /\ Rows(s) \in Nat /\ Rows(s) * FontH <= s.ph - 2 * WinPad
      BY <1>1, <2>1, <2>2, Division
    <2>4. Cols(s) * FontW \in Int /\ Rows(s) * FontH \in Int
      BY <1>1, <2>3
    <2> QED  BY <1>1, <1>2, <2>1, <2>3, <2>4
  <1>3. CASE ~Windowed(s)
    <2>1. Cols(s) = s.fbw \div FontW /\ Rows(s) = s.fbh \div FontH
      BY <1>3 DEF Cols, Rows
    <2> QED  BY <1>1, <1>3, <2>1, Division
  <1> QED  BY <1>2, <1>3

\* The cursor stays where the code's clipping puts it: a cell of the grid.
LEMMA AfterInGrid ==
    ASSUME CursorInGrid, up, cols \in Nat \ {0}, rows \in Nat \ {0},
           NEW c \in Chars \cup Controls
    PROVE  After(c)[1] \in 0..cols - 1 /\ After(c)[2] \in 0..rows
  <1>1. cx \in 0..cols - 1 /\ cy \in 0..rows - 1
    BY DEF CursorInGrid
  <1>2. CASE c = "newline"
    BY <1>1, <1>2 DEF After
  <1>3. CASE c = "return" /\ c # "newline"
    BY <1>1, <1>3 DEF After
  <1>4. CASE c = "backspace" /\ c # "newline" /\ c # "return"
    <2>1. After(c) = <<IF cx > 0 THEN cx - 1 ELSE cx, cy>>
      BY <1>4, NamesAssumption DEF After, Controls
    <2> QED  BY <1>1, <2>1
  <1>5. CASE c \in Chars
    <2>1. After(c) = IF cx + 1 >= cols THEN <<0, cy + 1>> ELSE <<cx + 1, cy>>
      BY <1>5, NamesAssumption DEF After, Controls
    <2> QED  BY <1>1, <2>1
  <1> QED  BY <1>2, <1>3, <1>4, <1>5 DEF Controls

\* Before con_init there is no grid to leave.
LEMMA InitIInv == Init => IInv
  BY DEF Init, IInv, Geometry, CursorInGrid

\* Every console operation keeps the geometry and the cursor.
LEMMA NextIInv == IInv /\ [Next]_vars => IInv'
  <1> SUFFICES ASSUME IInv, [Next]_vars PROVE IInv'
    OBVIOUS
  <1>1. CASE con_init
    <2>1. Cols(bi) \in Nat \ {0} /\ Rows(bi) \in Nat \ {0}
      BY <1>1, GridFits DEF con_init, IInv, Geometry
    <2>2. up' /\ windowed' = Windowed(bi) /\ cols' = Cols(bi) /\ rows' = Rows(bi)
          /\ bi' = bi
      BY <1>1 DEF con_init
    <2>3. cx' = 0 /\ cy' = 0
      BY <1>1 DEF con_init, IInv, Geometry, CursorInGrid
    <2> QED  BY <2>1, <2>2, <2>3 DEF IInv, Geometry, CursorInGrid
  <1>2. ASSUME up, UNCHANGED grid, cx' \in 0..cols - 1, cy' \in 0..rows - 1
        PROVE  IInv'
    BY <1>2 DEF IInv, Geometry, CursorInGrid, grid
  <1>3. up => /\ cols \in Nat \ {0} /\ rows \in Nat \ {0}
              /\ cx \in 0..cols - 1 /\ cy \in 0..rows - 1
    BY DEF IInv, Geometry, CursorInGrid
  <1>4. ASSUME NEW bg \in Colors, con_color(bg) PROVE IInv'
    BY <1>2, <1>3, <1>4 DEF con_color
  <1>5. ASSUME NEW on \in BOOLEAN, con_cursor(on) PROVE IInv'
    BY <1>2, <1>3, <1>5 DEF con_cursor
  <1>6. ASSUME NEW x \in 0..cols, NEW y \in 0..rows, con_setxy(x, y) PROVE IInv'
    <2>1. Clip(x, cols) \in 0..cols - 1 /\ Clip(y, rows) \in 0..rows - 1
      BY <1>3, <1>6 DEF con_setxy, Clip
    <2> QED  BY <1>2, <1>6, <2>1 DEF con_setxy
  <1>7. CASE con_clear
    BY <1>2, <1>3, <1>7 DEF con_clear
  <1>8. ASSUME NEW c \in Chars \cup Controls, con_putc(c) PROVE IInv'
    <2>1. up /\ After(c)[1] \in 0..cols - 1 /\ After(c)[2] \in 0..rows
      BY <1>3, <1>8, AfterInGrid DEF con_putc, IInv
    <2>2. CASE After(c)[2] < rows /\ PutHere(c)
      BY <1>2, <1>3, <2>1, <2>2 DEF PutHere
    <2>3. CASE PutScrolling(c)
      BY <1>2, <1>3, <2>1, <2>3 DEF PutScrolling
    <2> QED  BY <1>8, <2>2, <2>3 DEF con_putc
  <1>9. CASE UNCHANGED vars
    BY <1>9 DEF vars, grid, IInv, Geometry, CursorInGrid
  <1> QED  BY <1>1, <1>4, <1>5, <1>6, <1>7, <1>8, <1>9 DEF Next

\* The cursor is on a cell of the grid, whatever programs print and wherever
\* they put it (con_setxy, con_putc).
THEOREM CursorSafe == Spec => []CursorInGrid
  <1>1. IInv => CursorInGrid
    BY DEF IInv
  <1> QED  BY InitIInv, NextIInv, <1>1, PTL DEF Spec

-----------------------------------------------------------------------------
\* With that geometry every cell lies inside screen and panel.
LEMMA GeometryInScreen == IInv => GridInScreen
  <1> SUFFICES ASSUME IInv, up, NEW p \in Grid
               PROVE  LET x0 == win_px + p[1] * FontW
                          y0 == win_py + p[2] * FontH
                      IN /\ x0 + FontW <= bi.fbw /\ y0 + FontH <= bi.fbh
                         /\ windowed => /\ bi.px <= x0 /\ x0 + FontW <= bi.px + bi.pw
                                        /\ bi.py <= y0 /\ y0 + FontH <= bi.py + bi.ph
    BY DEF GridInScreen
  <1> DEFINE gx == p[1] * FontW
             gy == p[2] * FontH
             gw == cols * FontW
             gh == rows * FontH
  <1>1. /\ bi.fbw \in Nat /\ bi.fbh \in Nat /\ bi.px \in Nat /\ bi.py \in Nat
        /\ bi.pw \in Nat /\ bi.ph \in Nat
        /\ FontW \in Nat \ {0} /\ FontH \in Nat \ {0} /\ WinPad \in Nat
    BY ConsoleAssumption DEF IInv, Geometry, Screen
  <1>2. /\ windowed = Windowed(bi) /\ cols = Cols(bi) /\ rows = Rows(bi)
        /\ cols \in Nat /\ rows \in Nat
    BY DEF IInv, Geometry
  <1>3. p[1] \in 0..(cols - 1) /\ p[2] \in 0..(rows - 1)
    BY DEF Grid
  <1>4. /\ gx \in Nat /\ gx + FontW <= gw
        /\ gy \in Nat /\ gy + FontH <= gh
    BY <1>1, <1>2, <1>3, GlyphEnd
  <1>5. /\ windowed => /\ gw + 2 * WinPad <= bi.pw /\ gh + 2 * WinPad <= bi.ph
                       /\ bi.px + bi.pw <= bi.fbw /\ bi.py + bi.ph <= bi.fbh
        /\ ~windowed => gw <= bi.fbw /\ gh <= bi.fbh
    BY <1>2, GridFits DEF IInv, Geometry
  <1>6. gw \in Int /\ gh \in Int
    BY <1>1, <1>2
  <1> HIDE DEF gx, gy, gw, gh
  <1>7. CASE windowed
    BY <1>1, <1>4, <1>5, <1>6, <1>7 DEF win_px, win_py, gx, gy
  <1>8. CASE ~windowed
    BY <1>1, <1>4, <1>5, <1>6, <1>8 DEF win_px, win_py, gx, gy
  <1> QED  BY <1>7, <1>8

\* No glyph is ever rendered or copied outside the framebuffer or the panel
\* (render_cell, blit): con_init's test of the panel is enough.
THEOREM GridSafe == Spec => []GridInScreen
  BY InitIInv, NextIInv, GeometryInScreen, PTL DEF Spec

-----------------------------------------------------------------------------
(* What is seen.  A glyph is painted from its cell, so only two things can *)
(* leave the screen behind the cells: pixels that are moved and not        *)
(* painted, and a cell that changes without being painted.  Every operation*)
(* but the two that set stale paints the cells it changes, and the cells   *)
(* the cursor leaves and enters.                                           *)

\* The grid is full of cells, and con_init clears it to the default background.
CellsOK ==
    /\ cur_bg \in Colors /\ (~up => cur_bg = Black)
    /\ up => cells \in [Grid -> [ch : Chars, bg : Colors]]

SeenInv == IInv /\ CellsOK /\ ScreenShowsCellsUnlessStale

\* One step that paints: what changed, and the two cells of the cursor.
LEMMA PaintShows ==
    ASSUME up, ScreenShowsCells, NEW ps, Paint(ps), UNCHANGED grid,
           <<cx, cy>> \in ps, <<cx', cy'>> \in ps,
           \A p \in Grid : p \notin ps => cells'[p] = cells[p]
    PROVE  ScreenShowsCells'
  <1>1. Grid' = Grid /\ windowed' = windowed /\ up'
    BY DEF grid, Grid
  <1>2. ASSUME NEW p \in Grid
        PROVE  /\ screen'[p].ch = cells'[p].ch
               /\ screen'[p].bg = IF windowed /\ cells'[p].bg = Black THEN Glass ELSE cells'[p].bg
               /\ screen'[p].block => cursor_on' /\ p = <<cx', cy'>>
    <2>1. Shows(p)
      BY DEF ScreenShowsCells
    <2>2. CASE p \in ps
      <3>1. PICK on \in BOOLEAN : /\ screen'[p] = Look(cells'[p], on)
                                  /\ on => cursor_on' /\ p = <<cx', cy'>>
        <4> DEFINE block == cursor_on' /\ p = <<cx', cy'>>
        <4>1. screen'[p] = Look(cells'[p], block)
          BY <2>2 DEF Paint
        <4> QED  BY <4>1, Zenon
      <3> QED  BY <3>1 DEF Look
    <2>3. CASE p \notin ps
      <3>1. screen'[p] = screen[p] /\ cells'[p] = cells[p] /\ p # <<cx, cy>>
        BY <2>3 DEF Paint
      <3>2. /\ screen[p].ch = cells[p].ch /\ ~screen[p].block
            /\ screen[p].bg = IF windowed /\ cells[p].bg = Black THEN Glass ELSE cells[p].bg
        BY <2>1, <3>1 DEF Shows, Look
      <3> QED  BY <3>1, <3>2
    <2> QED  BY <2>2, <2>3
  <1> QED  BY <1>1, <1>2 DEF ScreenShowsCells, Shows, Look

\* Where the cursor goes is a cell, or just below the last row.
LEMMA AfterPair ==
    ASSUME NEW c \in Chars \cup Controls
    PROVE  After(c) = <<After(c)[1], After(c)[2]>>
  <1>1. CASE c = "newline"
    BY <1>1 DEF After
  <1>2. CASE c = "return" /\ c # "newline"
    BY <1>2 DEF After
  <1>3. CASE c = "backspace" /\ c # "newline" /\ c # "return"
    <2>1. After(c) = <<IF cx > 0 THEN cx - 1 ELSE cx, cy>>
      BY <1>3, NamesAssumption DEF After, Controls
    <2> QED  BY <2>1
  <1>4. CASE c \in Chars
    <2>1. After(c) = IF cx + 1 >= cols THEN <<0, cy + 1>> ELSE <<cx + 1, cy>>
      BY <1>4, NamesAssumption DEF After, Controls
    <2> QED  BY <2>1
  <1> QED  BY <1>1, <1>2, <1>3, <1>4 DEF Controls

\* con_putc changes no cell but the one it prints on or rubs out, which the
\* cursor leaves or enters.
LEMMA DrawnCells ==
    ASSUME SeenInv, up, NEW c \in Chars \cup Controls
    PROVE  /\ Drawn(c) \in [Grid -> [ch : Chars, bg : Colors]]
           /\ \A p \in Grid : p # <<cx, cy>> /\ p # After(c) => Drawn(c)[p] = cells[p]
  <1>1. /\ cells \in [Grid -> [ch : Chars, bg : Colors]] /\ cur_bg \in Colors
        /\ cx \in 0..cols - 1 /\ cy \in 0..rows - 1
        /\ cols \in Nat \ {0} /\ rows \in Nat \ {0}
    BY DEF SeenInv, CellsOK, IInv, Geometry, CursorInGrid
  <1>2. \A ch \in Chars : Cell(ch, cur_bg) \in [ch : Chars, bg : Colors]
    BY <1>1 DEF Cell
  <1>3. Blank \in Chars
    BY ConsoleAssumption
  <1>4. CASE c \in Chars
    <2>1. Drawn(c) = [cells EXCEPT ![<<cx, cy>>] = Cell(c, cur_bg)]
      BY <1>4, NamesAssumption DEF Drawn, Controls
    <2> QED  BY <1>1, <1>2, <1>4, <2>1
  <1>5. CASE c \notin Chars /\ c = "backspace" /\ cx > 0
    <2>1. Drawn(c) = [cells EXCEPT ![<<cx - 1, cy>>] = Cell(Blank, cur_bg)]
      BY <1>5 DEF Drawn
    <2>2. After(c) = <<cx - 1, cy>>
      BY <1>5, NamesAssumption DEF After, Controls
    <2> QED  BY <1>1, <1>2, <1>3, <2>1, <2>2
  <1>6. CASE c \notin Chars /\ ~(c = "backspace" /\ cx > 0)
    <2>1. Drawn(c) = cells
      BY <1>6 DEF Drawn
    <2> QED  BY <1>1, <2>1
  <1> QED  BY <1>4, <1>5, <1>6

LEMMA InitSeen == Init => SeenInv
  <1>1. Init => IInv
    BY InitIInv
  <1>2. Init => CellsOK
    BY ConsoleAssumption DEF Init, CellsOK
  <1> QED  BY <1>1, <1>2 DEF SeenInv, Init, ScreenShowsCellsUnlessStale, ScreenShowsCells

LEMMA NextSeen == SeenInv /\ [Next]_vars => SeenInv'
  <1> SUFFICES ASSUME SeenInv, [Next]_vars PROVE SeenInv'
    OBVIOUS
  <1>1. IInv'
    BY NextIInv DEF SeenInv
  <1>2. /\ cur_bg \in Colors /\ (~up => cur_bg = Black)
        /\ up => /\ cells \in [Grid -> [ch : Chars, bg : Colors]]
                 /\ cols \in Nat \ {0} /\ rows \in Nat \ {0}
                 /\ cx \in 0..cols - 1 /\ cy \in 0..rows - 1
    BY DEF SeenInv, CellsOK, IInv, Geometry, CursorInGrid
  <1>3. Blank \in Chars /\ Black \in Colors
    BY ConsoleAssumption
  <1>4. ASSUME up, UNCHANGED <<grid, cur_bg, cells>>
        PROVE  CellsOK'
    BY <1>2, <1>4 DEF CellsOK, grid, Grid
  <1>5. CASE con_init
    <2>1. /\ cells' = [p \in Grid' |-> Cell(Blank, cur_bg)]
          /\ screen' = [p \in Grid' |-> Clean(windowed')]
          /\ cur_bg = Black /\ cur_bg' = cur_bg /\ up'
      BY <1>2, <1>5 DEF con_init
    <2>2. CellsOK'
      BY <1>3, <2>1 DEF CellsOK, Cell
    <2>3. ScreenShowsCells'
      BY <2>1 DEF ScreenShowsCells, Shows, Look, Cell, Clean
    <2> QED  BY <1>1, <2>2, <2>3 DEF SeenInv, ScreenShowsCellsUnlessStale
  <1>6. ASSUME NEW bg \in Colors, con_color(bg) PROVE SeenInv'
    <2>1. CellsOK'
      BY <1>2, <1>6 DEF con_color, CellsOK, grid, Grid
    <2>2. UNCHANGED <<grid, cx, cy, cursor_on, cells, screen, stale>>
      BY <1>6 DEF con_color
    <2>3. ScreenShowsCellsUnlessStale'
      BY <2>2 DEF SeenInv, ScreenShowsCellsUnlessStale, ScreenShowsCells, Shows, Look, grid, Grid
    <2> QED  BY <1>1, <2>1, <2>3 DEF SeenInv
  <1>7. ASSUME up, UNCHANGED <<grid, stale>>, NEW ps, Paint(ps),
               <<cx, cy>> \in ps, <<cx', cy'>> \in ps,
               \A p \in Grid : p \notin ps => cells'[p] = cells[p]
        PROVE  ScreenShowsCellsUnlessStale'
    BY <1>7, PaintShows DEF SeenInv, ScreenShowsCellsUnlessStale
  <1>8. ASSUME NEW on \in BOOLEAN, con_cursor(on) PROVE SeenInv'
    <2>1. up /\ UNCHANGED <<grid, cx, cy, cur_bg, cells, stale>> /\ Paint({<<cx, cy>>})
      BY <1>8 DEF con_cursor
    <2> QED  BY <1>1, <1>4, <1>7, <2>1 DEF SeenInv
  <1>9. ASSUME NEW x \in 0..cols, NEW y \in 0..rows, con_setxy(x, y) PROVE SeenInv'
    <2>1. /\ up /\ UNCHANGED <<grid, cur_bg, cells, stale>>
          /\ Paint({<<cx, cy>>, <<cx', cy'>>})
      BY <1>9 DEF con_setxy
    <2> QED  BY <1>1, <1>4, <1>7, <2>1 DEF SeenInv
  <1>10. CASE con_clear
    <2>1. /\ up /\ UNCHANGED <<grid, cur_bg, cursor_on>>
          /\ cells' = [p \in Grid |-> Cell(Blank, cur_bg)]
          /\ screen' = [p \in Grid |-> Clean(windowed)]
          /\ stale' = (windowed /\ cur_bg # Black)
      BY <1>10 DEF con_clear
    <2>2. CellsOK'
      BY <1>2, <1>3, <2>1 DEF CellsOK, Cell, grid, Grid
    <2>3. ScreenShowsCellsUnlessStale'
      BY <2>1 DEF ScreenShowsCellsUnlessStale, ScreenShowsCells, Shows, Look, Cell, Clean, grid, Grid
    <2> QED  BY <1>1, <2>2, <2>3 DEF SeenInv
  <1>11. ASSUME NEW c \in Chars \cup Controls, con_putc(c) PROVE SeenInv'
    <2>1. /\ Drawn(c) \in [Grid -> [ch : Chars, bg : Colors]]
          /\ \A p \in Grid : p # <<cx, cy>> /\ p # After(c) => Drawn(c)[p] = cells[p]
      BY <1>11, DrawnCells DEF con_putc
    <2>2. CASE PutHere(c)
      <3>1. /\ up /\ UNCHANGED <<grid, cur_bg, cursor_on, stale>> /\ cells' = Drawn(c)
            /\ cx' = After(c)[1] /\ cy' = After(c)[2]
            /\ Paint({<<cx, cy>>, <<cx', cy'>>})
        BY <1>11, <2>2 DEF con_putc, PutHere
      <3>2. CellsOK'
        BY <1>2, <2>1, <3>1 DEF CellsOK, grid, Grid
      <3>3. \A p \in Grid : p \notin {<<cx, cy>>, <<cx', cy'>>} => cells'[p] = cells[p]
        <4>1. After(c) = <<cx', cy'>>
          BY <1>11, <3>1, AfterPair
        <4> QED  BY <2>1, <3>1, <4>1
      <3>4. ScreenShowsCellsUnlessStale'
        BY <1>7, <3>1, <3>3
      <3> QED  BY <1>1, <3>2, <3>4 DEF SeenInv
    <2>3. CASE PutScrolling(c)
      <3>1. /\ up /\ UNCHANGED <<grid, cur_bg, cursor_on>>
            /\ cells' = Up(Drawn(c), Cell(Blank, cur_bg))
            /\ stale' = (stale \/ ~windowed)
            /\ windowed => screen' = [p \in Grid |-> Look(cells'[p], cursor_on /\ p = <<cx', cy'>>)]
        BY <1>11, <2>3 DEF con_putc, PutScrolling
      <3>2. cells' \in [Grid -> [ch : Chars, bg : Colors]]
        <4>1. Cell(Blank, cur_bg) \in [ch : Chars, bg : Colors]
          BY <1>2, <1>3 DEF Cell
        <4>2. \A p \in Grid : p[2] + 1 < rows => <<p[1], p[2] + 1>> \in Grid
          BY <1>2, <3>1 DEF Grid
        <4> QED  BY <2>1, <3>1, <4>1, <4>2 DEF Up
      <3>3. CellsOK'
        BY <1>2, <3>1, <3>2 DEF CellsOK, grid, Grid
      <3>4. windowed => ScreenShowsCells'
        <4>1. Grid' = Grid /\ windowed' = windowed
          BY <3>1 DEF grid, Grid
        <4>2. ASSUME windowed, NEW p \in Grid
              PROVE  /\ screen'[p].ch = cells'[p].ch
                     /\ screen'[p].bg = Look(cells'[p], FALSE).bg
                     /\ screen'[p].block => cursor_on /\ p = <<cx', cy'>>
          <5>1. PICK on \in BOOLEAN : /\ screen'[p] = Look(cells'[p], on)
                                      /\ on => cursor_on /\ p = <<cx', cy'>>
            <6> DEFINE block == cursor_on /\ p = <<cx', cy'>>
            <6>1. screen'[p] = Look(cells'[p], block)
              BY <3>1, <4>2
            <6> QED  BY <6>1, Zenon
          <5> QED  BY <5>1 DEF Look
        <4>3. cursor_on' = cursor_on
          BY <3>1
        <4> QED  BY <4>1, <4>2, <4>3 DEF ScreenShowsCells, Shows, Look
      <3> QED  BY <1>1, <3>1, <3>3, <3>4 DEF SeenInv, ScreenShowsCellsUnlessStale
    <2> QED  BY <1>11, <2>2, <2>3 DEF con_putc
  <1>12. CASE UNCHANGED vars
    <2>1. CellsOK' /\ ScreenShowsCellsUnlessStale'
      BY <1>12 DEF vars, grid, SeenInv, CellsOK, ScreenShowsCellsUnlessStale, ScreenShowsCells,
         Shows, Look, Grid
    <2> QED  BY <1>1, <2>1 DEF SeenInv
  <1> QED  BY <1>5, <1>6, <1>8, <1>9, <1>10, <1>11, <1>12 DEF Next

\* The screen shows the cells, with no cursor block left behind, whatever is
\* printed: unless a full-screen scroll moved unpainted pixels, or the panel was
\* cleared under another background (con_putc, con_setxy, con_cursor, con_clear).
THEOREM SeenUnlessStale == Spec => []ScreenShowsCellsUnlessStale
  <1>1. SeenInv => ScreenShowsCellsUnlessStale
    BY DEF SeenInv
  <1> QED  BY InitSeen, NextSeen, <1>1, PTL DEF Spec

-----------------------------------------------------------------------------
(* The line editor.  Positions of a line, and the words of it.             *)

\* The order of the positions.
Before == {ss \in Nat \X Nat : ss[1] < ss[2]}

\* There is a first one among any positions.
LEMMA FirstOf ==
    ASSUME NEW T \in SUBSET Nat, T # {}
    PROVE  \E n \in T : \A k \in T : n <= k
<1>1. IsWellFoundedOn(Before, Nat)
  BY NatLessThanWellFounded DEF OpToRel, Before
<1>2. PICK n \in T : \A k \in T : ~ (<<k, n>> \in Before)
  BY <1>1, WFMin
<1>3. ASSUME NEW k \in T, ~ (n <= k) PROVE FALSE
  <2>1. <<k, n>> \in Nat \X Nat /\ <<k, n>>[1] = k /\ <<k, n>>[2] = n
    OBVIOUS
  <2>2. k < n
    BY <1>3
  <2> QED
    BY <1>2, <2>1, <2>2 DEF Before
<1> QED
  BY <1>3

\* Scan finds the first position of those it looks for, or the end.
LEMMA ScanFinds ==
    ASSUME NEW s, Len(s) \in Nat, NEW i \in 1 .. (Len(s) + 1), NEW stop
    PROVE  /\ Scan(s, i, stop) \in i .. (Len(s) + 1)
           /\ Scan(s, i, stop) = Len(s) + 1 \/ s[Scan(s, i, stop)] \in stop
           /\ \A k \in i .. (Scan(s, i, stop) - 1) : s[k] \notin stop
<1> DEFINE Is(j) == /\ j = Len(s) + 1 \/ s[j] \in stop
                    /\ \A k \in i .. (j - 1) : s[k] \notin stop
           T == {j \in i .. (Len(s) + 1) : j = Len(s) + 1 \/ s[j] \in stop}
<1>1. T \in SUBSET Nat /\ Len(s) + 1 \in T
  OBVIOUS
<1>2. PICK j \in T : \A k \in T : j <= k
  BY <1>1, FirstOf
<1>3. \A k \in i .. (j - 1) : k \in i .. (Len(s) + 1) /\ ~ (j <= k)
  BY <1>2
<1>4. j \in i .. (Len(s) + 1) /\ Is(j)
  BY <1>2, <1>3
<1>5. Scan(s, i, stop) = CHOOSE k \in i .. (Len(s) + 1) : Is(k)
  BY Zenon DEF Scan
<1> HIDE DEF Is
<1>6. Scan(s, i, stop) \in i .. (Len(s) + 1) /\ Is(Scan(s, i, stop))
  BY <1>4, <1>5, Zenon
<1> QED
  BY <1>6 DEF Is

\* Induction from the end of a line: a position follows from the one at
\* which its word is done with.
LEMMA WordInduction ==
    ASSUME NEW n \in Nat, NEW nx \in [1 .. n -> Nat], NEW A,
           \A i \in 1 .. n : nx[i] \in (i + 1) .. (n + 1),
           n + 1 \in A, \A i \in 1 .. n : nx[i] \in A => i \in A
    PROVE  \A i \in 1 .. (n + 1) : i \in A
<1> DEFINE B == {k \in 0 .. n : \A i \in (n + 1 - k) .. (n + 1) : i \in A}
           T == {k \in 0 .. n : k \notin B}
<1>1. T = {}
  <2> SUFFICES ASSUME T # {} PROVE FALSE
    OBVIOUS
  <2>1. PICK k \in T : \A j \in T : k <= j
    <3>1. T \in SUBSET Nat
      OBVIOUS
    <3> QED
      BY <3>1, FirstOf
  <2>2. k # 0
    <3>1. 0 \in B
      OBVIOUS
    <3> QED
      BY <2>1, <3>1
  <2>3. k - 1 \in B
    <3> HIDE DEF B
    <3> QED
      BY <2>1, <2>2
  <2> DEFINE i == n + 1 - k
  <2>4. i \in 1 .. n /\ nx[i] \in (n + 1 - (k - 1)) .. (n + 1)
    BY <2>1, <2>2
  <2>5. nx[i] \in A
    BY <2>3, <2>4
  <2>6. i \in A
    BY <2>4, <2>5
  <2>7. \A j \in i .. (n + 1) : j = i \/ j \in (n + 1 - (k - 1)) .. (n + 1)
    BY <2>1
  <2>8. k \in B
    BY <2>1, <2>3, <2>6, <2>7
  <2> QED
    BY <2>1, <2>8
<1>2. n \in B
  <2> HIDE DEF B
  <2> QED
    BY <1>1
<1> QED
  BY <1>2

\* f is given word by word: by g from its value at the next word.
WordByWord(n, S, e, nx, g, f) ==
    /\ f \in [1 .. (n + 1) -> S]
    /\ f[n + 1] = e
    /\ \A i \in 1 .. n : f[i] = g[i][f[nx[i]]]

\* Such a function exists.
LEMMA WordRecursion ==
    ASSUME NEW n \in Nat, NEW S, NEW e \in S, NEW nx \in [1 .. n -> Nat],
           NEW g \in [1 .. n -> [S -> S]],
           \A i \in 1 .. n : nx[i] \in (i + 1) .. (n + 1)
    PROVE  \E f : WordByWord(n, S, e, nx, g, f)
<1> DEFINE Run(k, f) ==
               /\ f \in [(n + 1 - k) .. (n + 1) -> S] /\ f[n + 1] = e
               /\ \A i \in (n + 1 - k) .. n : f[i] = g[i][f[nx[i]]]
           B == {k \in 0 .. n : \E f : Run(k, f)}
           T == {k \in 0 .. n : k \notin B}
<1>1. T = {}
  <2> SUFFICES ASSUME T # {} PROVE FALSE
    OBVIOUS
  <2>1. PICK k \in T : \A j \in T : k <= j
    <3>1. T \in SUBSET Nat
      OBVIOUS
    <3> HIDE DEF T
    <3> QED
      BY <3>1, FirstOf
  <2>2. k # 0
    <3> DEFINE h == [i \in (n + 1) .. (n + 1) |-> e]
    <3>1. Run(0, h)
      OBVIOUS
    <3> HIDE DEF h, Run
    <3>2. 0 \in B
      BY <3>1
    <3> QED
      BY <2>1, <3>2
  <2>3. k - 1 \in B
    <3> HIDE DEF B
    <3> QED
      BY <2>1, <2>2
  <2>4. PICK f : Run(k - 1, f)
    BY <2>3
  <2> DEFINE j == n + 1 - k
             h == [i \in j .. (n + 1) |-> IF i = j THEN g[j][f[nx[j]]] ELSE f[i]]
  <2>5. j \in 1 .. n /\ nx[j] \in (j + 1) .. (n + 1) /\ n + 1 - (k - 1) = j + 1
    BY <2>1, <2>2
  <2>6. /\ f \in [(j + 1) .. (n + 1) -> S] /\ f[n + 1] = e
        /\ \A i \in (j + 1) .. n : f[i] = g[i][f[nx[i]]]
    <3> HIDE DEF j
    <3> QED
      BY <2>4, <2>5
  <2> HIDE DEF j
  <2>7. g[j][f[nx[j]]] \in S
    <3>1. f[nx[j]] \in S
      BY <2>5, <2>6
    <3> QED
      BY <2>5, <3>1
  <2>8. h \in [j .. (n + 1) -> S] /\ h[n + 1] = e
    <3>1. n + 1 # j /\ n + 1 \in j .. (n + 1)
      BY <2>5
    <3>2. \A i \in j .. (n + 1) : i # j => i \in (j + 1) .. (n + 1)
      BY <2>5
    <3>3. \A i \in j .. (n + 1) : i # j => f[i] \in S
      BY <2>6, <3>2
    <3> QED
      BY <2>6, <2>7, <3>1, <3>3
  <2>9. ASSUME NEW i \in j .. n PROVE h[i] = g[i][h[nx[i]]]
    <3>1. i \in 1 .. n /\ i \in j .. (n + 1)
      BY <2>5
    <3>2. nx[i] \in (i + 1) .. (n + 1)
      BY <3>1
    <3>3. nx[i] \in j .. (n + 1) /\ nx[i] # j
      BY <2>5, <3>1, <3>2
    <3>4. h[nx[i]] = f[nx[i]]
      BY <3>3
    <3>5. CASE i = j
      BY <3>1, <3>4, <3>5
    <3>6. CASE i # j
      <4>1. i \in (j + 1) .. n
        BY <2>5, <3>6
      <4> QED
        BY <2>6, <3>1, <3>4, <3>6, <4>1
    <3> QED
      BY <3>5, <3>6
  <2> HIDE DEF h
  <2>10. Run(k, h)
    BY <2>8, <2>9 DEF j
  <2> HIDE DEF Run
  <2>11. k \in B
    BY <2>1, <2>10
  <2> QED
    BY <2>1, <2>11
<1>2. n \in B
  <2> HIDE DEF B
  <2> QED
    BY <1>1
<1>3. PICK f : Run(n, f)
  BY <1>2
<1>4. n + 1 - n = 1
  OBVIOUS
<1>5. WordByWord(n, S, e, nx, g, f)
  BY <1>3, <1>4 DEF WordByWord
<1> QED
  BY <1>5

-----------------------------------------------------------------------------
(* shell_run_line's words: the recursion of Argv, from the end of the line. *)

\* What words begin with.
NonBlank == Typed \ {Space}

\* Where the word that begins at p begins and ends as an argument.
ArgStart(s, p) == IF s[p] = Quote THEN p + 1 ELSE p
ArgEnd(s, p) == Scan(s, ArgStart(s, p), IF s[p] = Quote THEN {Quote} ELSE {Space})

\* The position from which the next argument is looked for.
NextArg(s, i) ==
    LET p == Scan(s, i, NonBlank)
    IN IF p > Len(s) \/ ArgEnd(s, p) > Len(s) THEN Len(s) + 1 ELSE ArgEnd(s, p) + 1

\* The arguments from i on, when those from the next position on are v.
ArgsFrom(s, i, v) ==
    LET p == Scan(s, i, NonBlank)
    IN IF p > Len(s) THEN <<>>
       ELSE <<SubSeq(s, ArgStart(s, p), ArgEnd(s, p) - 1)>>
            \o (IF ArgEnd(s, p) > Len(s) THEN <<>> ELSE v)

\* An argument is a piece of the line, and what follows it comes after it.
LEMMA ArgSteps ==
    ASSUME NEW s \in Seq(Typed), NEW i \in 1 .. Len(s)
    PROVE  /\ NextArg(s, i) \in (i + 1) .. (Len(s) + 1)
           /\ \A v \in Seq(Seq(Typed)) : ArgsFrom(s, i, v) \in Seq(Seq(Typed))
<1> DEFINE p == Scan(s, i, NonBlank)
<1>1. Len(s) \in Nat
  OBVIOUS
<1>2. p \in i .. (Len(s) + 1)
  BY <1>1, ScanFinds
<1> HIDE DEF p
<1>3. CASE p > Len(s)
  <2>1. NextArg(s, i) = Len(s) + 1 /\ \A v : ArgsFrom(s, i, v) = <<>>
    BY <1>3 DEF NextArg, ArgsFrom, p
  <2>2. <<>> \in Seq(Seq(Typed)) /\ Len(s) + 1 \in (i + 1) .. (Len(s) + 1)
    BY <1>1
  <2> QED
    BY <2>1, <2>2, Zenon
<1>4. CASE p <= Len(s)
  <2> DEFINE x == ArgStart(s, p)
             y == ArgEnd(s, p)
             w == SubSeq(s, x, y - 1)
  <2>1. x \in {p, p + 1} /\ x \in 1 .. (Len(s) + 1)
    BY <1>1, <1>2, <1>4 DEF ArgStart
  <2>2. y \in x .. (Len(s) + 1)
    <3> HIDE DEF x
    <3>1. y = Scan(s, x, IF s[p] = Quote THEN {Quote} ELSE {Space})
      BY Zenon DEF ArgEnd, x
    <3> HIDE DEF y
    <3> QED
      BY <1>1, <2>1, <3>1, ScanFinds
  <2> HIDE DEF x, y
  <2>3. w \in Seq(Typed)
    <3>1. \A k \in x .. (y - 1) : k \in 1 .. Len(s)
      BY <1>1, <1>2, <2>1, <2>2
    <3> QED
      BY <1>1, <2>1, <2>2, <3>1
  <2>4. NextArg(s, i) = IF y > Len(s) THEN Len(s) + 1 ELSE y + 1
    BY <1>1, <1>2, <1>4 DEF NextArg, p, y
  <2>5. ASSUME NEW v \in Seq(Seq(Typed)) PROVE ArgsFrom(s, i, v) \in Seq(Seq(Typed))
    <3>1. ~ (p > Len(s))
      BY <1>1, <1>2, <1>4
    <3>2. ArgsFrom(s, i, v) = <<w>> \o (IF y > Len(s) THEN <<>> ELSE v)
      BY <3>1, Zenon DEF ArgsFrom, p, x, y
    <3> HIDE DEF w
    <3> QED
      BY <2>3, <3>2
  <2>6. y + 1 > i
    BY <1>1, <1>2, <2>1, <2>2
  <2> QED
    BY <1>1, <2>2, <2>4, <2>5, <2>6
<1> QED
  BY <1>1, <1>2, <1>3, <1>4

\* The arguments are computed from the end of the line.
LEMMA ArgvIs ==
    ASSUME NEW s \in Seq(Typed)
    PROVE  \E f \in [1 .. (Len(s) + 1) -> Seq(Seq(Typed))] :
              /\ Argv(s) = f[1]
              /\ \A i \in 1 .. Len(s) : f[i] = ArgsFrom(s, i, f[NextArg(s, i)])
<1> DEFINE n == Len(s)
           S == Seq(Seq(Typed))
           nx == [i \in 1 .. n |-> NextArg(s, i)]
           g == [i \in 1 .. n |-> [v \in S |-> ArgsFrom(s, i, v)]]
           Body(from, i) ==
              LET p == Scan(s, i, Typed \ {Space})
              IN IF p > Len(s) THEN <<>>
                 ELSE LET start == IF s[p] = Quote THEN p + 1 ELSE p
                          end   == Scan(s, start, IF s[p] = Quote THEN {Quote} ELSE {Space})
                      IN <<SubSeq(s, start, end - 1)>>
                         \o (IF end > Len(s) THEN <<>> ELSE from[end + 1])
           f == CHOOSE from : from = [i \in 1..Len(s) + 1 |-> Body(from, i)]
<1>1. n \in Nat /\ <<>> \in S
  OBVIOUS
<1>2. Argv(s) = f[1]
  BY Zenon DEF Argv
<1>3. ASSUME NEW from, NEW i \in 1 .. n
      PROVE Body(from, i) = ArgsFrom(s, i, from[NextArg(s, i)])
  <2> DEFINE p == Scan(s, i, NonBlank)
             y == ArgEnd(s, p)
  <2>1. Body(from, i) = IF p > Len(s) THEN <<>>
                        ELSE <<SubSeq(s, ArgStart(s, p), y - 1)>>
                             \o (IF y > Len(s) THEN <<>> ELSE from[y + 1])
    BY Zenon DEF NonBlank, ArgStart, ArgEnd
  <2>2. ArgsFrom(s, i, from[NextArg(s, i)]) =
                IF p > Len(s) THEN <<>>
                ELSE <<SubSeq(s, ArgStart(s, p), y - 1)>>
                     \o (IF y > Len(s) THEN <<>> ELSE from[NextArg(s, i)])
    BY Zenon DEF ArgsFrom
  <2>3. ~ (p > Len(s)) /\ ~ (y > Len(s)) => NextArg(s, i) = y + 1
    BY Zenon DEF NextArg
  <2> HIDE DEF p, y, Body
  <2>4. ~ (p > Len(s)) =>
           (IF y > Len(s) THEN <<>> ELSE from[y + 1])
              = (IF y > Len(s) THEN <<>> ELSE from[NextArg(s, i)])
    BY <2>3, Zenon
  <2>5. CASE p > Len(s)
    BY <2>1, <2>2, <2>5, Zenon
  <2>6. CASE ~ (p > Len(s))
    BY <2>1, <2>2, <2>4, <2>6, Zenon
  <2> QED
    BY <2>5, <2>6
<1>4. \A from : Body(from, n + 1) = <<>>
  <2>1. Scan(s, n + 1, NonBlank) \in (n + 1) .. (n + 1)
    BY <1>1, ScanFinds
  <2>2. Scan(s, n + 1, NonBlank) > Len(s)
    BY <1>1, <2>1
  <2> QED
    BY <2>2, Zenon DEF NonBlank
<1> HIDE DEF Body, g
<1>5. \A i \in 1 .. n : NextArg(s, i) \in (i + 1) .. (n + 1) /\ i \in 1 .. (n + 1)
  BY <1>1, ArgSteps
<1>6. \E from : from = [i \in 1..Len(s) + 1 |-> Body(from, i)]
  <2>1. \A i \in 1 .. n : nx[i] \in (i + 1) .. (n + 1)
    BY <1>5
  <2>2. \A i \in 1 .. n, v \in S : g[i][v] = ArgsFrom(s, i, v)
    BY DEF g
  <2>4. \A i \in 1 .. n : nx[i] = NextArg(s, i)
    OBVIOUS
  <2> HIDE DEF nx, g, S, n
  <2>10. PICK h : WordByWord(n, S, <<>>, nx, g, h)
    <3>1. <<>> \in S
      BY <1>1
    <3>2. nx \in [1 .. n -> Nat]
      <4>1. \A i \in 1 .. n : NextArg(s, i) \in Nat
        BY <1>1, <1>5
      <4> QED
        BY <4>1 DEF nx
    <3>3. g \in [1 .. n -> [S -> S]]
      <4>1. \A i \in 1 .. n, v \in S : ArgsFrom(s, i, v) \in S
        BY ArgSteps DEF n, S
      <4> QED
        BY <4>1 DEF g
    <3> QED
      BY <1>1, <2>1, <3>1, <3>2, <3>3, WordRecursion
  <2>5. /\ h \in [1 .. (n + 1) -> S] /\ h[n + 1] = <<>>
        /\ \A i \in 1 .. n : h[i] = g[i][h[nx[i]]]
    BY <2>10 DEF WordByWord
  <2>6. \A i \in 1 .. n : h[NextArg(s, i)] \in S
    <3>1. \A i \in 1 .. n : NextArg(s, i) \in 1 .. (n + 1)
      BY <1>1, <1>5
    <3> QED
      BY <2>5, <3>1
  <2>7. \A i \in 1 .. n : h[i] = Body(h, i)
    <3> TAKE i \in 1 .. n
    <3>1. h[i] = g[i][h[NextArg(s, i)]]
      BY <2>4, <2>5
    <3>2. g[i][h[NextArg(s, i)]] = ArgsFrom(s, i, h[NextArg(s, i)])
      BY <2>2, <2>6
    <3>3. Body(h, i) = ArgsFrom(s, i, h[NextArg(s, i)])
      BY <1>3 DEF n
    <3> QED
      BY <3>1, <3>2, <3>3, Zenon
  <2>8. \A i \in 1 .. (n + 1) : h[i] = Body(h, i)
    <3>1. \A i \in 1 .. (n + 1) : i \in 1 .. n \/ i = n + 1
      BY <1>1
    <3> QED
      BY <1>4, <2>5, <2>7, <3>1
  <2>9. h = [i \in 1..n + 1 |-> Body(h, i)]
    BY <2>5, <2>8
  <2> QED
    BY <2>9 DEF n
<1>7. f = [i \in 1..Len(s) + 1 |-> Body(f, i)]
  BY <1>6, Zenon
<1> HIDE DEF f
<1>8. DOMAIN f = 1 .. (n + 1) /\ f = [i \in 1 .. (n + 1) |-> f[i]]
  <2> QED
    BY <1>7
<1>9. f[n + 1] = <<>> /\ \A i \in 1 .. n : f[i] = ArgsFrom(s, i, f[NextArg(s, i)])
  <2>1. \A i \in 1 .. (n + 1) : f[i] = Body(f, i)
    <3> HIDE DEF Body
    <3> QED
      BY <1>7
  <2>2. n + 1 \in 1 .. (n + 1)
    BY <1>1
  <2> HIDE DEF n
  <2> QED
    BY <1>3, <1>4, <1>5, <2>1, <2>2
<1>10. \A i \in 1 .. (n + 1) : f[i] \in S
  <2> DEFINE A == {i \in 1 .. (n + 1) : f[i] \in S}
  <2>1. \A i \in 1 .. n : nx[i] \in (i + 1) .. (n + 1) /\ nx[i] = NextArg(s, i)
    BY <1>5
  <2>2. n + 1 \in A
    <3>1. n + 1 \in 1 .. (n + 1) /\ f[n + 1] \in S
      BY <1>1, <1>9
    <3> HIDE DEF S, n
    <3> QED
      BY <3>1
  <2>3. \A i \in 1 .. n : nx[i] \in A => i \in A
    BY <1>5, <1>9, <2>1, ArgSteps
  <2>5. nx \in [1 .. n -> Nat]
    <3>1. \A i \in 1 .. n : NextArg(s, i) \in Nat
      BY <1>1, <1>5
    <3> QED
      BY <3>1
  <2> HIDE DEF A, nx
  <2>4. \A i \in 1 .. (n + 1) : i \in A
    BY <1>1, <2>1, <2>2, <2>3, <2>5, WordInduction
  <2> QED
    BY <2>4 DEF A
<1> QED
  BY <1>2, <1>8, <1>9, <1>10

\* The first argument, when it is not quoted, is the first word.
LEMMA ArgvFirst ==
    ASSUME NEW s \in Seq(Typed), NEW p, p = Scan(s, 1, NonBlank), p <= Len(s),
           s[p] # Quote
    PROVE  Argv(s)[1] = SubSeq(s, p, Scan(s, p, {Space}) - 1)
<1>1. Len(s) \in Nat /\ p \in 1 .. (Len(s) + 1) /\ 1 \in 1 .. Len(s)
  <2>1. Len(s) \in Nat
    OBVIOUS
  <2>2. p \in 1 .. (Len(s) + 1)
    BY <2>1, ScanFinds
  <2> QED
    BY <2>1, <2>2
<1>2. PICK f \in [1 .. (Len(s) + 1) -> Seq(Seq(Typed))] :
           /\ Argv(s) = f[1]
           /\ \A i \in 1 .. Len(s) : f[i] = ArgsFrom(s, i, f[NextArg(s, i)])
  BY ArgvIs
<1> DEFINE v == f[NextArg(s, 1)]
           y == ArgEnd(s, p)
           w == SubSeq(s, ArgStart(s, p), y - 1)
           t == IF y > Len(s) THEN <<>> ELSE v
<1>3. NextArg(s, 1) \in (1 + 1) .. (Len(s) + 1)
  BY <1>1, ArgSteps
<1>4. v \in Seq(Seq(Typed))
  BY <1>1, <1>2, <1>3
<1>5. ~ (p > Len(s))
  BY <1>1
<1>6. Argv(s) = <<w>> \o t
  BY <1>1, <1>2, <1>5, Zenon DEF ArgsFrom
<1>7. t \in Seq(Seq(Typed))
  BY <1>4
<1> HIDE DEF w, t
<1>8. Argv(s)[1] = w
  BY <1>6, <1>7
<1>9. w = SubSeq(s, p, Scan(s, p, {Space}) - 1)
  BY Zenon DEF w, ArgStart, ArgEnd
<1> QED
  BY <1>8, <1>9

-----------------------------------------------------------------------------
(* render_line's words, and what it draws the first one in.                *)

\* The position from which render_line looks for the next word.
NextWord(s, k) ==
    LET p == Scan(s, k, NonBlank)
    IN IF p > Len(s) THEN Len(s) + 1 ELSE DrawnEnd(s, p) + 1

\* Where the words from k on begin, when those after the first are v.
StartsFrom(s, k, v) ==
    LET p == Scan(s, k, NonBlank) IN IF p > Len(s) THEN {} ELSE {p} \cup v

\* The hue of position i, when the words begin at T.
HueIn(s, i, T) ==
    LET mine == {p \in T : p <= i /\ i <= DrawnEnd(s, p)}
    IN IF mine = {} THEN "grey"
       ELSE LET p == CHOOSE p \in mine : TRUE
                w == SubSeq(s, p, DrawnEnd(s, p))
            IN IF \A q \in T : p <= q
               THEN IF find_cmd(w) \/ proc_has(w) THEN "green" ELSE "red"
               ELSE IF s[p] = Quote THEN "yellow" ELSE "white"

\* A word is drawn to its end, within the line.
LEMMA DrawnWithin ==
    ASSUME NEW s \in Seq(Typed), NEW p \in 1 .. Len(s), s[p] # Space
    PROVE  DrawnEnd(s, p) \in p .. Len(s)
<1>1. Len(s) \in Nat /\ p \in 1 .. (Len(s) + 1) /\ p + 1 \in 1 .. (Len(s) + 1)
  OBVIOUS
<1>2. CASE s[p] = Quote
  <2> DEFINE q == Scan(s, p + 1, {Quote})
  <2>1. q \in (p + 1) .. (Len(s) + 1)
    BY <1>1, ScanFinds
  <2>2. DrawnEnd(s, p) = IF q <= Len(s) THEN q ELSE Len(s)
    BY <1>2 DEF DrawnEnd
  <2> HIDE DEF q
  <2> QED
    BY <1>1, <2>1, <2>2
<1>3. CASE s[p] # Quote
  <2> DEFINE q == Scan(s, p, {Space})
  <2>1. q \in p .. (Len(s) + 1) /\ (q = Len(s) + 1 \/ s[q] \in {Space})
    BY <1>1, ScanFinds
  <2>2. DrawnEnd(s, p) = q - 1
    BY <1>3 DEF DrawnEnd
  <2> HIDE DEF q
  <2>3. q # p
    BY <1>1, <2>1
  <2> QED
    BY <1>1, <2>1, <2>2, <2>3
<1> QED
  BY <1>2, <1>3

\* The first word from k on, and the position after it.
LEMMA WordSteps ==
    ASSUME NEW s \in Seq(Typed), NEW k \in 1 .. Len(s),
           NEW p, p = Scan(s, k, NonBlank)
    PROVE  /\ p \in k .. (Len(s) + 1)
           /\ p <= Len(s) => DrawnEnd(s, p) \in p .. Len(s)
           /\ NextWord(s, k) \in (k + 1) .. (Len(s) + 1)
<1>1. Len(s) \in Nat /\ k \in 1 .. (Len(s) + 1)
  OBVIOUS
<1>2. p \in k .. (Len(s) + 1) /\ (p = Len(s) + 1 \/ s[p] \in NonBlank)
  BY <1>1, ScanFinds
<1>3. CASE p > Len(s)
  <2>1. NextWord(s, k) = Len(s) + 1
    BY <1>3, Zenon DEF NextWord
  <2> QED
    BY <1>1, <1>2, <1>3, <2>1
<1>4. CASE ~ (p > Len(s))
  <2>1. NextWord(s, k) = DrawnEnd(s, p) + 1
    BY <1>4, Zenon DEF NextWord
  <2>2. p \in 1 .. Len(s) /\ s[p] # Space
    BY <1>1, <1>2, <1>4 DEF NonBlank
  <2>3. DrawnEnd(s, p) \in p .. Len(s)
    BY <2>2, DrawnWithin
  <2> QED
    BY <1>1, <1>2, <2>1, <2>3
<1> QED
  BY <1>3, <1>4

\* The words are found from the end of the line.
LEMMA HueIs ==
    ASSUME NEW s \in Seq(Typed)
    PROVE  \E f :
              /\ \A k \in 1 .. (Len(s) + 1) : f[k] \subseteq k .. Len(s)
              /\ \A k \in 1 .. Len(s) : f[k] = StartsFrom(s, k, f[NextWord(s, k)])
              /\ f[Len(s) + 1] = {}
              /\ \A i : Hue(s, i) = HueIn(s, i, f[1])
<1> DEFINE n == Len(s)
           S == SUBSET (1 .. n)
           nx == [k \in 1 .. n |-> NextWord(s, k)]
           g == [k \in 1 .. n |-> [v \in S |-> StartsFrom(s, k, v)]]
           Body(starts, k) ==
              LET p == Scan(s, k, Typed \ {Space})
              IN IF p > Len(s) THEN {} ELSE {p} \cup starts[DrawnEnd(s, p) + 1]
           f == CHOOSE starts : starts = [k \in 1..Len(s) + 1 |-> Body(starts, k)]
<1>1. n \in Nat
  OBVIOUS
<1>2. \A i : Hue(s, i) = HueIn(s, i, f[1])
  BY Zenon DEF Hue, HueIn
<1>3. ASSUME NEW starts, NEW k \in 1 .. n
      PROVE Body(starts, k) = StartsFrom(s, k, starts[NextWord(s, k)])
  <2> DEFINE p == Scan(s, k, NonBlank)
  <2>1. Body(starts, k) = IF p > Len(s) THEN {} ELSE {p} \cup starts[DrawnEnd(s, p) + 1]
    BY Zenon DEF NonBlank
  <2>2. StartsFrom(s, k, starts[NextWord(s, k)]) =
                IF p > Len(s) THEN {} ELSE {p} \cup starts[NextWord(s, k)]
    BY Zenon DEF StartsFrom
  <2>3. ~ (p > Len(s)) => NextWord(s, k) = DrawnEnd(s, p) + 1
    BY Zenon DEF NextWord
  <2> HIDE DEF p, Body
  <2>4. CASE p > Len(s)
    BY <2>1, <2>2, <2>4, Zenon
  <2>5. CASE ~ (p > Len(s))
    BY <2>1, <2>2, <2>3, <2>5, Zenon
  <2> QED
    BY <2>4, <2>5
<1>4. \A starts : Body(starts, n + 1) = {}
  <2>1. Scan(s, n + 1, NonBlank) \in (n + 1) .. (n + 1)
    BY <1>1, ScanFinds
  <2>2. Scan(s, n + 1, NonBlank) > Len(s)
    BY <1>1, <2>1
  <2> QED
    BY <2>2, Zenon DEF NonBlank
<1> HIDE DEF Body, g
<1>5. \A k \in 1 .. n : NextWord(s, k) \in (k + 1) .. (n + 1) /\ NextWord(s, k) \in Nat
  <2>1. \A k \in 1 .. n : NextWord(s, k) \in (k + 1) .. (n + 1)
    BY WordSteps
  <2> QED
    BY <1>1, <2>1
<1>6. nx \in [1 .. n -> Nat] /\ \A k \in 1 .. n : nx[k] = NextWord(s, k)
  BY <1>5
<1>7. \E starts : starts = [k \in 1..Len(s) + 1 |-> Body(starts, k)]
  <2>1. ASSUME NEW k \in 1 .. n, NEW v \in S PROVE StartsFrom(s, k, v) \in S
    <3> DEFINE p == Scan(s, k, NonBlank)
    <3>1. p \in k .. (n + 1)
      BY WordSteps
    <3>2. StartsFrom(s, k, v) = IF p > n THEN {} ELSE {p} \cup v
      BY Zenon DEF StartsFrom
    <3> HIDE DEF p
    <3> QED
      BY <1>1, <3>1, <3>2
  <2>2. \A k \in 1 .. n, v \in S : g[k][v] = StartsFrom(s, k, v)
    BY DEF g
  <2>3. \A k \in 1 .. n : nx[k] \in (k + 1) .. (n + 1)
    BY <1>5, <1>6
  <2>4. g \in [1 .. n -> [S -> S]]
    BY <2>1 DEF g
  <2>5. {} \in S
    OBVIOUS
  <2> HIDE DEF nx, S, n
  <2>6. PICK h : WordByWord(n, S, {}, nx, g, h)
    BY <1>1, <1>6, <2>3, <2>4, <2>5, WordRecursion
  <2>7. /\ h \in [1 .. (n + 1) -> S] /\ h[n + 1] = {}
        /\ \A i \in 1 .. n : h[i] = g[i][h[nx[i]]]
    BY <2>6 DEF WordByWord
  <2>8. \A k \in 1 .. n : h[NextWord(s, k)] \in S
    <3>1. \A k \in 1 .. n : NextWord(s, k) \in 1 .. (n + 1)
      BY <1>1, <1>5
    <3> QED
      BY <2>7, <3>1
  <2>9. \A k \in 1 .. n : h[k] = Body(h, k)
    <3> TAKE k \in 1 .. n
    <3>1. h[k] = g[k][h[NextWord(s, k)]]
      BY <1>6, <2>7
    <3>2. g[k][h[NextWord(s, k)]] = StartsFrom(s, k, h[NextWord(s, k)])
      BY <2>2, <2>8
    <3>3. Body(h, k) = StartsFrom(s, k, h[NextWord(s, k)])
      BY <1>3 DEF n
    <3> QED
      BY <3>1, <3>2, <3>3, Zenon
  <2>10. \A k \in 1 .. (n + 1) : h[k] = Body(h, k)
    <3>1. \A k \in 1 .. (n + 1) : k \in 1 .. n \/ k = n + 1
      BY <1>1
    <3> QED
      BY <1>4, <2>7, <2>9, <3>1
  <2>11. h = [k \in 1..n + 1 |-> Body(h, k)]
    BY <2>7, <2>10
  <2> QED
    BY <2>11 DEF n
<1>8. f = [k \in 1..Len(s) + 1 |-> Body(f, k)]
  BY <1>7, Zenon
<1> HIDE DEF f
<1>9. f[n + 1] = {} /\ \A k \in 1 .. n : f[k] = StartsFrom(s, k, f[NextWord(s, k)])
  <2>1. \A k \in 1 .. (n + 1) : f[k] = Body(f, k)
    BY <1>8
  <2>2. n + 1 \in 1 .. (n + 1) /\ \A k \in 1 .. n : k \in 1 .. (n + 1)
    BY <1>1
  <2> HIDE DEF n
  <2> QED
    BY <1>3, <1>4, <2>1, <2>2
<1>10. \A k \in 1 .. (n + 1) : f[k] \subseteq k .. n
  <2> DEFINE A == {k \in 1 .. (n + 1) : f[k] \subseteq k .. n}
  <2>1. \A k \in 1 .. n : nx[k] \in (k + 1) .. (n + 1)
    BY <1>5, <1>6
  <2>2. n + 1 \in A
    <3>1. n + 1 \in 1 .. (n + 1) /\ f[n + 1] \subseteq (n + 1) .. n
      BY <1>1, <1>9
    <3> HIDE DEF n
    <3> QED
      BY <3>1
  <2>3. ASSUME NEW k \in 1 .. n, nx[k] \in A PROVE k \in A
    <3> DEFINE p == Scan(s, k, NonBlank)
    <3>1. p \in k .. (n + 1) /\ NextWord(s, k) \in (k + 1) .. (n + 1)
      BY WordSteps
    <3>2. f[NextWord(s, k)] \subseteq NextWord(s, k) .. n
      BY <1>6, <2>3
    <3>3. f[k] = IF p > n THEN {} ELSE {p} \cup f[NextWord(s, k)]
      BY <1>9, Zenon DEF StartsFrom
    <3> HIDE DEF p
    <3>4. f[k] \subseteq k .. n
      BY <1>1, <3>1, <3>2, <3>3
    <3> QED
      BY <1>1, <3>4
  <2> HIDE DEF A, nx
  <2>4. \A k \in 1 .. (n + 1) : k \in A
    BY <1>1, <1>6, <2>1, <2>2, <2>3, WordInduction
  <2> QED
    BY <2>4 DEF A
<1> QED
  BY <1>2, <1>9, <1>10

\* The first word, unless it is quoted, is green just when it names a command.
LEMMA HueFirst ==
    ASSUME NEW s \in Seq(Typed), NEW p, p = Scan(s, 1, NonBlank), p <= Len(s),
           s[p] # Quote
    PROVE  Hue(s, p) = "green" <=> Found(s)
<1>1. Len(s) \in Nat /\ 1 \in 1 .. Len(s) /\ 1 \in 1 .. (Len(s) + 1)
  <2>1. Len(s) \in Nat
    OBVIOUS
  <2>2. p \in 1 .. (Len(s) + 1)
    BY <2>1, ScanFinds
  <2> QED
    BY <2>1, <2>2
<1>2. PICK f :
              /\ \A k \in 1 .. (Len(s) + 1) : f[k] \subseteq k .. Len(s)
              /\ \A k \in 1 .. Len(s) : f[k] = StartsFrom(s, k, f[NextWord(s, k)])
              /\ f[Len(s) + 1] = {}
              /\ \A i : Hue(s, i) = HueIn(s, i, f[1])
  BY HueIs
<1> DEFINE e == DrawnEnd(s, p)
           T == f[1]
           v == f[e + 1]
<1>3. p \in 1 .. Len(s) /\ e \in p .. Len(s)
  <2>1. p \in 1 .. (Len(s) + 1) /\ (p <= Len(s) => e \in p .. Len(s))
    BY <1>1, WordSteps
  <2> QED
    BY <1>1, <2>1
<1>4. T = {p} \cup v
  <2>1. ~ (p > Len(s))
    BY <1>1, <1>3
  <2>2. NextWord(s, 1) = e + 1
    BY <2>1, Zenon DEF NextWord
  <2>3. StartsFrom(s, 1, v) = {p} \cup v
    BY <2>1, Zenon DEF StartsFrom
  <2> QED
    BY <1>1, <1>2, <2>2, <2>3
<1>5. v \subseteq (e + 1) .. Len(s)
  BY <1>1, <1>2, <1>3
<1> HIDE DEF T, v
<1>6. {q \in T : q <= p /\ p <= DrawnEnd(s, q)} = {p}
  <2>1. \A q \in T : q <= p => q = p
    BY <1>1, <1>3, <1>4, <1>5
  <2>2. p \in T /\ p <= p /\ p <= DrawnEnd(s, p)
    BY <1>1, <1>3, <1>4
  <2> QED
    BY <2>1, <2>2, Zenon
<1>7. \A q \in T : p <= q
  BY <1>1, <1>3, <1>4, <1>5
<1> DEFINE w == SubSeq(s, p, e)
<1>8. HueIn(s, p, T) = IF find_cmd(w) \/ proc_has(w) THEN "green" ELSE "red"
  <2>1. (CHOOSE q \in {p} : TRUE) = p
    OBVIOUS
  <2>2. {p} # {}
    OBVIOUS
  <2> QED
    BY <1>6, <1>7, <2>1, <2>2, Zenon DEF HueIn
<1>9. Hue(s, p) = HueIn(s, p, T)
  BY <1>2 DEF T
<1>10. Argv(s)[1] = w
  <2>1. Argv(s)[1] = SubSeq(s, p, Scan(s, p, {Space}) - 1)
    BY ArgvFirst
  <2>2. e = Scan(s, p, {Space}) - 1
    BY Zenon DEF DrawnEnd
  <2> QED
    BY <2>1, <2>2
<1> HIDE DEF w
<1>11. Found(s) <=> (find_cmd(w) \/ proc_has(w))
  BY <1>10, Zenon DEF Found
<1>12. "green" # "red"
  OBVIOUS
<1> QED
  BY <1>8, <1>9, <1>11, <1>12, Zenon

-----------------------------------------------------------------------------
(* The row.                                                                *)

\* What a column from the prompt on shows when the line is s.
Shown(s, x) ==
    IF x - px < Len(s) THEN [ch |-> s[x - px + 1], hue |-> Hue(s, x - px + 1)] ELSE Bare

\* The line is in view, with its hues, and a column is left for the cursor.
InView == /\ px + len < ConCols
         /\ \A x \in Columns : px <= x => row[x] = Shown(b, x)

\* The inductive invariant: of the row it says the hues as well, which Redraw
\* needs of the columns it leaves alone.
LineInv ==
    /\ b \in Seq(Typed) /\ cur \in 0 .. len
    /\ hist \in Seq(Seq(Typed)) /\ px \in Prompts
    /\ ~wide => InView

\* A prompt leaves a column.
LEMMA PromptIn ==
    ASSUME NEW x \in Prompts
    PROVE  x \in Nat /\ x < ConCols /\ ConCols \in Nat \ {0}
BY LineAssumption

\* Drawing what is as long as the old line, the pad included, and fits the row
\* leaves nothing of the old line.
LEMMA Redraw ==
    ASSUME LineInv, InView, NEW s \in Seq(Typed), NEW pad \in Nat,
           px + Len(s) + pad < ConCols, len <= Len(s) + pad,
           NEW x \in Columns, px <= x
    PROVE  render_line(s, pad)[x] = Shown(s, x)
<1> DEFINE end  == px + Len(s) + pad
           over == end - (end % ConCols)
           i == over + x - px + 1
<1>1. /\ px \in Nat /\ px < ConCols /\ ConCols \in Nat \ {0} /\ x \in Nat
      /\ Len(s) \in Nat /\ len \in Nat /\ end \in Nat /\ end < ConCols
  <2>1. px \in Nat /\ px < ConCols /\ ConCols \in Nat \ {0}
    BY PromptIn DEF LineInv
  <2>2. x \in Nat
    BY <2>1 DEF Columns
  <2>3. Len(s) \in Nat /\ len \in Nat
    BY DEF LineInv, len
  <2> QED
    BY <2>1, <2>2, <2>3
<1>2. over = 0
  <2> HIDE DEF end
  <2> QED
    BY <1>1
<1>3. render_line(s, pad)[x] = IF 1 <= i /\ i <= Len(s) THEN [ch |-> s[i], hue |-> Hue(s, i)]
                               ELSE IF over > 0 \/ (px <= x /\ x < end) THEN Bare
                               ELSE row[x]
  BY Zenon DEF render_line
<1>4. i = x - px + 1
  <2> HIDE DEF over
  <2> QED
    BY <1>1, <1>2
<1> HIDE DEF i, over
<1>5. CASE x - px < Len(s)
  <2>1. 1 <= i /\ i <= Len(s)
    BY <1>1, <1>4, <1>5
  <2> QED
    BY <1>3, <1>4, <1>5, <2>1, Zenon DEF Shown
<1>6. CASE ~ (x - px < Len(s))
  <2>1. ~ (i <= Len(s)) /\ ~ (over > 0)
    BY <1>1, <1>2, <1>4, <1>6
  <2>2. Shown(s, x) = Bare
    BY <1>6, Zenon DEF Shown
  <2>3. CASE x < end
    BY <1>3, <2>1, <2>2, <2>3, Zenon
  <2>4. CASE ~ (x < end)
    <3>1. row[x] = Shown(b, x)
      BY DEF InView
    <3>2. ~ (x - px < len)
      BY <1>1, <2>4
    <3>3. row[x] = Bare
      BY <3>1, <3>2, Zenon DEF Shown, len
    <3> QED
      BY <1>3, <2>1, <2>2, <2>4, <3>3, Zenon
  <2> QED
    BY <2>3, <2>4
<1> QED
  BY <1>5, <1>6

\* A line without one of its characters.
LEMMA WithoutOne ==
    ASSUME b \in Seq(Typed), NEW i \in 1 .. len
    PROVE  Without(i) \in Seq(Typed) /\ Len(Without(i)) = len - 1
<1> DEFINE s == SubSeq(b, 1, i - 1)
           t == SubSeq(b, i + 1, len)
<1>1. len \in Nat /\ len = Len(b)
  BY DEF len
<1>2. s \in Seq(Typed) /\ Len(s) = i - 1
  <2>1. \A k \in 1 .. (i - 1) : k \in 1 .. Len(b)
    BY <1>1
  <2> QED
    BY <1>1, <2>1
<1>3. t \in Seq(Typed) /\ Len(t) = len - i
  <2>1. \A k \in (i + 1) .. len : k \in 1 .. Len(b)
    BY <1>1
  <2> QED
    BY <1>1, <2>1
<1>4. Without(i) = s \o t
  BY Zenon DEF Without
<1> HIDE DEF s, t
<1> QED
  BY <1>1, <1>2, <1>3, <1>4

\* A character between two pieces of a line.
LEMMA Inserted ==
    ASSUME NEW t \in Seq(Typed), NEW u \in Seq(Typed), NEW c \in Typed
    PROVE  t \o <<c>> \o u \in Seq(Typed) /\ Len(t \o <<c>> \o u) = Len(t) + 1 + Len(u)
<1> DEFINE v == t \o <<c>>
<1>1. v \in Seq(Typed) /\ Len(v) = Len(t) + 1
  OBVIOUS
<1> HIDE DEF v
<1>2. v \o u \in Seq(Typed) /\ Len(v \o u) = Len(t) + 1 + Len(u)
  BY <1>1
<1> QED
  BY <1>2 DEF v

\* A line with one more character.
LEMMA WithOne ==
    ASSUME b \in Seq(Typed), cur \in 0 .. len, NEW c \in Typed,
           NEW s, s = SubSeq(b, 1, cur) \o <<c>> \o SubSeq(b, cur + 1, len)
    PROVE  s \in Seq(Typed) /\ Len(s) = len + 1
<1> DEFINE t == SubSeq(b, 1, cur)
           u == SubSeq(b, cur + 1, len)
<1>1. len \in Nat /\ len = Len(b)
  BY DEF len
<1>2. t \in Seq(Typed) /\ Len(t) = cur
  <2>1. \A k \in 1 .. cur : k \in 1 .. Len(b)
    BY <1>1
  <2> QED
    BY <1>1, <2>1
<1>3. u \in Seq(Typed) /\ Len(u) = len - cur
  <2>1. \A k \in (cur + 1) .. len : k \in 1 .. Len(b)
    BY <1>1
  <2> QED
    BY <1>1, <2>1
<1> HIDE DEF t, u
<1>4. s = t \o <<c>> \o u
  BY Zenon DEF t, u
<1>5. t \o <<c>> \o u \in Seq(Typed) /\ Len(t \o <<c>> \o u) = Len(t) + 1 + Len(u)
  BY <1>2, <1>3, Inserted
<1>6. cur + 1 + (len - cur) = len + 1
  BY <1>1
<1> QED
  BY <1>2, <1>3, <1>4, <1>5, <1>6, Zenon

\* A line redrawn in place.
LEMMA RedrawnLine ==
    ASSUME LineInv, b' \in Seq(Typed), NEW pad \in Nat, row' = render_line(b', pad),
           px' = px, ~wide => px + Len(b') + pad < ConCols /\ len <= Len(b') + pad,
           ~wide' => ~wide
    PROVE  ~wide' => InView'
<1> SUFFICES ASSUME ~wide' PROVE InView'
  OBVIOUS
<1>1. InView /\ px + Len(b') + pad < ConCols /\ len <= Len(b') + pad
  BY DEF LineInv
<1>2. px \in Nat /\ ConCols \in Nat /\ Len(b') \in Nat
  <2>1. px \in Nat /\ ConCols \in Nat
    BY PromptIn DEF LineInv
  <2> QED
    BY <2>1
<1>3. px' + len' < ConCols
  BY <1>1, <1>2 DEF len
<1>4. ASSUME NEW x \in Columns, px' <= x PROVE row'[x] = Shown(b, x)'
  <2>1. render_line(b', pad)[x] = Shown(b', x)
    BY <1>1, <1>4, Redraw
  <2> QED
    BY <2>1 DEF Shown
<1> QED
  BY <1>3, <1>4 DEF InView, Columns

\* A new line is drawn.
LEMMA NewLineInv ==
    ASSUME LineInv, hist' \in Seq(Seq(Typed)), NewLine
    PROVE  LineInv'
<1>1. b' = <<>> /\ cur' = 0 /\ px' \in Prompts /\ row' = [x \in Columns |-> Bare]
  BY DEF NewLine
<1>2. PICK q \in Prompts : px' = q
  BY <1>1
<1>3. q \in Nat /\ q < ConCols /\ ConCols \in Nat \ {0}
  BY PromptIn
<1>4. Len(b') = 0 /\ b' \in Seq(Typed)
  BY <1>1
<1>5. ASSUME NEW x \in Columns, px' <= x PROVE row'[x] = Shown(b, x)'
  <2>1. q <= x
    BY <1>2, <1>5, Zenon
  <2>2. ~ (x - q < 0)
    BY <1>3, <2>1 DEF Columns
  <2>3. ~ (x - px' < Len(b'))
    BY <1>2, <1>4, <2>2, Zenon
  <2>4. Shown(b, x)' = Bare
    BY <2>3, Zenon DEF Shown, Bare
  <2> QED
    BY <1>1, <2>4
<1>6. InView'
  <2>1. q + 0 < ConCols
    BY <1>3
  <2>2. px' + len' < ConCols
    BY <1>2, <1>4, <2>1, Zenon DEF len
  <2> QED
    BY <1>5, <2>2 DEF InView, Columns
<1>7. cur' \in 0 .. len'
  <2>1. 0 \in 0 .. 0
    OBVIOUS
  <2> QED
    BY <1>1, <1>4, <2>1, Zenon DEF len
<1> QED
  BY <1>1, <1>4, <1>6, <1>7 DEF LineInv

\* A command line is stored as it is.
LEMMA StoredLines ==
    ASSUME LineInv
    PROVE  Stored \in Seq(Seq(Typed))
<1>1. b \in Seq(Typed) /\ hist \in Seq(Seq(Typed)) /\ HistMax \in Nat \ {0}
  BY LineAssumption DEF LineInv
<1>2. CASE Len(hist) = HistMax
  <2> DEFINE t == SubSeq(hist, 2, HistMax)
  <2>1. \A k \in 2 .. HistMax : k \in 1 .. Len(hist)
    BY <1>1, <1>2
  <2>2. t \in Seq(Seq(Typed))
    BY <1>1, <1>2, <2>1
  <2>3. Stored = Append(t, b)
    BY <1>2, Zenon DEF Stored
  <2> HIDE DEF t
  <2> QED
    BY <1>1, <2>2, <2>3
<1>3. CASE Len(hist) # HistMax
  <2>1. Stored = Append(hist, b)
    BY <1>3, Zenon DEF Stored
  <2> QED
    BY <1>1, <2>1
<1> QED
  BY <1>2, <1>3

\* A recalled line is drawn, or known to be too long.
LEMMA RecallInv ==
    ASSUME LineInv, NEW want, Recall(want)
    PROVE  LineInv'
<1> DEFINE pad == IF len > Len(b') THEN len - Len(b') ELSE 0
<1>1. /\ want \in 0..Len(hist)
      /\ b' = IF want = Len(hist) THEN <<>> ELSE hist[want + 1]
      /\ cur' = Len(b') /\ row' = render_line(b', pad)
      /\ wide' = (wide \/ px + Len(b') >= ConCols)
      /\ hist' = hist /\ px' = px
  BY Zenon DEF Recall
<1>2. b' \in Seq(Typed)
  <2>1. hist \in Seq(Seq(Typed))
    BY DEF LineInv
  <2>2. want # Len(hist) => want + 1 \in 1 .. Len(hist)
    BY <1>1, <2>1
  <2>3. <<>> \in Seq(Typed)
    OBVIOUS
  <2>4. want # Len(hist) => hist[want + 1] \in Seq(Typed)
    BY <2>1, <2>2
  <2> QED
    BY <1>1, <2>3, <2>4, Zenon
<1>3. /\ Len(b') \in Nat /\ len \in Nat /\ px \in Nat /\ ConCols \in Nat
      /\ (~wide => px + len < ConCols)
  <2>1. px \in Nat /\ ConCols \in Nat
    BY PromptIn DEF LineInv
  <2>2. len \in Nat
    BY DEF LineInv, len
  <2>3. ~wide => px + len < ConCols
    BY DEF LineInv, InView
  <2>4. Len(b') \in Nat
    BY <1>2
  <2> QED
    BY <2>1, <2>2, <2>3, <2>4
<1>4. pad \in Nat /\ len <= Len(b') + pad /\ (pad = 0 \/ Len(b') + pad = len)
  BY <1>3
<1> HIDE DEF pad
<1>5. CASE wide'
  BY <1>1, <1>2, <1>3, <1>5 DEF LineInv, len
<1>6. CASE ~wide'
  <2>1. ~wide /\ ~ (px + Len(b') >= ConCols)
    BY <1>1, <1>6, Zenon
  <2>2. px + Len(b') + pad < ConCols
    BY <1>3, <1>4, <2>1
  <2>3. InView'
    BY <1>1, <1>2, <1>4, <1>6, <2>1, <2>2, RedrawnLine
  <2> QED
    BY <1>1, <1>2, <1>3, <2>3 DEF LineInv, len
<1> QED
  BY <1>5, <1>6

\* The editor starts with an empty line.
LEMMA LineInitInv == LineInit => LineInv
<1> SUFFICES ASSUME LineInit PROVE LineInv
  OBVIOUS
<1>1. b = <<>> /\ cur = 0 /\ hist = <<>> /\ px \in Prompts /\ row = [x \in Columns |-> Bare]
  BY DEF LineInit
<1>2. px \in Nat /\ px < ConCols /\ ConCols \in Nat \ {0}
  BY <1>1, PromptIn
<1>3. Len(b) = 0 /\ b \in Seq(Typed) /\ hist \in Seq(Seq(Typed))
  BY <1>1
<1>4. ASSUME NEW x \in Columns, px <= x PROVE row[x] = Shown(b, x)
  <2>1. x \in Nat
    BY <1>2 DEF Columns
  <2>2. ~ (x - px < Len(b))
    BY <1>2, <1>3, <1>4, <2>1
  <2>3. Shown(b, x) = Bare
    BY <2>2, Zenon DEF Shown
  <2> QED
    BY <1>1, <2>3
<1>5. InView
  BY <1>2, <1>3, <1>4 DEF InView, len
<1> QED
  BY <1>1, <1>3, <1>5 DEF LineInv, len

\* Every key keeps the invariant.
LEMMA LineNextInv == LineInv /\ [LineNext]_lineVars => LineInv'
<1> SUFFICES ASSUME LineInv, [LineNext]_lineVars PROVE LineInv'
  OBVIOUS
<1>1. /\ b \in Seq(Typed) /\ cur \in 0 .. len /\ hist \in Seq(Seq(Typed))
      /\ px \in Nat /\ ConCols \in Nat /\ len \in Nat /\ len = Len(b)
      /\ px \in Prompts /\ (~wide => px + len < ConCols)
  <2>1. px \in Nat /\ ConCols \in Nat
    BY PromptIn DEF LineInv
  <2>2. ~wide => px + len < ConCols
    BY DEF LineInv, InView
  <2> QED
    BY <2>1, <2>2 DEF LineInv, len
<1>2. ASSUME NEW c \in Typed, Type(c) PROVE LineInv'
  <2>1. /\ px + len + 2 < ConCols
        /\ b' = SubSeq(b, 1, cur) \o <<c>> \o SubSeq(b, cur + 1, len)
        /\ cur' = cur + 1 /\ row' = render_line(b', 0)
        /\ hist' = hist /\ px' = px /\ wide' = wide
    BY <1>2 DEF Type, history
  <2>2. b' \in Seq(Typed) /\ Len(b') = len + 1
    BY <1>1, <2>1, WithOne
  <2>3. px + Len(b') + 0 < ConCols /\ len <= Len(b') + 0
    <3>1. px + (len + 1) + 0 < ConCols /\ len <= (len + 1) + 0
      <4>1. px + len + 2 < ConCols
        BY <2>1
      <4> QED
        BY <1>1, <4>1
    <3> QED
      BY <2>2, <3>1, Zenon
  <2>4. ~wide' => InView'
    BY <2>1, <2>2, <2>3, RedrawnLine
  <2>5. cur' \in 0 .. len'
    <3>1. cur + 1 \in 0 .. (len + 1)
      BY <1>1
    <3> QED
      BY <2>1, <2>2, <3>1, Zenon DEF len
  <2> QED
    BY <1>1, <2>1, <2>2, <2>4, <2>5 DEF LineInv
<1>3. ASSUME NEW i \in 1 .. len, b' = Without(i), row' = render_line(b', 1),
             cur' \in 0 .. (len - 1), hist' = hist, px' = px, wide' = wide
      PROVE LineInv'
  <2>1. b' \in Seq(Typed) /\ Len(b') = len - 1
    BY <1>1, <1>3, WithoutOne
  <2>2. (~wide => px + Len(b') + 1 < ConCols) /\ len <= Len(b') + 1
    BY <1>1, <2>1
  <2>3. ~wide' => InView'
    BY <1>3, <2>1, <2>2, RedrawnLine
  <2> QED
    BY <1>1, <1>3, <2>1, <2>3 DEF LineInv, len
<1>4. CASE Backspace
  <2>1. /\ cur > 0 /\ b' = Without(cur) /\ cur' = cur - 1 /\ row' = render_line(b', 1)
        /\ hist' = hist /\ px' = px /\ wide' = wide
    BY <1>4 DEF Backspace, history
  <2>2. cur \in 1 .. len /\ cur' \in 0 .. (len - 1)
    BY <1>1, <2>1
  <2> QED
    BY <1>3, <2>1, <2>2
<1>5. CASE Del
  <2>1. /\ cur < len /\ b' = Without(cur + 1) /\ cur' = cur /\ row' = render_line(b', 1)
        /\ hist' = hist /\ px' = px /\ wide' = wide
    BY <1>5 DEF Del, history
  <2>2. cur + 1 \in 1 .. len /\ cur' \in 0 .. (len - 1)
    BY <1>1, <2>1
  <2> QED
    BY <1>3, <2>1, <2>2
<1>6. ASSUME cur' \in 0 .. len, UNCHANGED <<b, row, history>> PROVE LineInv'
  BY <1>6 DEF LineInv, InView, Shown, history, len, Columns
<1>7. CASE Move
  <2>1. cur' \in 0 .. len
    <3>1. PICK c \in {0, len} \cup {c \in 0..len : c + 1 = cur \/ c = cur + 1} : cur' = c
      BY <1>7 DEF Move
    <3>2. c \in 0 .. len
      BY <1>1
    <3> QED
      BY <3>1, <3>2
  <2> QED
    BY <1>6, <1>7, <2>1 DEF Move
<1>8. CASE KEY_UP
  BY <1>8, RecallInv DEF KEY_UP
<1>9. CASE KEY_DOWN
  BY <1>9, RecallInv DEF KEY_DOWN
<1>10. CASE EnterEmpty
  BY <1>1, <1>10, NewLineInv DEF EnterEmpty
<1>11. CASE Enter
  BY <1>11, NewLineInv, StoredLines DEF Enter
<1>12. CASE UNCHANGED lineVars
  BY <1>1, <1>6, <1>12 DEF lineVars, history
<1> QED
  BY <1>2, <1>4, <1>5, <1>7, <1>8, <1>9, <1>10, <1>11, <1>12 DEF LineNext

\* The invariant always holds.
LEMMA LineAlways == LineSpec => []LineInv
  BY LineInitInv, LineNextInv, PTL DEF LineSpec

\* The row shows the line and nothing else, with a column left for the cursor,
\* after any keys, unless a recalled line did not fit (render_line's padding).
THEOREM RowShowsLine == LineSpec => []RowShowsLineUnlessWide
<1>1. LineInv => RowShowsLineUnlessWide
  <2> SUFFICES ASSUME LineInv, ~wide PROVE
                 /\ px + len < ConCols
                 /\ \A x \in Columns : px <= x =>
                       row[x].ch = IF x - px < len THEN b[x - px + 1] ELSE Space
    BY DEF RowShowsLineUnlessWide
  <2>1. InView
    BY DEF LineInv
  <2>2. ASSUME NEW x \in Columns, px <= x
        PROVE row[x].ch = IF x - px < len THEN b[x - px + 1] ELSE Space
    <3>1. row[x] = Shown(b, x)
      BY <2>1, <2>2 DEF InView
    <3>2. CASE x - px < len
      BY <3>1, <3>2 DEF Shown, len
    <3>3. CASE ~ (x - px < len)
      BY <3>1, <3>3 DEF Shown, len, Bare
    <3> QED
      BY <3>2, <3>3
  <2> QED
    BY <2>1, <2>2 DEF InView
<1> QED
  BY <1>1, LineAlways, PTL

\* The first word, unless it is quoted, is drawn green just when shell_run_line
\* runs a command or a program of its name, or turns the line down for its
\* number of words alone.
THEOREM GreenWordRuns == LineSpec => []GreenRuns
<1>1. LineInv => GreenRuns
  <2> DEFINE p == Scan(b, 1, Typed \ {Space})
  <2> SUFFICES ASSUME LineInv, ~wide, p <= len, b[p] # Quote
               PROVE  row[px + p - 1].hue = "green" <=> Runs(b) \/ (TooMany(b) /\ Found(b))
    BY Zenon DEF GreenRuns
  <2>1. InView /\ b \in Seq(Typed) /\ px \in Prompts
    BY DEF LineInv
  <2>2. px \in Nat /\ ConCols \in Nat /\ len \in Nat /\ len = Len(b)
    BY <2>1, PromptIn DEF len
  <2>3. p = Scan(b, 1, NonBlank)
    BY Zenon DEF NonBlank
  <2> HIDE DEF p
  <2>4. p \in 1 .. (Len(b) + 1)
    <3>1. 1 \in 1 .. (Len(b) + 1)
      BY <2>2
    <3> QED
      BY <2>2, <2>3, <3>1, ScanFinds
  <2> DEFINE x == px + p - 1
  <2>5. x \in Columns /\ px <= x /\ x - px < Len(b) /\ x - px + 1 = p
    BY <2>1, <2>2, <2>4 DEF InView, Columns
  <2> HIDE DEF x
  <2>6. row[x] = Shown(b, x)
    BY <2>1, <2>5 DEF InView
  <2>7. row[x].hue = Hue(b, p)
    BY <2>5, <2>6 DEF Shown
  <2>8. Hue(b, p) = "green" <=> Found(b)
    BY <2>1, <2>2, <2>3, HueFirst
  <2>9. Found(b) <=> Runs(b) \/ (TooMany(b) /\ Found(b))
    BY Zenon DEF Runs
  <2> QED
    BY <2>7, <2>8, <2>9 DEF x
<1> QED
  BY <1>1, LineAlways, PTL
=============================================================================
