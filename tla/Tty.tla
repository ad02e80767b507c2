-------------------------------- MODULE Tty --------------------------------
(***************************************************************************)
(* The text terminal of src/kernel/drivers/tty.c on the frame buffer       *)
(* (fbcon.c, fb.c): a cursor that moves over COLS x ROWS characters, and   *)
(* the cells of the part of them that the video mode really shows.         *)
(*                                                                         *)
(* Positions count characters (CHAR_W x CHAR_H pixels).  Drawing a glyph   *)
(* sets pixels and clears none; the glyphs of ' ' and '\b' are full blocks *)
(* and drawn in the background colour, so that they clear a cell.  Every   *)
(* other glyph is drawn on a cell that was just cleared, except for the    *)
(* cursor '_', which goes over whatever the next cell shows, and for what  *)
(* task1 draws, which goes over any text ("counter").                      *)
(***************************************************************************)
EXTENDS Integers, Sequences

CONSTANTS
  COLS, ROWS,      \* SCREEN_WIDTH / CHAR_W and SCREEN_HEIGHT / CHAR_H (160 and 50)
  FBCOLS, FBROWS,  \* what fb.width and fb.height have room for (113 and 48 in
                   \* mode 0x118, which the boot sector sets)
  CHAR_W,          \* 9 in the code
  Newline, Backspace, Tab,
  Printable        \* the characters with a glyph, other than the space

Visible == (0 .. FBCOLS - 1) \X (0 .. FBROWS - 1)

Glyphs == Printable \cup {"blank", "cursor", "old", "counter"}

Terminals == [cx : 0 .. COLS - 1, cy : 0 .. ROWS - 1, cell : [Visible -> Glyphs]]

\* fbcputchar: what lies outside of the frame buffer is not drawn.
fbcputchar(t, x, y, g) ==
  IF <<x, y>> \in Visible THEN [t EXCEPT !.cell[<<x, y>>] = g] ELSE t

\* Characters side by side, at a place of its own: the cursor does not move.
fbcstr(t, x, y, s) ==
  [t EXCEPT !.cell = [v \in Visible |->
     IF v[2] = y /\ v[1] - x + 1 \in DOMAIN s THEN s[v[1] - x + 1] ELSE t.cell[v]]]

fb_fill(t, g) == [t EXCEPT !.cell = [v \in Visible |-> g]]

tty_clear(t) == [fb_fill(t, "blank") EXCEPT !.cx = 0, !.cy = 0]

\* To the start of the next line; below the last line is the first one.
NextLine(t) == [t EXCEPT !.cx = 0, !.cy = IF t.cy + 1 >= ROWS THEN 0 ELSE t.cy + 1]

\* Some columns to the right, or to the next line if they end this one.
Forward(t, n) == IF t.cx + n >= COLS THEN NextLine(t) ELSE [t EXCEPT !.cx = t.cx + n]

\* Mutant of Back: the start of a line is not left.
Back_StaysInLine(t) == IF t.cx >= 1 THEN [t EXCEPT !.cx = t.cx - 1] ELSE t

\* One column to the left, or to the end of the line above.
Back(t) ==
  IF t.cx >= 1 THEN [t EXCEPT !.cx = t.cx - 1]
  ELSE IF t.cy >= 1 THEN [t EXCEPT !.cy = t.cy - 1, !.cx = COLS - 1]
  ELSE t

\* (4 - (cx % 5)) characters, where cx is in pixels.
TabWidth(x) == 4 - ((x * CHAR_W) % 5)

\* Clear the cell under the cursor and show the cursor on the next one, then
\* treat the character.
tty_putc(t, c) ==
  LET under == fbcputchar(t, t.cx, t.cy, "blank")
      shown == fbcputchar(under, t.cx + 1, t.cy, "cursor")
      clean == fbcputchar(under, t.cx + 1, t.cy, "blank")
      back  == Back(clean)
      tab   == Forward(clean, TabWidth(t.cx))
  IN
  CASE c = Newline   -> NextLine(clean)
    [] c = Backspace -> fbcputchar(back, back.cx, back.cy, "cursor")
    [] c = Tab       -> fbcputchar(tab, tab.cx, tab.cy, "cursor")
    [] OTHER         -> Forward(IF c \in Printable THEN fbcputchar(shown, t.cx, t.cy, c)
                                ELSE shown, 1)   \* a space, or no glyph

tty_puts(t, s) ==
  LET after[k \in 0 .. Len(s)] == IF k = 0 THEN t ELSE tty_putc(after[k - 1], s[k])
  IN after[Len(s)]
=============================================================================
