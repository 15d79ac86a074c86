------------------------------ MODULE Terminal ------------------------------
(***************************************************************************)
(* TTY (kernel/src/display.rs): the cursor and the text buffer, one line   *)
(* of Width * Height cells, in the default build (clear-on-scroll is off). *)
(* `out' is what write_str, yay, sad and clear_tty have been asked to do   *)
(* and have not done yet, as tokens: a character, a control character, a   *)
(* colour sequence, a face.                                                *)
(*                                                                         *)
(* The framebuffer is modelled by the glyphs whose pixels each cell holds: *)
(* drawing sets the pixels of a glyph and clears none, so a cell may hold  *)
(* several.  A row is FONT_HEIGHT pixels high, but their number comes from *)
(* a height of 8: rows below the framebuffer are not drawn.  Colours are   *)
(* left out.                                                               *)
(***************************************************************************)
EXTENDS Integers, Sequences

CONSTANTS
    Width, Height,  \* of the text buffer, in cells
    ShownRows,      \* the rows of it that are inside the framebuffer
    Chars           \* the printable characters

NUL == "nul"

Controls == {"\n", "\r", "backspace", "del", "colour", "face", "clear"}

Tokens == Chars \cup Controls

\* What write_str meets in a text; yay, sad and clear_tty are calls.
Written == Tokens \ {"face", "clear"}

ASSUME TerminalAssumption ==
    /\ Width \in Nat \ {0} /\ Height \in Nat \ {0}
    /\ ShownRows \in 1 .. Height
    /\ Chars \cap (Controls \cup {NUL}) = {}

VARIABLES
    text_buf, cursor_x, cursor_y,
    screen,         \* the glyphs drawn in each cell
    erased,         \* history: a delete has happened since the last clear or scroll
    out

tty == <<text_buf, cursor_x, cursor_y, screen, erased>>

Cells == 0 .. (Width * Height - 1)

\* new, then clear_tty.
TerminalInit ==
    /\ text_buf = [k \in Cells |-> NUL]
    /\ cursor_x = 0
    /\ cursor_y = 0
    /\ screen = [k \in Cells |-> {}]
    /\ erased = FALSE

-----------------------------------------------------------------------------
(* draw_char_psf, draw_bitmap.  In assets/font.psf the glyph of a space  *)
(* has no pixels and that of NUL has some.                                 *)

Row(k) == k \div Width

Glyph(k, c) == IF Row(k) >= ShownRows \/ c = " " THEN {} ELSE {c}

Draw(pic, x, y, c) ==
    IF x >= Width \/ y >= Height THEN pic
    ELSE [pic EXCEPT ![y * Width + x] = @ \cup Glyph(y * Width + x, c)]

\* Mutant: the loop that draws starts at row 1, as the one that moves does.
RedrawText_FromRow1(buf) ==
    [k \in Cells |-> IF buf[k] = NUL \/ Row(k) = 0 THEN {} ELSE Glyph(k, buf[k])]

\* scroll_up clears the framebuffer and draws the text.
RedrawText(buf) == [k \in Cells |-> IF buf[k] = NUL THEN {} ELSE Glyph(k, buf[k])]

\* delete clears the framebuffer and draws every cell of one row.
RedrawRow(buf, y) == [k \in Cells |-> IF Row(k) = y THEN Glyph(k, buf[k]) ELSE {}]

-----------------------------------------------------------------------------

\* set_char: nothing outside the screen.
set_char(buf, x, y, c) ==
    IF x >= Width \/ y >= Height THEN buf ELSE [buf EXCEPT ![y * Width + x] = c]

\* Mutant: the last row keeps its contents.
scroll_up_KeepsLastRow(buf) ==
    [k \in Cells |-> IF k + Width \in Cells THEN buf[k + Width] ELSE buf[k]]

scroll_up(buf) ==
    [k \in Cells |-> IF k + Width \in Cells THEN buf[k + Width] ELSE NUL]

\* The end of the loop body in write_str: wrap, then scroll.
Settle(buf, pic, gone, x, y) ==
    LET x1 == IF x >= Width THEN 0 ELSE x
        y1 == IF x >= Width THEN y + 1 ELSE y
    IN  /\ cursor_x' = x1
        /\ \/ /\ y1 >= Height
              /\ cursor_y' = Height - 1
              /\ text_buf' = scroll_up(buf)
              /\ screen' = RedrawText(scroll_up(buf))
              /\ erased' = FALSE
           \/ /\ y1 < Height
              /\ cursor_y' = y1
              /\ text_buf' = buf
              /\ screen' = pic
              /\ erased' = gone

\* delete: the rest of the row moves one cell to the left.
ShiftRow(buf, x, y) ==
    LET last == y * Width + Width - 1 IN
    [k \in Cells |-> IF k = last THEN NUL
                     ELSE IF y * Width + x <= k /\ k < last THEN buf[k + 1]
                     ELSE buf[k]]

Char(c) ==
    /\ c \in Chars
    /\ Settle(set_char(text_buf, cursor_x, cursor_y, c),
              Draw(screen, cursor_x, cursor_y, c), erased, cursor_x + 1, cursor_y)

\* Mutant: the cursor moves down without a look at the height.
Newline_NoScroll(c) ==
    /\ c = "\n"
    /\ cursor_x' = 0
    /\ cursor_y' = cursor_y + 1
    /\ UNCHANGED <<text_buf, screen, erased>>

Newline(c) == c = "\n" /\ Settle(text_buf, screen, erased, 0, cursor_y + 1)

CarriageReturn(c) == c = "\r" /\ Settle(text_buf, screen, erased, 0, cursor_y)

\* The cell at x is taken out of the cursor's row.
RemoveCell(x) ==
    LET buf == ShiftRow(text_buf, x, cursor_y)
    IN  Settle(buf, RedrawRow(buf, cursor_y), TRUE, x, cursor_y)

\* delete(true), which stops at the left edge.
Backspace(c) ==
    /\ c = "backspace"
    /\ IF cursor_x = 0 THEN UNCHANGED tty ELSE RemoveCell(cursor_x - 1)

\* delete(false).
Delete(c) == c = "del" /\ RemoveCell(cursor_x)

Colour(c) == c = "colour" /\ UNCHANGED tty

\* yay, sad: one cell to the right; at the bottom back to the top.
Face(c) ==
    LET y1 == IF cursor_x + 1 >= Width THEN cursor_y + 1 ELSE cursor_y IN
    /\ c = "face"
    /\ cursor_x' = IF cursor_x + 1 >= Width THEN 0 ELSE cursor_x + 1
    /\ cursor_y' = IF y1 >= Height THEN 0 ELSE y1
    /\ screen' = Draw(screen, cursor_x, cursor_y, "face")
    /\ UNCHANGED <<text_buf, erased>>

clear_tty(c) ==
    /\ c = "clear"
    /\ text_buf' = [k \in Cells |-> NUL]
    /\ cursor_x' = 0
    /\ cursor_y' = 0
    /\ screen' = [k \in Cells |-> {}]
    /\ erased' = FALSE

\* The next token of what is to be written.
Write ==
    /\ out # <<>>
    /\ LET c == Head(out) IN
          \/ Char(c) \/ Newline(c) \/ CarriageReturn(c) \/ Backspace(c) \/ Delete(c)
          \/ Colour(c) \/ Face(c) \/ clear_tty(c)
    /\ out' = Tail(out)

TerminalTypeOK ==
    /\ text_buf \in [Cells -> Chars \cup {NUL}]
    /\ cursor_x \in 0 .. (Width - 1)
    /\ cursor_y \in 0 .. (Height - 1)
    /\ screen \in [Cells -> SUBSET (Chars \cup {NUL, "face"})]
    /\ erased \in BOOLEAN
    /\ out \in Seq(Tokens)

\* What the text buffer holds is to be seen, in the rows that are inside the
\* framebuffer: write_str draws each character and a scroll draws all of
\* them again.  Only a delete takes other rows from the screen, until the next
\* scroll or clear.
TextIsDrawn ==
    ~erased => \A k \in Cells : text_buf[k] # NUL => Glyph(k, text_buf[k]) \subseteq screen[k]

=============================================================================
