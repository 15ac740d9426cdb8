------------------------------- MODULE Screen -------------------------------
(***************************************************************************)
(* The text console of sys/drivers/video/video.c: a cursor in pixels and   *)
(* glyphs drawn on the framebuffer.                                        *)
(*                                                                         *)
(* A screen is the cursor, the colour it was cleared with and, for each    *)
(* place painted since, the set of the glyphs drawn there: v_draw_glyph_at *)
(* paints the set pixels of a glyph, in white, and leaves the others, so   *)
(* that two glyphs drawn in one place are both seen.  A place that was     *)
(* erased is black, whatever the colour: its set is empty.                 *)
(***************************************************************************)
EXTENDS Sequences, SequencesExt, Characters

CONSTANTS
  width, height,             \* of the framebuffer, in pixels
  FONT_WIDTH, FONT_HEIGHT    \* 8 and 8 in the build

(* boot.asm asks for 1024 by 768 pixels: whole glyphs.                     *)
ASSUME ScreenAssumption ==
  /\ {width, height, FONT_WIDTH, FONT_HEIGHT} \subseteq Nat \ {0}
  /\ width % FONT_WIDTH = 0
  /\ height % FONT_HEIGHT = 0

BLACK == 0

v_clear(color) == [cursor_x |-> 0, cursor_y |-> 0, color |-> color, glyphs |-> <<>>]

Glyph(s, x, y) == IF <<x, y>> \in DOMAIN s.glyphs THEN s.glyphs[<<x, y>>] ELSE {}

MovedTo(s, x, y) ==
  [cursor_x |-> x, cursor_y |-> y, color |-> s.color, glyphs |-> s.glyphs]

Painted(s, glyphs) ==
  LET at == <<s.cursor_x, s.cursor_y>>
  IN  [s EXCEPT !.glyphs = [p \in DOMAIN @ \cup {at} |-> IF p = at THEN glyphs ELSE @[p]]]

Draw(s, c) ==
  [Painted(s, Glyph(s, s.cursor_x, s.cursor_y) \cup {c}) EXCEPT !.cursor_x = @ + FONT_WIDTH]

(* Faulty variant: the erased glyph is the one under the cursor.           *)
StepBackInRow(s) ==
  IF s.cursor_x >= FONT_WIDTH THEN [s EXCEPT !.cursor_x = @ - FONT_WIDTH] ELSE s

StepBack(s) ==
  IF s.cursor_x >= FONT_WIDTH
  THEN [s EXCEPT !.cursor_x = @ - FONT_WIDTH]
  ELSE MovedTo(s, width - FONT_WIDTH, s.cursor_y - FONT_HEIGHT)

EraseAtCursor(s) == Painted(s, {})

AtOrigin(s) == s.cursor_x < FONT_WIDTH /\ s.cursor_y < FONT_HEIGHT

NextRow(s) == MovedTo(s, 0, s.cursor_y + FONT_HEIGHT)

Wrap(s) == IF s.cursor_x + FONT_WIDTH > width THEN NextRow(s) ELSE s

(* There is no scrolling: past the last row the screen is cleared.         *)
Restart(s) == IF s.cursor_y + FONT_HEIGHT > height THEN v_clear(BLACK) ELSE s

v_putchar(s, c) ==
  IF AtOrigin(s) /\ c = BACKSPACE THEN s
  ELSE IF c = BACKSPACE THEN EraseAtCursor(StepBack(s))
  ELSE Restart(Wrap(IF c = NEWLINE THEN NextRow(s)
                    ELSE IF c = RETURN THEN [s EXCEPT !.cursor_x = 0]
                    ELSE Draw(s, c)))

v_puts(s, text) ==
  LET after[i \in 0..Len(text)] == IF i = 0 THEN s ELSE v_putchar(after[i - 1], text[i])
  IN  after[Len(text)]

(* What kputs shows of a text.                                             *)
kputs(text) == Append(text, NEWLINE)
=============================================================================
