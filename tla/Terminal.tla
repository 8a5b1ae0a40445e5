------------------------------ MODULE Terminal ------------------------------
(***************************************************************************)
(* The boot loader's screen: the terminal (boot/device/char/ansiterm.c)    *)
(* writes characters into the buffer of a console, the console draws the   *)
(* cells that were marked, and the video device (boot/device/video/vga.c)  *)
(* copies them to the video memory.  In a graphics mode the console is     *)
(* vconsole.c, which draws glyphs into a frame buffer; in a text mode it   *)
(* is the one of vga.c, and vconsole.c passes every call on to it.         *)
(*                                                                         *)
(* A character is a name and its bytes are numbered.  The input is whole   *)
(* characters in chunks that end anywhere.  What happens after a write     *)
(* outside the buffer (over) is not modelled.                              *)
(***************************************************************************)
EXTENDS Integers, Sequences, SequencesExt, FiniteSetsExt

CONSTANTS
    Modes,      \* video modes: records text, vbe, w, h, in characters; a
                \* graphics mode has an even number of them in a line
    Items,      \* what is written: sequences of characters
    TAB,        \* distance of the tab stops: 8
    MaxItems,   \* bounds on the items and the changes of the mode
    MaxModes

VARIABLES
    term,       \* the terminal, its console and the video device
    pending,    \* bytes that are still to be written
    items, modes

tmvars == <<term, pending, items, modes>>

\* Characters of more than one byte or column, and those of code page 437.
Bytes2 == {"e", "accent"}
Bytes3 == {"W", "box"}
Wide(ch) == ch = "W"
wcwidth(ch) == CASE Wide(ch) -> 2 [] ch = "accent" -> 0 [] OTHER -> 1
Cp437 == {"", "a", "b", "e"}
NBytes(ch) == CASE ch \in Bytes2 -> 2 [] ch \in Bytes3 -> 3 [] OTHER -> 1
Encode(ch) == [i \in 1..NBytes(ch) |-> <<ch, i - 1>>]

HALF == "half"    \* 0xFFFFFFFF: the cell is covered by the one before it
REPL == "fffd"

----------------------------------------------------------------------------
(* Colours *)

palette(i) ==
    LET lo == IF i < 8 THEN 0 ELSE 85
        c(bit) == lo + 170 * ((i \div bit) % 2)
    IN  IF i = 3 THEN <<170, 85, 0>> ELSE <<c(1), c(2), c(4)>>

Plain == [fg |-> palette(15), bg |-> palette(0), blink |-> 0, flags |-> {}]
Black == [fg |-> palette(0), bg |-> palette(0), blink |-> 0, flags |-> {}]
Cell(ch, at) == [ch |-> ch, at |-> at]

DIM == 2
REVERSED == 7

rgb_to_irgb(c) ==
    LET hi == Max({c[1], c[2], c[3]})
        lo == Min({c[1], c[2], c[3]})
        mid == (hi + lo) \div 2
        On(b, v) == IF b THEN v ELSE 0
    IN  IF hi - lo < 80
          THEN CASE mid < 64 -> 0 [] mid \in 64..128 -> 8
                 [] mid \in 129..191 -> 7 [] OTHER -> 15
          ELSE On(hi >= 192, 8) + On(c[1] >= 128, 4) + On(c[2] >= 128, 2)
               + On(c[3] >= 128, 1)

enc_utf32_to_cp437(ch) == IF ch \in Cp437 THEN ch ELSE "?"

\* What a cell looks like: in video memory in a text mode, where dim takes
\* the high bit off both colours, and as the left and right half of a glyph.
TextCell(c) ==
    LET rev == REVERSED \in c.at.flags
        dim(n) == IF DIM \in c.at.flags THEN n % 8 ELSE n
    IN  [ch |-> enc_utf32_to_cp437(c.ch), right |-> FALSE, cursor |-> FALSE,
         look |-> <<dim(rgb_to_irgb(IF rev THEN c.at.bg ELSE c.at.fg)),
                    dim(rgb_to_irgb(IF rev THEN c.at.fg ELSE c.at.bg))>>]
\* Black on black is what the cleared memory shows.
Dark == TextCell(Cell("", Black))
Glyph(c, isRight) ==
    IF c.at.fg = c.at.bg THEN Dark
    ELSE [ch |-> c.ch, right |-> isRight, cursor |-> FALSE,
          look |-> <<c.at.fg, c.at.bg, c.at.flags \ {3}>>]

----------------------------------------------------------------------------
(* The console.  Its operations, and those of the terminal, take the state  *)
(* and give the next one.                                                   *)

W(t) == t.mode.w
H(t) == t.mode.h
Pos(t, x, y) == y * W(t) + x
Area(t) == 0..(W(t) * H(t) - 1)
Rect(t, x0, y0, x1, y1) == {Pos(t, x, y) : x \in x0..x1, y \in y0..y1}
OnScreen(t, x, y) == x \in 0..(W(t) - 1) /\ y \in 0..(H(t) - 1)

\* The same in vconsole.c and in vga.c.
invalidate(t, x0, y0, x1, y1) ==
    IF t.switching THEN t
    ELSE [t EXCEPT !.dirty = @ \cup (Rect(t, x0, y0, x1, y1) \cap Area(t))]

con_flush(t) ==
    [t EXCEPT !.vram = [i \in Area(t) |-> IF i \in t.dirty
                                          THEN TextCell(t.cell[i]) ELSE @[i]],
              !.dirty = {}]

\* A region is sixteen pixels wide: two characters.
Region(t, i) == <<i \div W(t), (i % W(t)) \div 2>>

\* Invalidation of the pixels that a glyph covers.
fb_invalidate(t, i) ==
    [t EXCEPT !.regions = @ \cup
       {Region(t, j) : j \in {i} \cup (IF Wide(t.cell[i].ch)
                                       THEN {i + 1} \cap Area(t) ELSE {})}]

\* A covered cell is not drawn; the right half of a wide glyph is.
draw_char(t, i) ==
    IF t.cell[i].ch = HALF THEN t
    ELSE fb_invalidate(
           [t EXCEPT !.fb = [j \in Area(t) |->
              CASE j = i -> Glyph(t.cell[i], FALSE)
                [] j = i + 1 /\ Wide(t.cell[i].ch) -> Glyph(t.cell[i], TRUE)
                [] OTHER -> @[j]]], i)

draw_cursor(t) ==
    IF ~OnScreen(t, t.x, t.y) THEN [t EXCEPT !.over = TRUE]
    ELSE LET i == Pos(t, t.x, t.y)
         IN  [t EXCEPT !.fb[i].cursor = TRUE,
                       !.regions = @ \cup {Region(t, i)}]

\* Every region that was marked is copied, in runs.
fb_flush(t) ==
    [t EXCEPT !.vram = [i \in Area(t) |-> IF Region(t, i) \in t.regions
                                          THEN t.fb[i] ELSE @[i]],
              !.regions = {}]

\* The marked cells are drawn, and the one the cursor has left; the cursor
\* itself is drawn when it has moved.
vconsole_flush(t) ==
    LET moved == <<t.px, t.py>> # <<t.x, t.y>>
        left == IF moved /\ OnScreen(t, t.px, t.py)
                  THEN {Pos(t, t.px, t.py)} ELSE {}
        n == W(t) * H(t)
        d[k \in 0..n] ==
          IF k = 0 THEN t
          ELSE LET s == d[k-1]
               IN  IF (k - 1) \in t.dirty \cup left THEN draw_char(s, k - 1)
                   ELSE s
        drawn == [d[n] EXCEPT !.dirty = {}, !.px = t.x, !.py = t.y]
    IN  IF t.switching THEN t
        ELSE fb_flush(IF moved /\ t.visible THEN draw_cursor(drawn) ELSE drawn)

flush(t) == IF t.mode.text THEN con_flush(t) ELSE vconsole_flush(t)

\* In a text mode a negative number stands for no change.
set_cursor_pos(t, x, y) ==
    IF t.mode.text
      THEN [t EXCEPT !.x = IF x < 0 THEN @ ELSE x,
                     !.y = IF y < 0 THEN @ ELSE y]
      ELSE [t EXCEPT !.x = x, !.y = y]

set_cursor_visibility(t, v) ==
    LET s == [t EXCEPT !.visible = v]
    IN  IF t.mode.text THEN s ELSE flush(s)

----------------------------------------------------------------------------
(* The terminal: what it does to the buffer *)

Fresh(m) == [i \in 0..(m.w * m.h - 1) |-> Cell("", Black)]

\* The column before the cursor, or behind the last character before it,
\* within the tab stop.
console_backspace(t) ==
    LET Used(x) == t.cell[Pos(t, x, t.y)].ch # ""
        stop == ((t.x - 1) \div TAB) * TAB
        used == {x \in stop..(t.x - 2) : Used(x)}
    IN  CASE Used(t.x - 1) -> t.x - 1
          [] ~Used(t.x - 1) /\ used # {} -> Max(used) + 1
          [] OTHER -> stop

console_erase(t, x0, y0, x1, y1) ==
    LET rect == Rect(t, x0, y0, x1, y1)
    IN  invalidate([t EXCEPT !.cell = [i \in Area(t) |->
                                IF i \in rect THEN Cell("", t.attr) ELSE @[i]],
                             !.over = @ \/ ~(rect \subseteq Area(t))],
                   x0, y0, x1, y1)

\* Mutant: only the lines that were cleared are marked.
moved_not_marked(t, n) ==
    LET moved == [t EXCEPT !.cell = [i \in Area(t) |->
                    IF i \div W(t) + n \in 0..(H(t) - 1)
                      THEN @[i + n * W(t)] ELSE @[i]]]
    IN  CASE n > 0 -> console_erase(moved, 0, H(t) - n, W(t) - 1, H(t) - 1)
          [] n < 0 -> console_erase(moved, 0, 0, W(t) - 1, -n)
          [] OTHER -> t

\* The whole screen by n lines up, or down for a negative n.  Down, one line
\* more than was moved is cleared.
console_scroll(t, n) ==
    LET moved == [t EXCEPT !.cell = [i \in Area(t) |->
                    IF i \div W(t) + n \in 0..(H(t) - 1)
                      THEN @[i + n * W(t)] ELSE @[i]]]
        erased == IF n > 0
                    THEN console_erase(moved, 0, H(t) - n, W(t) - 1, H(t) - 1)
                    ELSE console_erase(moved, 0, 0, W(t) - 1, -n)
    IN  IF n = 0 THEN t
        ELSE invalidate(erased, 0, 0, W(t) - 1, H(t) - 1)

\* The cell, and the one it covers.
console_putchar(t, ch) ==
    LET i == Pos(t, t.x, t.y)
        two == Wide(ch) /\ t.x + 1 < W(t)
    IN  IF i \notin Area(t) THEN [t EXCEPT !.over = TRUE]
        ELSE invalidate(
               [t EXCEPT !.cell = [j \in Area(t) |->
                   CASE j = i -> Cell(ch, t.attr)
                     [] j = i + 1 /\ two -> Cell(HALF, t.attr)
                     [] OTHER -> @[j]]],
               t.x, t.y, t.x, t.y)

----------------------------------------------------------------------------
(* Control sequences *)

Arg(t, i, default) == IF Len(t.args) < i THEN default ELSE t.args[i]
Least(a, b) == IF a < b THEN a ELSE b
NotNeg(n) == IF n < 0 THEN 0 ELSE n

\* Down and to the right the cursor can get one position off the screen.
handle_cuu(t) == set_cursor_pos(t, -1, t.y - Least(Arg(t, 1, 1), t.y))
handle_cud(t) == set_cursor_pos(t, -1, t.y + Least(Arg(t, 1, 1), H(t) - t.y))
handle_cuf(t) == set_cursor_pos(t, t.x + Least(Arg(t, 1, 1), W(t) - t.x), -1)
handle_cub(t) == set_cursor_pos(t, t.x - Least(Arg(t, 1, 1), t.x), -1)
handle_cnl(t) == set_cursor_pos(t, 0, t.y + Least(Arg(t, 1, 1), H(t) - t.y))
handle_cpl(t) == set_cursor_pos(t, 0, t.y - Least(Arg(t, 1, 1), t.y))
handle_cha(t) == set_cursor_pos(t, NotNeg(Arg(t, 1, 1) - 1), -1)
handle_cup_hvp(t) == set_cursor_pos(t, NotNeg(Arg(t, 2, 1) - 1),
                                    NotNeg(Arg(t, 1, 1) - 1))

\* What is below is cleared only from the last line, what is above only from
\* the first column.
handle_ed(t) ==
    LET o == Arg(t, 1, 0)
        right == console_erase(t, t.x, t.y, W(t) - 1, t.y)
        left == console_erase(t, 0, t.y, t.x, t.y)
    IN  CASE o = 0 ->
               IF t.y < H(t) - 1 THEN right
               ELSE console_erase(right, 0, t.y + 1, W(t) - 1, H(t) - 1)
          [] o = 1 -> IF t.x > 0 THEN left
                      ELSE console_erase(left, 0, 0, W(t) - 1, t.y - 1)
          [] o \in {2, 3} -> console_erase(t, 0, 0, W(t) - 1, H(t) - 1)
          [] OTHER -> t

handle_el(t) ==
    LET o == Arg(t, 1, 0)
    IN  IF o \notin 0..2 THEN t
        ELSE console_erase(t, IF o = 0 THEN t.x ELSE 0, t.y,
                           IF o = 1 THEN t.x ELSE W(t) - 1, t.y)

handle_su(t) == console_scroll(t, Arg(t, 1, 1))
handle_sd(t) == console_scroll(t, -Arg(t, 1, 1))

\* A colour out of the table, or of three numbers; none without them.
ArgColour(t, old) ==
    CASE Arg(t, 2, 0) = 5 /\ Len(t.args) >= 3 -> palette(t.args[3])
      [] Arg(t, 2, 0) = 2 /\ Len(t.args) >= 5 -> SubSeq(t.args, 3, 5)
      [] OTHER -> old

\* Only the first number and its arguments count.
handle_sgr(t) ==
    LET o == Arg(t, 1, 0)
        at == t.attr
    IN  [t EXCEPT !.attr =
          CASE o = 0 -> Plain
            [] o \in {1, 2, 3, 4, 7, 9, 53} -> [at EXCEPT !.flags = @ \cup {o}]
            [] o = 22 -> [at EXCEPT !.flags = @ \ {1, 2}]
            [] o \in {23, 24, 27, 29} -> [at EXCEPT !.flags = @ \ {o - 20}]
            [] o = 55 -> [at EXCEPT !.flags = @ \ {53}]
            [] o \in {5, 6} -> [at EXCEPT !.blink = o - 4]
            [] o = 8 -> [at EXCEPT !.blink = 3]
            [] o \in {25, 28} -> [at EXCEPT !.blink = 0]
            [] o \in 30..37 -> [at EXCEPT !.fg = palette(o - 30)]
            [] o = 38 -> [at EXCEPT !.fg = ArgColour(t, @)]
            [] o = 39 -> [at EXCEPT !.fg = palette(7)]
            [] o \in 40..47 -> [at EXCEPT !.bg = palette(o - 40)]
            [] o = 48 -> [at EXCEPT !.bg = ArgColour(t, @)]
            [] o = 49 -> [at EXCEPT !.bg = palette(0)]
            [] o \in 90..97 -> [at EXCEPT !.fg = palette(o - 82)]
            [] o \in 100..107 -> [at EXCEPT !.bg = palette(o - 92)]
            [] OTHER -> at]

handle_scosc(t) == [t EXCEPT !.sx = t.x, !.sy = t.y]
handle_scorc(t) == set_cursor_pos(t, t.sx, t.sy)

Digits == <<"0", "1", "2", "3", "4", "5", "6", "7", "8", "9">>
MaxArgs == 8

\* A digit goes to the last number, or begins the next one.
ArgChar(t, ch) ==
    CASE ch \in {";", ":"} -> [t EXCEPT !.number = FALSE]
      [] Len(t.args) >= MaxArgs -> t
      [] ch = "?" /\ Len(t.args) < MaxArgs -> [t EXCEPT !.args = Append(@, -63)]
      [] OTHER ->
           LET d == (CHOOSE i \in 1..10 : Digits[i] = ch) - 1
           IN  IF t.number
                 THEN [t EXCEPT !.args[Len(t.args)] = @ * 10 + d]
                 ELSE [t EXCEPT !.args = Append(@, d), !.number = TRUE]

\* Every final character ends the sequence.
handle_csi(t, ch) ==
    LET end == [t EXCEPT !.esc = "default"]
    IN  CASE ch \in ToSet(Digits) \cup {";", ":", "?"} -> ArgChar(t, ch)
          [] ch = "A" -> handle_cuu(end)
          [] ch = "B" -> handle_cud(end)
          [] ch = "C" -> handle_cuf(end)
          [] ch = "D" -> handle_cub(end)
          [] ch = "E" -> handle_cnl(end)
          [] ch = "F" -> handle_cpl(end)
          [] ch = "G" -> handle_cha(end)
          [] ch \in {"f", "H"} -> handle_cup_hvp(end)
          [] ch = "h" -> set_cursor_visibility(end, TRUE)
          [] ch = "J" -> handle_ed(end)
          [] ch = "K" -> handle_el(end)
          [] ch = "l" -> set_cursor_visibility(end, FALSE)
          [] ch = "S" -> handle_su(end)
          [] ch = "T" -> handle_sd(end)
          [] ch = "m" -> handle_sgr(end)
          [] ch = "s" -> handle_scosc(end)
          [] ch = "u" -> handle_scorc(end)
          [] OTHER -> end

\* Of the sequences only those that begin with a bracket are known.
handle_esc(t, ch) ==
    [t EXCEPT !.args = <<>>, !.number = FALSE,
              !.esc = CASE ch = "[" -> "csi"
                        [] ch \in {"N", "O", "P", "\\", "]", "X", "^",
                                   "_"} -> "other"
                        [] OTHER -> "default"]

----------------------------------------------------------------------------
(* A character, and a write *)

\* To the next line, and the screen up when there is none.
NewLine(t, x, y) ==
    IF y + 1 < H(t) THEN [t |-> t, x |-> x, y |-> y + 1]
    ELSE [t |-> console_scroll(t, 1), x |-> x, y |-> H(t) - 1]
Put(r) == set_cursor_pos(r.t, r.x, r.y)
Stay(t, x) == [t |-> t, x |-> x, y |-> t.y]

\* A tab clears up to and including the cell at the stop.
PutTab(t) ==
    LET stop == (t.x \div TAB + 1) * TAB
        s == console_erase(t, t.x, t.y, stop, t.y)
    IN  IF stop < W(t) THEN Put(Stay(s, stop)) ELSE Put(NewLine(s, 0, t.y))

\* A wide character that does not fit begins the next line; a line that is
\* full is left at once.
PutGlyph(t, ch) ==
    LET n == wcwidth(ch)
        s == IF n > 1 /\ t.x + n > W(t) THEN Put(NewLine(t, 0, t.y)) ELSE t
        p == console_putchar(s, ch)
    IN  IF s.x + n < W(t) THEN Put(Stay(p, s.x + n))
        ELSE Put(NewLine(p, 0, s.y))

Plainly == {"a", "b", "e", "W", "box", "nl"}
\* What is on the screen is no longer text only.
Unplain(t) == [t EXCEPT !.plain = FALSE]

put_char(t, ch) ==
    CASE t.esc = "esc" -> Unplain(handle_esc(t, ch))
      [] t.esc = "csi" -> Unplain(handle_csi(t, ch))
      [] t.esc = "other" -> [Unplain(t) EXCEPT !.esc = "default"]
      [] t.esc = "default" /\ ch = "bs" ->
           IF t.x < 1 THEN [t EXCEPT !.failed = TRUE]
           ELSE Put(Stay(Unplain(t), console_backspace(t)))
      [] t.esc = "default" /\ ch = "tab" -> PutTab(Unplain(t))
      [] t.esc = "default" /\ ch = "nl" -> Put(NewLine(t, 0, t.y))
      [] t.esc = "default" /\ ch = "vt" -> Put(NewLine(Unplain(t), t.x, t.y))
      [] t.esc = "default" /\ ch = "cr" -> Put(Stay(Unplain(t), 0))
      [] t.esc = "default" /\ ch = "esc" -> [Unplain(t) EXCEPT !.esc = "esc"]
      [] t.esc = "default" /\ ch \in {"bel", "ff", "ctl"} -> t
      [] OTHER -> PutGlyph(IF ch \in Plainly THEN t ELSE Unplain(t), ch)

\* No half of a wide character is without the other.
Intact(t) ==
    \A i \in Area(t) :
      /\ t.cell[i].ch = HALF => i % W(t) > 0 /\ Wide(t.cell[i - 1].ch)
      /\ Wide(t.cell[i].ch) => i + 1 \in Area(t) /\ t.cell[i + 1].ch = HALF

\* What the text put so far is remembered for the comparison.
PutOne(t, ch) ==
    LET s == put_char(t, ch)
    IN  [s EXCEPT !.torn = @ \/ ~Intact(s),
                  !.text = IF s.plain THEN Append(@, ch) ELSE <<>>]

\* The first character of the bytes, behind those kept from the last call:
\* how many bytes are used, the character, and what is kept.
Decode(bytes) ==
    LET n == NBytes(Head(bytes)[1])
    IN  IF Len(bytes) < n THEN [n |-> Len(bytes), ch |-> "", keep |-> bytes]
        ELSE [n |-> n, ch |-> Head(bytes)[1], keep |-> <<>>]

\* The characters one by one, as long as none fails; then a flush.
write(t, chunk) ==
    LET all == t.fragment \o chunk
        s[k \in 0..Len(all)] ==
          IF k = 0 THEN [t |-> [t EXCEPT !.fragment = <<>>, !.failed = FALSE],
                         rest |-> all]
          ELSE LET c == s[k-1]
               IN  IF c.rest = <<>> \/ c.t.failed THEN c
                   ELSE LET d == Decode(c.rest)
                            u == [c.t EXCEPT !.fragment = d.keep]
                        IN  [t |-> IF d.ch = "" THEN u ELSE PutOne(u, d.ch),
                             rest |-> SubSeq(c.rest, d.n + 1, Len(c.rest))]
        r == s[Len(all)].t
    IN  IF r.failed THEN r ELSE flush(r)

----------------------------------------------------------------------------
(* The mode *)

\* The buffers of the mode, and the video memory, cleared.
DarkScreen(m) == [i \in 0..(m.w * m.h - 1) |-> Dark]
setup_text_buffer(t, m) ==
    [t EXCEPT !.cell = Fresh(m), !.dirty = {}, !.vram = DarkScreen(m)]
setup_bitmap_buffer(t, m) ==
    [t EXCEPT !.fb = DarkScreen(m), !.regions = {}, !.vram = DarkScreen(m)]

set_mode_vga(t, m) == [setup_text_buffer(t, m) EXCEPT !.textpos = <<0, 0>>]

\* The cursor of a text mode is put to the origin with the size of the mode
\* before: after a graphics mode, which has none, it stays where it was.
set_mode_vbe(t, m) ==
    IF m.text
      THEN [setup_text_buffer(t, m) EXCEPT
              !.textpos = IF t.mode.text THEN <<0, 0>> ELSE @]
      ELSE setup_bitmap_buffer(t, m)

\* The console of a graphics mode has buffers and a cursor of its own.  That
\* everything is to be drawn is refused while the mode changes.
video_mode_callback(t, m) ==
    IF m.text
      THEN [t EXCEPT !.mode = m, !.x = t.textpos[1], !.y = t.textpos[2],
                     !.px = 0, !.py = 0]
      ELSE LET s == [t EXCEPT !.mode = m, !.switching = TRUE,
                              !.cell = Fresh(m), !.dirty = {}]
               u == flush(invalidate(s, 0, 0, m.w - 1, m.h - 1))
           IN  [u EXCEPT !.x = 0, !.y = 0, !.px = 0, !.py = 0,
                         !.switching = FALSE]

set_mode(t, m) ==
    LET k == [t EXCEPT !.textpos = IF t.mode.text THEN <<t.x, t.y>> ELSE @]
        s == IF m.vbe THEN set_mode_vbe(k, m) ELSE set_mode_vga(k, m)
        u == video_mode_callback(s, m)
    IN  [u EXCEPT !.text = <<>>, !.torn = FALSE, !.failed = FALSE,
                  !.plain = u.x = 0 /\ u.y = 0 /\ u.esc = "default"]

Boot(m) ==
    [mode |-> m, cell |-> Fresh(m), dirty |-> {}, regions |-> {},
     fb |-> [i \in DOMAIN Fresh(m) |-> Dark],
     vram |-> [i \in DOMAIN Fresh(m) |-> Dark],
     x |-> 0, y |-> 0, px |-> 0, py |-> 0, textpos |-> <<0, 0>>,
     sx |-> 0, sy |-> 0, visible |-> FALSE, switching |-> FALSE,
     attr |-> Plain, esc |-> "default", args |-> <<>>, number |-> FALSE,
     fragment |-> <<>>, failed |-> FALSE, over |-> FALSE,
     plain |-> TRUE, text |-> <<>>, torn |-> FALSE]

TmInit == /\ term \in {Boot(m) : m \in Modes}
          /\ pending = <<>>
          /\ items = 0 /\ modes = 0

\* A program has something to write.
Say == /\ items < MaxItems /\ Len(pending) < 3
       /\ \E s \in Items :
            pending' = pending \o FlattenSeq([i \in DOMAIN s |-> Encode(s[i])])
       /\ items' = items + 1
       /\ UNCHANGED <<term, modes>>

\* It writes some of it.  (Who meets an error gives up.)
Write == /\ ~term.over
         /\ \E n \in 1..Len(pending) :
              LET t == write(term, SubSeq(pending, 1, n))
              IN  /\ term' = [t EXCEPT !.plain = @ /\ ~t.failed]
                  /\ pending' = IF t.failed THEN <<>>
                                ELSE SubSeq(pending, n + 1, Len(pending))
         /\ UNCHANGED <<items, modes>>

SetMode == /\ ~term.over /\ modes < MaxModes
           /\ \E m \in Modes : term' = set_mode(term, m)
           /\ modes' = modes + 1
           /\ UNCHANGED <<pending, items>>

TmNext == Say \/ Write \/ SetMode

----------------------------------------------------------------------------

\* The lines of a text: a line ends at a newline and when it is full, and a
\* wide character is not divided.
Lines(text, w) ==
    LET cells(ch) == IF Wide(ch) THEN <<ch, HALF>> ELSE <<ch>>
        s[k \in 0..Len(text)] ==
          IF k = 0 THEN <<<<>>>>
          ELSE LET l == s[k-1]
                   ch == text[k]
                   last == l[Len(l)]
                   fits == Len(last) + Len(cells(ch)) <= w
                   line == IF fits THEN last \o cells(ch) ELSE cells(ch)
                   done == IF fits THEN SubSeq(l, 1, Len(l) - 1) ELSE l
               IN  IF ch = "nl" THEN Append(l, <<>>)
                   ELSE Append(done, line) \o
                        (IF Len(line) = w THEN <<<<>>>> ELSE <<>>)
    IN  s[Len(text)]

Layout(t) ==
    LET l == Lines(t.text, W(t))
        first == IF Len(l) > H(t) THEN Len(l) - H(t) ELSE 0
        row(y) == IF first + y + 1 <= Len(l) THEN l[first + y + 1] ELSE <<>>
    IN  [i \in Area(t) |->
           LET r == row(i \div W(t))
               x == (i % W(t)) + 1
           IN  IF x <= Len(r) THEN r[x] ELSE ""]

Look(t, i) ==
    IF t.mode.text THEN TextCell(t.cell[i])
    ELSE IF t.cell[i].ch = HALF THEN Glyph(t.cell[i - 1], TRUE)
    ELSE Glyph(t.cell[i], FALSE)

\* After a write without error the video memory shows the buffer, each cell
\* with its colours
\* as long as no half of a wide character was overwritten, through marks,
\* glyphs, regions and scrolling; and the buffer holds the end of the text
\* that was written, in lines that fit the screen, whatever the pieces it was
\* written in and though a piece may end in the middle of a character
\* (ansiterm.c:152-255, 910-1094, vconsole.c:49-131, 190-270,
\* vga.c:722-810, 862-920).  (Where the cursor is drawn is left out: it is
\* lost when its cell is drawn again and it has not moved.  In a text mode
\* the cell that a wide character covers is not marked and keeps what it
\* showed.)
ScreenShowsText ==
    ~term.over /\ ~term.failed =>
      /\ ~term.torn => \A i \in Area(term) :
           \/ [term.vram[i] EXCEPT !.cursor = FALSE] = Look(term, i)
           \/ term.mode.text /\ term.cell[i].ch = HALF
      /\ term.plain =>
           \A i \in Area(term) : term.cell[i].ch = Layout(term)[i]
=============================================================================
