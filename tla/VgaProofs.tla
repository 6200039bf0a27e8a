------------------------------ MODULE VgaProofs ------------------------------
(* The terminal stays on the screen, heals its cursor and shows what a      *)
(* printer would, for every screen size, tab width and diagnostic.          *)
EXTENDS Vga, NaturalsInduction, WellFoundedInduction, TLAPS

(* A character with its attribute, a line of them, and the terminal.        *)
Cells == (Glyphs \cup {" "}) \X Colors
Lines == [1 .. VGA_WIDTH -> Cells]
Terminal == [buf : [Visible \cup Below -> Cells], row : Nat, col : Nat, color : Colors,
             index : {"lo", "hi"}, lo : Nat, hi : Nat]
PCs == {"idle", "load_row", "load_col", "back", "emit", "tab", "tab_store",
        "return", "newline", "newline_load", "newline_row", "scroll",
        "last_row", "row", "reload", "col", "pos", "low", "select_high", "high"}
Calls == [pc : PCs, c : Glyphs \cup Controls \cup {" "}, row : Nat, col : Nat,
          todo : SUBSET {"cell", "col"}, pos : Nat]
Papers == [lines : Seq(Lines), col : Nat, ground : Colors]

VgaTypes ==
  /\ t \in Terminal /\ call \in Calls
  /\ hit \in BOOLEAN /\ spoiled \in BOOLEAN /\ (hit => spoiled)
  /\ At("load_row") \/ At("load_col") => call.c \in Glyphs \cup {"BS"}
  /\ At("emit") => call.c \in Glyphs

(* How far off the screen each stage of a call may leave row and column.    *)
RangeInv ==
  /\ t.row <= VGA_HEIGHT /\ t.col < 2 * VGA_WIDTH
  /\ ~At("scroll") /\ ~At("last_row") => t.row < VGA_HEIGHT
  /\ ~At("emit") /\ ~At("newline") => t.col < VGA_WIDTH
  /\ At("load_col") \/ At("emit") => call.row < VGA_HEIGHT
  /\ At("emit") => /\ call.col < VGA_WIDTH
                   /\ t.col < VGA_WIDTH \/ t.col = call.col + 1
  /\ At("back") => call.col \in 1 .. VGA_WIDTH - 1
  /\ At("newline_row") => call.row \in 1 .. VGA_HEIGHT
  /\ At("tab_store") => call.col < 2 * VGA_WIDTH

(* A call that was not interrupted: its registers are what is in memory,    *)
(* and the cursor bytes written so far are those of the position.           *)
RowRead == call.row = t.row
ColRead == call.col = t.col
PosRead == call.pos = Position(t.row, t.col)

RegistersInv ==
  ~hit =>
    /\ At("idle") => Cursor(t) = Position(t.row, t.col)
    /\ At("load_col") \/ At("back") \/ At("emit") \/ At("col") \/ At("pos") => RowRead
    /\ At("back") \/ At("row") \/ At("pos") => ColRead
    /\ At("emit") /\ "col" \notin call.todo => t.col = call.col + 1
    /\ At("low") \/ At("select_high") \/ At("high") => PosRead
    /\ At("low") => t.index = "lo"
    /\ At("select_high") \/ At("high") => t.lo = call.pos % BYTE
    /\ At("high") => t.index = "hi"

VgaInv == VgaTypes /\ RangeInv /\ RegistersInv

-----------------------------------------------------------------------------
(* The terminal when the call at its stage is over, but for the cursor.     *)
Put(s, c) ==
  CASE c = "NL" -> vga_newline(s)
    [] c = "CR" -> [s EXCEPT !.col = 0]
    [] c = "HT" -> WrapLine([s EXCEPT !.col = NextTab(@)])
    [] c = "BS" -> [s EXCEPT !.col = IF @ > 0 THEN @ - 1 ELSE @]
    [] OTHER -> WrapLine([s EXCEPT
                  !.buf[Position(s.row, s.col)] = vga_entry(c, s.color),
                  !.col = @ + 1])

Pending(s, k) ==
  CASE k.pc \in {"load_row", "load_col"} -> Put(s, k.c)
    [] k.pc = "back" -> [s EXCEPT !.col = k.col - 1]
    [] k.pc = "emit" -> WrapLine([s EXCEPT
         !.buf[Position(k.row, k.col)] = vga_entry(k.c, s.color), !.col = k.col + 1])
    [] k.pc = "tab" -> WrapLine([s EXCEPT !.col = NextTab(@)])
    [] k.pc = "tab_store" -> WrapLine([s EXCEPT !.col = k.col])
    [] k.pc = "return" -> [s EXCEPT !.col = 0]
    [] k.pc \in {"newline", "newline_load", "newline_row"} -> vga_newline(s)
    [] k.pc = "scroll" -> [vga_scroll(s) EXCEPT !.row = VGA_HEIGHT - 1]
    [] k.pc = "last_row" -> [s EXCEPT !.row = VGA_HEIGHT - 1]
    [] OTHER -> s

(* The screen shows the paper, and both stand at the same place.            *)
SamePicture(s, p) ==
  /\ Len(p.lines) \in 1 .. VGA_HEIGHT /\ s.row + 1 = Len(p.lines)
  /\ \A i \in 1 .. VGA_HEIGHT, j \in 1 .. VGA_WIDTH :
       s.buf[Position(i - 1, j - 1)] =
         IF i <= Len(p.lines) THEN p.lines[i][j] ELSE vga_entry(" ", p.ground)

Match(s, p) == SamePicture(s, p) /\ s.col = p.col

(* The stores of an undisturbed call so far. *)
StoresInv ==
  /\ At("emit") => /\ "col" \in call.todo => ColRead
                   /\ "cell" \notin call.todo =>
                        t.buf[Position(call.row, call.col)]
                          = vga_entry(call.c, t.color)
  /\ At("newline_load") \/ At("newline_row") \/ At("scroll") \/ At("last_row")
       => t.col = 0
  /\ At("newline_row") => call.row = t.row + 1

(* Until a diagnostic breaks into a call: what the call will have done is   *)
(* what the paper already shows.                                            *)
PaperInv ==
  paper \in Papers /\ (~spoiled => Match(Pending(t, call), paper) /\ StoresInv)

-----------------------------------------------------------------------------
(* Arithmetic. *)
LEMMA Dimensions ==
  /\ VGA_WIDTH \in Nat /\ VGA_WIDTH > 0 /\ VGA_HEIGHT \in Nat /\ VGA_HEIGHT > 0
  /\ TAB \in Nat /\ TAB > 0 /\ TAB <= VGA_WIDTH
  /\ BYTE \in Nat /\ BYTE > 0
<1>1. /\ VGA_WIDTH \in Nat \ {0} /\ VGA_HEIGHT \in Nat \ {0}
      /\ TAB \in 1 .. VGA_WIDTH /\ BYTE \in Nat \ {0}
  BY VgaAssumption
<1> QED BY <1>1

(* Multiplication by a natural number is monotone. *)
LEMMA TimesMonotone ==
  ASSUME NEW a \in Nat, NEW b \in Nat, NEW w \in Nat, a <= b
  PROVE  a * w <= b * w
OBVIOUS

(* A line more is a width more. *)
LEMMA NextLine ==
  ASSUME NEW a \in Int, NEW w \in Nat
  PROVE  (a + 1) * w = a * w + w /\ (a - 1) * w = a * w - w /\ a * w \in Int
OBVIOUS

(* Quotient and remainder put the number together again. *)
LEMMA TwoBytes ==
  ASSUME NEW a \in Nat, NEW b \in Nat, b > 0
  PROVE  /\ a % b \in Nat /\ a \div b \in Nat
         /\ (a \div b) * b + (a % b) = a
         /\ (a % b) < b
OBVIOUS

(* Two places on the screen have two addresses. *)
LEMMA PositionInjective ==
  ASSUME NEW r1 \in Nat, NEW r2 \in Nat, NEW w \in Nat,
         NEW c1 \in 0 .. w - 1, NEW c2 \in 0 .. w - 1,
         r1 * w + c1 = r2 * w + c2
  PROVE  r1 = r2 /\ c1 = c2
<1>1. ~(r1 < r2)
  <2> SUFFICES ASSUME r1 < r2 PROVE FALSE OBVIOUS
  <2>1. (r1 + 1) * w <= r2 * w BY TimesMonotone
  <2> QED BY <2>1, NextLine
<1>2. ~(r2 < r1)
  <2> SUFFICES ASSUME r2 < r1 PROVE FALSE OBVIOUS
  <2>1. (r2 + 1) * w <= r1 * w BY TimesMonotone
  <2> QED BY <2>1, NextLine
<1>3. r1 = r2 BY <1>1, <1>2
<1> QED BY <1>3, NextLine

(* Where the addresses of a place on or just below the screen lie. *)
LEMMA PositionBounds ==
  ASSUME NEW r \in Nat, NEW c \in Nat
  PROVE  /\ Position(r, c) \in Nat
         /\ r < VGA_HEIGHT /\ c < VGA_WIDTH => Position(r, c) \in Visible
         /\ \/ r < VGA_HEIGHT /\ c < 2 * VGA_WIDTH
            \/ r <= VGA_HEIGHT /\ c < VGA_WIDTH
            => Position(r, c) \in Visible \cup Below
         /\ r < VGA_HEIGHT - 1 /\ c < VGA_WIDTH
            => Position(r, c) < (VGA_HEIGHT - 1) * VGA_WIDTH
         /\ r >= VGA_HEIGHT - 1 => Position(r, c) >= (VGA_HEIGHT - 1) * VGA_WIDTH
         /\ Position(r + 1, c) = Position(r, c) + VGA_WIDTH
<1> DEFINE W == VGA_WIDTH
           H == VGA_HEIGHT
<1>1. W \in Nat /\ W > 0 /\ H \in Nat /\ H > 0 BY Dimensions
<1>2. r * W \in Nat /\ H * W \in Nat /\ 0 <= r * W BY <1>1
<1>3. (r + 1) * W = r * W + W /\ (H + 1) * W = H * W + W /\ (H - 1) * W = H * W - W
  BY <1>1, NextLine
<1>4. r < H => (r + 1) * W <= H * W BY <1>1, TimesMonotone
<1>5. r <= H => r * W <= H * W BY <1>1, TimesMonotone
<1>6. r < H - 1 => (r + 1) * W <= (H - 1) * W BY <1>1, TimesMonotone
<1>7. r >= H - 1 => (H - 1) * W <= r * W BY <1>1, TimesMonotone
<1>8. Position(r, c) = r * W + c /\ Position(r + 1, c) = (r + 1) * W + c
  BY DEF Position
<1>9. Visible = 0 .. H * W - 1 /\ Below = H * W .. (H + 1) * W - 1
  BY DEF Visible, Below
<1> DEFINE a == r * W
           b == H * W
<1>10. a \in Nat /\ b \in Nat BY <1>2
<1>11. /\ (r + 1) * W = a + W /\ (H + 1) * W = b + W /\ (H - 1) * W = b - W
       /\ Position(r, c) = a + c /\ Position(r + 1, c) = a + W + c
       /\ Visible = 0 .. b - 1 /\ Below = b .. b + W - 1
  <2>1. (r + 1) * W = a + W /\ (H + 1) * W = b + W /\ (H - 1) * W = b - W
    BY <1>3
  <2>2. Position(r, c) = a + c /\ Visible = 0 .. b - 1 BY <1>8, <1>9
  <2>3. Position(r + 1, c) = a + W + c BY <1>8, <2>1
  <2>4. Below = b .. b + W - 1
    <3> DEFINE top == (H + 1) * W
    <3>1. top = b + W BY <2>1
    <3>2. Below = b .. top - 1 BY <1>9
    <3> HIDE DEF top, b
    <3> QED BY <3>1, <3>2, <1>1, <1>10
  <2> QED BY <2>1, <2>2, <2>3, <2>4
<1>12. /\ r < H => a + W <= b
       /\ r <= H => a <= b
       /\ r < H - 1 => a + W <= b - W
       /\ r >= H - 1 => b - W <= a
  BY <1>4, <1>5, <1>6, <1>7, <1>11
<1> HIDE DEF a, b
<1> QED BY <1>1, <1>10, <1>11, <1>12

(* A tab goes on by one column at least and TAB at most. *)
LEMMA TabBounds ==
  ASSUME NEW c \in Nat
  PROVE  NextTab(c) \in c + 1 .. c + TAB
<1>1. TAB \in Nat /\ TAB > 0 BY Dimensions
<1>2. /\ (c + TAB) % TAB \in Nat /\ (c + TAB) \div TAB \in Nat
      /\ ((c + TAB) \div TAB) * TAB + ((c + TAB) % TAB) = c + TAB
      /\ ((c + TAB) % TAB) < TAB
  BY <1>1, TwoBytes
<1> DEFINE q == (c + TAB) \div TAB
           m == (c + TAB) % TAB
<1>3. q * TAB \in Int BY <1>1, <1>2
<1>4. NextTab(c) = q * TAB BY DEF NextTab
<1> DEFINE x == q * TAB
<1>5. x \in Int /\ m \in Nat /\ x + m = c + TAB /\ m < TAB /\ NextTab(c) = x
  BY <1>2, <1>3, <1>4
<1> HIDE DEF x, m
<1> QED BY <1>1, <1>5

-----------------------------------------------------------------------------
(* The driver's functions on a terminal. *)
Scrolled(s) ==
  [i \in Visible \cup Below |->
     IF i < (VGA_HEIGHT - 1) * VGA_WIDTH THEN s.buf[i + VGA_WIDTH]
     ELSE IF i \in Visible THEN vga_entry(" ", s.color) ELSE s.buf[i]]

(* The cell that moves up exists. *)
LEMMA ScrollSource ==
  ASSUME NEW i \in Visible \cup Below, i < (VGA_HEIGHT - 1) * VGA_WIDTH
  PROVE  i + VGA_WIDTH \in Visible \cup Below
<1>1. VGA_WIDTH \in Nat /\ VGA_HEIGHT \in Nat BY Dimensions
<1>2. (VGA_HEIGHT - 1) * VGA_WIDTH = VGA_HEIGHT * VGA_WIDTH - VGA_WIDTH
      /\ (VGA_HEIGHT + 1) * VGA_WIDTH = VGA_HEIGHT * VGA_WIDTH + VGA_WIDTH
      /\ VGA_HEIGHT * VGA_WIDTH \in Nat
  BY <1>1, NextLine
<1> DEFINE b == VGA_HEIGHT * VGA_WIDTH
           lo == (VGA_HEIGHT - 1) * VGA_WIDTH
           hi == (VGA_HEIGHT + 1) * VGA_WIDTH
<1>3. b \in Nat /\ lo = b - VGA_WIDTH /\ hi = b + VGA_WIDTH /\ i < lo BY <1>2
<1>4. Visible = 0 .. b - 1 /\ Below = b .. hi - 1 BY DEF Visible, Below
<1> HIDE DEF b, lo, hi
<1> QED BY <1>1, <1>3, <1>4

(* vga_scroll moves the cells and leaves the rest of the terminal alone. *)
LEMMA ScrollTerm ==
  ASSUME NEW s \in Terminal
  PROVE  vga_scroll(s) \in Terminal /\ vga_scroll(s) = [s EXCEPT !.buf = Scrolled(s)]
<1>1. DOMAIN s.buf = Visible \cup Below BY DEF Terminal
<1>2. vga_scroll(s) = [s EXCEPT !.buf = Scrolled(s)]
  BY <1>1 DEF vga_scroll, Scrolled, Terminal
<1>3. Scrolled(s) \in [Visible \cup Below -> Cells]
  <2> SUFFICES ASSUME NEW i \in Visible \cup Below
               PROVE  (IF i < (VGA_HEIGHT - 1) * VGA_WIDTH THEN s.buf[i + VGA_WIDTH]
                       ELSE IF i \in Visible THEN vga_entry(" ", s.color)
                       ELSE s.buf[i]) \in Cells
    BY DEF Scrolled
  <2>1. s.buf \in [Visible \cup Below -> Cells] /\ s.color \in Colors BY DEF Terminal
  <2>2. vga_entry(" ", s.color) \in Cells BY <2>1 DEF vga_entry, Cells
  <2> QED BY <2>1, <2>2, ScrollSource
<1> QED BY <1>2, <1>3 DEF Terminal

(* A terminal on the screen, or on the line below it without a full line. *)
OnOrBelow(s) ==
  s.row < VGA_HEIGHT \/ (s.row = VGA_HEIGHT /\ s.col < VGA_WIDTH)

(* vga_newline returns to the screen. *)
LEMMA NewlineTerm ==
  ASSUME NEW s \in Terminal, s.row <= VGA_HEIGHT
  PROVE  LET n == vga_newline(s)
         IN  /\ n \in Terminal /\ n.row < VGA_HEIGHT /\ n.col = 0
             /\ n.color = s.color
             /\ n.row = IF s.row + 1 >= VGA_HEIGHT THEN VGA_HEIGHT - 1 ELSE s.row + 1
             /\ n.buf = IF s.row + 1 >= VGA_HEIGHT THEN Scrolled(s) ELSE s.buf
<1> DEFINE n == [s EXCEPT !.col = 0, !.row = @ + 1]
<1>0. VGA_HEIGHT \in Nat /\ VGA_HEIGHT > 0 BY Dimensions
<1>1. n \in Terminal /\ n.row = s.row + 1 /\ n.col = 0 /\ n.buf = s.buf
      /\ n.color = s.color
  <2>1. n = [s EXCEPT !.col = 0, !.row = s.row + 1] /\ s.row + 1 \in Nat
    BY DEF Terminal
  <2>2. n \in Terminal BY <2>1 DEF Terminal
  <2> QED BY <2>1, <2>2 DEF Terminal
<1>2. vga_newline(s) = IF n.row >= VGA_HEIGHT
                       THEN [vga_scroll(n) EXCEPT !.row = VGA_HEIGHT - 1] ELSE n
  BY DEF vga_newline
<1>3. Scrolled(n) = Scrolled(s) BY <1>1 DEF Scrolled
<1>4. s.row \in Nat BY DEF Terminal
<1> HIDE DEF n
<1>5. CASE n.row >= VGA_HEIGHT
  <2>1. vga_scroll(n) \in Terminal /\ vga_scroll(n) = [n EXCEPT !.buf = Scrolled(n)]
    BY <1>1, ScrollTerm
  <2> DEFINE m == vga_scroll(n)
  <2>2. m \in Terminal /\ m.buf = Scrolled(s) /\ m.col = 0 /\ m.color = s.color
    BY <1>1, <1>3, <2>1 DEF Terminal
  <2>3. vga_newline(s) = [m EXCEPT !.row = VGA_HEIGHT - 1] BY <1>2, <1>5
  <2> HIDE DEF m
  <2>4. /\ vga_newline(s) \in Terminal
        /\ vga_newline(s).row = VGA_HEIGHT - 1 /\ vga_newline(s).col = 0
        /\ vga_newline(s).color = s.color /\ vga_newline(s).buf = Scrolled(s)
    BY <1>0, <2>2, <2>3 DEF Terminal
  <2> QED BY <1>0, <1>1, <1>4, <1>5, <2>4
<1>6. CASE ~(n.row >= VGA_HEIGHT)
  BY <1>0, <1>1, <1>2, <1>4, <1>6
<1> QED BY <1>5, <1>6

(* The wrap at the end of a line. *)
LEMMA WrapTerm ==
  ASSUME NEW s \in Terminal, s.row <= VGA_HEIGHT
  PROVE  LET n == WrapLine(s)
         IN  /\ n \in Terminal /\ n.row <= VGA_HEIGHT /\ n.col < VGA_WIDTH
             /\ n.color = s.color
             /\ s.row < VGA_HEIGHT => n.row < VGA_HEIGHT
<1>1. VGA_HEIGHT \in Nat /\ VGA_WIDTH \in Nat /\ VGA_WIDTH > 0 BY Dimensions
<1>2. s.row \in Nat /\ s.col \in Nat BY DEF Terminal
<1>3. CASE s.col >= VGA_WIDTH
  <2>1. WrapLine(s) = vga_newline(s) BY <1>3 DEF WrapLine
  <2>2. /\ vga_newline(s) \in Terminal /\ vga_newline(s).row < VGA_HEIGHT
        /\ vga_newline(s).col = 0 /\ vga_newline(s).color = s.color
    BY NewlineTerm
  <2>3. vga_newline(s).row \in Nat BY <2>2 DEF Terminal
  <2> QED BY <1>1, <2>1, <2>2, <2>3
<1>4. CASE ~(s.col >= VGA_WIDTH)
  <2>1. WrapLine(s) = s BY <1>4 DEF WrapLine
  <2> QED BY <1>1, <1>2, <1>4, <2>1
<1> QED BY <1>3, <1>4

(* The cursor registers hold the position; nothing else changes. *)
LEMMA CursorTerm ==
  ASSUME NEW s \in Terminal
  PROVE  LET n == vga_update_cursor(s)
         IN  /\ n \in Terminal /\ n.row = s.row /\ n.col = s.col
             /\ n.buf = s.buf /\ n.color = s.color
             /\ Cursor(n) = Position(n.row, n.col)
<1> DEFINE pos == Position(s.row, s.col)
           n == vga_update_cursor(s)
<1>1. s.row \in Nat /\ s.col \in Nat BY DEF Terminal
<1>2. pos \in Nat BY <1>1, PositionBounds
<1>3. pos % BYTE \in Nat /\ pos \div BYTE \in Nat
      /\ (pos \div BYTE) * BYTE + (pos % BYTE) = pos
  BY <1>2, Dimensions, TwoBytes
<1>4. n = [s EXCEPT !.index = "hi", !.lo = pos % BYTE, !.hi = pos \div BYTE]
  BY DEF vga_update_cursor
<1> HIDE DEF pos, n
<1>5. /\ n \in Terminal /\ n.row = s.row /\ n.col = s.col
      /\ n.buf = s.buf /\ n.color = s.color
      /\ n.lo = pos % BYTE /\ n.hi = pos \div BYTE
  BY <1>3, <1>4 DEF Terminal
<1>6. Cursor(n) = pos BY <1>3, <1>5 DEF Cursor
<1>7. Position(n.row, n.col) = pos BY <1>5 DEF pos
<1> QED BY <1>5, <1>6, <1>7 DEF n

(* A character moves the cursor registers last. *)
LEMMA PutcharIsPut ==
  ASSUME NEW s, NEW c
  PROVE  vga_putchar(s, c) = vga_update_cursor(Put(s, c))
BY DEF vga_putchar, Put

(* The struck character and the column after it. *)
Struck(s, c) ==
  [s EXCEPT !.buf[Position(s.row, s.col)] = vga_entry(c, s.color), !.col = @ + 1]

(* A struck character changes one cell and the column. *)
LEMMA StruckTerm ==
  ASSUME NEW s \in Terminal, NEW c \in Glyphs
  PROVE  LET n == Struck(s, c)
         IN  /\ n \in Terminal /\ n.row = s.row /\ n.col = s.col + 1
             /\ n.color = s.color
             /\ n.buf = [s.buf EXCEPT ![Position(s.row, s.col)] = vga_entry(c, s.color)]
<1>1. s.col + 1 \in Nat /\ s.color \in Colors /\ s.buf \in [Visible \cup Below -> Cells]
  BY DEF Terminal
<1>2. vga_entry(c, s.color) \in Cells BY <1>1 DEF vga_entry, Cells
<1> DEFINE b == [s.buf EXCEPT ![Position(s.row, s.col)] = vga_entry(c, s.color)]
           n == [s EXCEPT !.buf = b, !.col = s.col + 1]
<1>3. b \in [Visible \cup Below -> Cells] BY <1>1, <1>2
<1>4. Struck(s, c) = n BY DEF Struck, Terminal
<1> HIDE DEF b
<1>5. n \in Terminal BY <1>1, <1>3 DEF Terminal
<1>6. n.row = s.row /\ n.col = s.col + 1 /\ n.color = s.color /\ n.buf = b
  BY DEF Terminal
<1> HIDE DEF n
<1> QED BY <1>4, <1>5, <1>6 DEF b

(* What Put does, character by character. *)
LEMMA PutCases ==
  ASSUME NEW s \in Terminal, NEW c \in Glyphs \cup Controls
  PROVE  /\ c = "NL" => Put(s, c) = vga_newline(s)
         /\ c = "CR" => Put(s, c) = [s EXCEPT !.col = 0]
         /\ c = "HT" => Put(s, c) = WrapLine([s EXCEPT !.col = NextTab(s.col)])
         /\ c = "BS" => Put(s, c) = [s EXCEPT !.col = IF s.col > 0 THEN s.col - 1 ELSE s.col]
         /\ c \in Glyphs => Put(s, c) = WrapLine(Struck(s, c))
<1>1. c \in Glyphs => c \notin Controls BY VgaAssumption
<1>2. CASE c = "NL"
  <2>1. Put(s, c) = vga_newline(s) BY <1>2 DEF Put
  <2> QED BY <1>1, <1>2, <2>1 DEF Controls
<1>3. CASE c = "CR"
  <2>1. Put(s, c) = [s EXCEPT !.col = 0] BY <1>3 DEF Put
  <2> QED BY <1>1, <1>3, <2>1 DEF Controls
<1>4. CASE c = "HT"
  <2>1. Put(s, c) = WrapLine([s EXCEPT !.col = NextTab(@)]) BY <1>4 DEF Put
  <2>2. [s EXCEPT !.col = NextTab(@)] = [s EXCEPT !.col = NextTab(s.col)]
    BY DEF Terminal
  <2> QED BY <1>1, <1>4, <2>1, <2>2 DEF Controls
<1>5. CASE c = "BS"
  <2>1. Put(s, c) = [s EXCEPT !.col = IF @ > 0 THEN @ - 1 ELSE @] BY <1>5 DEF Put
  <2>2. [s EXCEPT !.col = IF @ > 0 THEN @ - 1 ELSE @]
          = [s EXCEPT !.col = IF s.col > 0 THEN s.col - 1 ELSE s.col]
    BY DEF Terminal
  <2> QED BY <1>1, <1>5, <2>1, <2>2 DEF Controls
<1>6. CASE c \in Glyphs
  <2>1. c # "NL" /\ c # "CR" /\ c # "HT" /\ c # "BS" BY <1>1, <1>6 DEF Controls
  <2>2. Put(s, c) = WrapLine(Struck(s, c)) BY <2>1 DEF Put, Struck
  <2> QED BY <2>1, <2>2
<1> QED BY <1>2, <1>3, <1>4, <1>5, <1>6 DEF Controls

(* A character of the diagnostic, and its newline, from anywhere on or      *)
(* below the screen.                                                        *)
LEMMA PutcharTerm ==
  ASSUME NEW s \in Terminal, OnOrBelow(s), NEW c \in Glyphs \cup {"NL"}
  PROVE  LET n == vga_putchar(s, c)
         IN  /\ n \in Terminal /\ OnOrBelow(n) /\ n.color = s.color
             /\ c = "NL" => n.row < VGA_HEIGHT /\ n.col = 0
             /\ Cursor(n) = Position(n.row, n.col)
<1> DEFINE m == Put(s, c)
           n == vga_putchar(s, c)
<1>0. VGA_HEIGHT \in Nat /\ VGA_WIDTH \in Nat /\ VGA_WIDTH > 0 BY Dimensions
<1>1. s.row \in Nat /\ s.row <= VGA_HEIGHT BY <1>0 DEF OnOrBelow, Terminal
<1>2. c \in Glyphs \cup Controls BY DEF Controls
<1>3. /\ m \in Terminal /\ OnOrBelow(m) /\ m.color = s.color
      /\ c = "NL" => m.row < VGA_HEIGHT /\ m.col = 0
  <2>1. CASE c = "NL"
    <3>1. m = vga_newline(s) BY <1>2, <2>1, PutCases
    <3>2. /\ vga_newline(s) \in Terminal /\ vga_newline(s).row < VGA_HEIGHT
          /\ vga_newline(s).col = 0 /\ vga_newline(s).color = s.color
      BY <1>1, NewlineTerm
    <3> HIDE DEF m
    <3> QED BY <3>1, <3>2 DEF OnOrBelow
  <2>2. CASE c \in Glyphs
    <3>1. m = WrapLine(Struck(s, c)) BY <1>2, <2>2, PutCases
    <3> DEFINE k == Struck(s, c)
    <3>2. k \in Terminal /\ k.row = s.row /\ k.color = s.color
      BY <2>2, StruckTerm
    <3> HIDE DEF k
    <3>3. /\ WrapLine(k) \in Terminal /\ WrapLine(k).row <= VGA_HEIGHT
          /\ WrapLine(k).col < VGA_WIDTH /\ WrapLine(k).color = k.color
      BY <1>1, <3>2, WrapTerm
    <3>4. WrapLine(k).row \in Nat BY <3>3 DEF Terminal
    <3>5. m = WrapLine(k) BY <3>1 DEF k
    <3>6. OnOrBelow(m) BY <1>0, <3>3, <3>4, <3>5 DEF OnOrBelow
    <3>7. c # "NL" BY <2>2, VgaAssumption DEF Controls
    <3> HIDE DEF m
    <3> QED BY <3>2, <3>3, <3>5, <3>6, <3>7
  <2> QED BY <2>1, <2>2
<1>4. n = vga_update_cursor(m) BY PutcharIsPut
<1> HIDE DEF m, n
<1>5. /\ n \in Terminal /\ n.row = m.row /\ n.col = m.col
      /\ n.color = m.color /\ Cursor(n) = Position(n.row, n.col)
  BY <1>3, <1>4, CursorTerm
<1>6. OnOrBelow(n) BY <1>3, <1>5 DEF OnOrBelow
<1> QED BY <1>3, <1>5, <1>6 DEF n

-----------------------------------------------------------------------------
(* Texts, character by character. *)
(* The states of vga_puts exist: by least counterexample over the length.   *)
LEMMA PutsStates ==
  ASSUME NEW s, NEW text, Len(text) \in Nat
  PROVE  \E g : /\ g[0] = s
                /\ \A n \in 1 .. Len(text) : g[n] = vga_putchar(g[n - 1], text[n])
                /\ vga_puts(s, text) = g[Len(text)]
<1> DEFINE R == OpToRel(<, Nat)
           Run(g, m) == g = [n \in 0 .. m |->
                          IF n = 0 THEN s ELSE vga_putchar(g[n - 1], text[n])]
           T == {m \in Nat : ~ \E g : Run(g, m)}
<1>1. T = {}
  <2> SUFFICES ASSUME T # {} PROVE FALSE OBVIOUS
  <2>1. PICK m \in T : \A y \in T : ~(<<y, m>> \in R)
    <3>1. IsWellFoundedOn(R, Nat) BY NatLessThanWellFounded
    <3>2. T \subseteq Nat OBVIOUS
    <3> HIDE DEF R, T
    <3> QED BY <3>1, <3>2, WFMin
  <2>2. m \in Nat /\ ~ \E g : Run(g, m) OBVIOUS
  <2>3. m # 0
    <3> DEFINE g0 == [n \in 0 .. 0 |-> s]
    <3>1. g0 = [n \in 0 .. 0 |-> IF n = 0 THEN s ELSE vga_putchar(g0[n - 1], text[n])]
      OBVIOUS
    <3>2. Run(g0, 0) BY <3>1
    <3> QED BY <2>2, <3>2
  <2>4. m - 1 \in Nat /\ <<m - 1, m>> \in R BY <2>2, <2>3 DEF OpToRel
  <2>5. m - 1 \notin T BY <2>1, <2>4
  <2>6. PICK g : Run(g, m - 1) BY <2>4, <2>5
  <2> DEFINE h == [n \in 0 .. m |-> IF n <= m - 1 THEN g[n]
                                    ELSE vga_putchar(g[m - 1], text[m])]
  <2>7. ASSUME NEW n \in 0 .. m
        PROVE  h[n] = IF n = 0 THEN s ELSE vga_putchar(h[n - 1], text[n])
    <3>1. CASE n = 0 BY <2>2, <2>3, <2>6, <3>1
    <3>2. CASE n # 0 /\ n <= m - 1
      <4>1. n - 1 \in 0 .. m /\ n - 1 <= m - 1 /\ n \in 0 .. m - 1 BY <2>2, <3>2
      <4>2. h[n] = g[n] /\ h[n - 1] = g[n - 1] BY <3>2, <4>1
      <4>3. g[n] = vga_putchar(g[n - 1], text[n]) BY <2>6, <3>2, <4>1
      <4> QED BY <3>2, <4>2, <4>3
    <3>3. CASE n = m
      <4>1. h[n] = vga_putchar(g[m - 1], text[m]) BY <2>2, <3>3
      <4>2. h[n - 1] = g[m - 1] BY <2>2, <2>3, <3>3
      <4> QED BY <2>3, <3>3, <4>1, <4>2
    <3> QED BY <2>2, <3>1, <3>2, <3>3
  <2>8. Run(h, m)
    <3>1. h = [n \in 0 .. m |-> h[n]] OBVIOUS
    <3> HIDE DEF h
    <3> QED BY <2>7, <3>1
  <2> QED BY <2>2, <2>8
<1>2. \E g : Run(g, Len(text)) BY <1>1
<1> DEFINE after == CHOOSE g : Run(g, Len(text))
<1>3. Run(after, Len(text)) BY <1>2
<1>4. vga_puts(s, text) = after[Len(text)] BY DEF vga_puts
<1> HIDE DEF after
<1>5. after[0] = s BY <1>3
<1>6. \A n \in 1 .. Len(text) : after[n] = vga_putchar(after[n - 1], text[n])
  BY <1>3
<1> QED BY <1>4, <1>5, <1>6

(* The characters of the diagnostic with its newline. *)
Message == Append(Diagnostic, "NL")

(* Printable characters, then a newline. *)
LEMMA MessageText ==
  /\ Len(Message) \in Nat /\ Len(Message) > 0
  /\ \A n \in 1 .. Len(Message) : Message[n] \in Glyphs \cup {"NL"}
  /\ Message[Len(Message)] = "NL"
<1>1. Diagnostic \in Seq(Glyphs) BY VgaAssumption
<1>2. Len(Diagnostic) \in Nat /\ \A n \in 1 .. Len(Diagnostic) : Diagnostic[n] \in Glyphs
  BY <1>1
<1>3. Len(Message) = Len(Diagnostic) + 1 BY <1>1 DEF Message
<1>4. ASSUME NEW n \in 1 .. Len(Message)
      PROVE  Message[n] = IF n <= Len(Diagnostic) THEN Diagnostic[n] ELSE "NL"
  BY <1>1, <1>2, <1>3 DEF Message
<1> QED BY <1>2, <1>3, <1>4

(* The diagnostic ends at the start of a line of the screen, its cursor     *)
(* right, wherever it began.                                                *)
LEMMA DiagnosticTerm ==
  ASSUME NEW s \in Terminal, OnOrBelow(s)
  PROVE  LET n == vga_puts(s, Message)
         IN  /\ n \in Terminal /\ n.row < VGA_HEIGHT /\ n.col = 0
             /\ n.color = s.color /\ Cursor(n) = Position(n.row, n.col)
<1> DEFINE L == Len(Message)
<1>1. L \in Nat /\ L > 0 BY MessageText
<1>2. PICK g : /\ g[0] = s
               /\ \A n \in 1 .. L : g[n] = vga_putchar(g[n - 1], Message[n])
               /\ vga_puts(s, Message) = g[L]
  BY <1>1, PutsStates
<1> DEFINE Good(n) == g[n] \in Terminal /\ OnOrBelow(g[n]) /\ g[n].color = s.color
           R == OpToRel(<, Nat)
           T == {n \in 0 .. L : ~Good(n)}
<1>3. T = {}
  <2> SUFFICES ASSUME T # {} PROVE FALSE OBVIOUS
  <2>1. PICK m \in T : \A y \in T : ~(<<y, m>> \in R)
    <3>1. IsWellFoundedOn(R, Nat) BY NatLessThanWellFounded
    <3>2. T \subseteq Nat BY <1>1
    <3> HIDE DEF R, T
    <3> QED BY <3>1, <3>2, WFMin
  <2>2. m \in 0 .. L /\ ~Good(m) BY <2>1
  <2>3. Good(0) BY <1>2
  <2>4. m # 0 BY <2>2, <2>3
  <2>5. m - 1 \in Nat /\ m \in Nat /\ m - 1 < m BY <1>1, <2>2, <2>4
  <2>6. <<m - 1, m>> \in R BY <2>5 DEF OpToRel
  <2>7. m - 1 \in 0 .. L BY <1>1, <2>2, <2>5
  <2>8. Good(m - 1) BY <2>1, <2>6, <2>7
  <2>9. m \in 1 .. L BY <1>1, <2>2, <2>4
  <2>10. Message[m] \in Glyphs \cup {"NL"} BY <2>9, MessageText
  <2> HIDE DEF T, R
  <2>11. Good(m) BY <1>2, <2>8, <2>9, <2>10, PutcharTerm
  <2> QED BY <2>2, <2>11
<1>4. L - 1 \in 0 .. L /\ L \in 1 .. L BY <1>1
<1>5. Good(L - 1) BY <1>3, <1>4
<1>6. g[L] = vga_putchar(g[L - 1], "NL") BY <1>2, <1>4, MessageText
<1> HIDE DEF L, T
<1>7. /\ g[L] \in Terminal /\ g[L].row < VGA_HEIGHT /\ g[L].col = 0
      /\ g[L].color = g[L - 1].color /\ Cursor(g[L]) = Position(g[L].row, g[L].col)
  BY <1>5, <1>6, PutcharTerm
<1> QED BY <1>2, <1>5, <1>7

-----------------------------------------------------------------------------
(* The initial screen. *)
LEMMA VgaInitInv == VgaInit => VgaInv
<1> SUFFICES ASSUME VgaInit PROVE VgaInv OBVIOUS
<1>1. PICK color \in Colors : t = vga_clear(color) BY DEF VgaInit
<1>2. vga_entry(" ", color) \in Cells BY DEF vga_entry, Cells
<1>3. t \in Terminal BY <1>1, <1>2 DEF vga_clear, Terminal
<1>4. t.row = 0 /\ t.col = 0 /\ t.lo = 0 /\ t.hi = 0 BY <1>1 DEF vga_clear
<1>5. call = Idle /\ hit = FALSE /\ spoiled = FALSE BY DEF VgaInit
<1>6. call \in Calls /\ call.pc = "idle" BY <1>5 DEF Idle, Calls, PCs
<1>7. VgaTypes BY <1>3, <1>5, <1>6 DEF VgaTypes, At
<1>8. RangeInv BY <1>4, <1>6, Dimensions DEF RangeInv, At
<1>9. Cursor(t) = 0 /\ Position(t.row, t.col) = 0 BY <1>4, Dimensions DEF Cursor, Position
<1>10. RegistersInv BY <1>6, <1>9 DEF RegistersInv, At
<1> QED BY <1>7, <1>8, <1>10 DEF VgaInv

(* The row is read. *)
LEMMA LoadRowInv == VgaInv /\ LoadRow => VgaInv'
<1> SUFFICES ASSUME VgaInv, LoadRow PROVE VgaInv' OBVIOUS
<1> USE DEF At
<1>1. VgaTypes /\ RangeInv /\ RegistersInv BY DEF VgaInv
<1>2. t \in Terminal /\ call \in Calls BY <1>1 DEF VgaTypes
<1>3. /\ t.row \in Nat /\ t.col \in Nat /\ call.row \in Nat /\ call.col \in Nat
      /\ VGA_WIDTH \in Nat /\ VGA_WIDTH > 0 /\ VGA_HEIGHT \in Nat /\ VGA_HEIGHT > 0
  BY <1>2, Dimensions DEF Terminal, Calls
<1>4. t' = t BY DEF LoadRow
<1>5. /\ call.pc = "load_row" /\ call' \in Calls /\ call'.pc = "load_col"
      /\ call'.c = call.c /\ call'.row = t.row /\ call'.col = call.col
      /\ call'.todo = call.todo /\ call'.pos = call.pos
  BY <1>1, <1>2, <1>3 DEF LoadRow, Calls, PCs, Goto, RangeInv
<1>6. hit' = hit /\ spoiled' = spoiled BY DEF LoadRow, Silent
<1>7. VgaTypes' BY <1>1, <1>4, <1>5, <1>6 DEF VgaTypes
<1>8. RangeInv' BY <1>1, <1>3, <1>4, <1>5 DEF RangeInv
<1>9. RegistersInv' BY <1>1, <1>3, <1>4, <1>5, <1>6 DEF RegistersInv, RowRead, ColRead, PosRead
<1> QED BY <1>7, <1>8, <1>9 DEF VgaInv

(* The column before, in the register and in memory. *)
LEMMA StepBackInv == VgaInv /\ StepBack => VgaInv'
<1> SUFFICES ASSUME VgaInv, StepBack PROVE VgaInv' OBVIOUS
<1> USE DEF At
<1>1. VgaTypes /\ RangeInv /\ RegistersInv BY DEF VgaInv
<1>2. t \in Terminal /\ call \in Calls BY <1>1 DEF VgaTypes
<1>3. /\ t.row \in Nat /\ t.col \in Nat /\ call.row \in Nat /\ call.col \in Nat
      /\ VGA_WIDTH \in Nat /\ VGA_WIDTH > 0 /\ VGA_HEIGHT \in Nat /\ VGA_HEIGHT > 0
  BY <1>2, Dimensions DEF Terminal, Calls
<1>0. call.col - 1 \in Nat /\ call' = [call EXCEPT !.pc = "pos", !.col = call.col - 1]
  <2>1. call.pc = "back" BY DEF StepBack
  <2>2. call.col \in 1 .. VGA_WIDTH - 1 BY <1>1, <2>1 DEF RangeInv
  <2>3. call.col - 1 \in Nat BY <1>3, <2>2
  <2>4. call' = [call EXCEPT !.pc = "pos", !.col = call.col - 1]
    BY <1>2 DEF StepBack, Calls
  <2> QED BY <2>3, <2>4
<1>4. t' \in Terminal /\ t' = [t EXCEPT !.col = call.col - 1]
      /\ t'.row = t.row /\ t'.col = call.col - 1 /\ call.col \in 1 .. VGA_WIDTH - 1
  BY <1>1, <1>2, <1>3 DEF StepBack, RangeInv, Terminal
<1>5. /\ call.pc = "back" /\ call' \in Calls /\ call'.pc = "pos"
      /\ call'.c = call.c /\ call'.row = call.row /\ call'.col = call.col - 1
      /\ call'.todo = call.todo /\ call'.pos = call.pos
  BY <1>1, <1>2, <1>3, <1>0 DEF StepBack, Calls, PCs, Goto, RangeInv
<1>6. hit' = hit /\ spoiled' = spoiled BY DEF StepBack, Silent
<1>7. VgaTypes' BY <1>1, <1>4, <1>5, <1>6 DEF VgaTypes
<1>8. RangeInv' BY <1>1, <1>3, <1>4, <1>5 DEF RangeInv
<1>9. RegistersInv' BY <1>1, <1>3, <1>4, <1>5, <1>6 DEF RegistersInv, RowRead, ColRead, PosRead
<1> QED BY <1>7, <1>8, <1>9 DEF VgaInv

(* The tab computes the column from the one in memory. *)
LEMMA TabLoadInv == VgaInv /\ TabLoad => VgaInv'
<1> SUFFICES ASSUME VgaInv, TabLoad PROVE VgaInv' OBVIOUS
<1> USE DEF At
<1>1. VgaTypes /\ RangeInv /\ RegistersInv BY DEF VgaInv
<1>2. t \in Terminal /\ call \in Calls BY <1>1 DEF VgaTypes
<1>3. /\ t.row \in Nat /\ t.col \in Nat /\ call.row \in Nat /\ call.col \in Nat
      /\ VGA_WIDTH \in Nat /\ VGA_WIDTH > 0 /\ VGA_HEIGHT \in Nat /\ VGA_HEIGHT > 0
  BY <1>2, Dimensions DEF Terminal, Calls
<1>0. NextTab(t.col) \in Nat /\ (At("tab") => NextTab(t.col) < 2 * VGA_WIDTH)
  BY <1>1, <1>3, TabBounds, Dimensions DEF RangeInv
<1>4. t' = t BY DEF TabLoad
<1>5. /\ call.pc = "tab" /\ call' \in Calls /\ call'.pc = "tab_store"
      /\ call'.c = call.c /\ call'.row = call.row /\ call'.col = NextTab(t.col)
      /\ call'.todo = call.todo /\ call'.pos = call.pos
  BY <1>1, <1>2, <1>3, <1>0 DEF TabLoad, Calls, PCs, Goto, RangeInv
<1>6. hit' = hit /\ spoiled' = spoiled BY DEF TabLoad, Silent
<1>7. VgaTypes' BY <1>1, <1>4, <1>5, <1>6 DEF VgaTypes
<1>8. RangeInv' BY <1>1, <1>3, <1>4, <1>5, <1>0 DEF RangeInv
<1>9. RegistersInv' BY <1>1, <1>3, <1>4, <1>5, <1>6, <1>0 DEF RegistersInv, RowRead, ColRead, PosRead
<1> QED BY <1>7, <1>8, <1>9 DEF VgaInv

(* The column of the tab is stored; past the end of the line comes a new one. *)
LEMMA TabStoreInv == VgaInv /\ TabStore => VgaInv'
<1> SUFFICES ASSUME VgaInv, TabStore PROVE VgaInv' OBVIOUS
<1> USE DEF At
<1>1. VgaTypes /\ RangeInv /\ RegistersInv BY DEF VgaInv
<1>2. t \in Terminal /\ call \in Calls BY <1>1 DEF VgaTypes
<1>3. /\ t.row \in Nat /\ t.col \in Nat /\ call.row \in Nat /\ call.col \in Nat
      /\ VGA_WIDTH \in Nat /\ VGA_WIDTH > 0 /\ VGA_HEIGHT \in Nat /\ VGA_HEIGHT > 0
  BY <1>2, Dimensions DEF Terminal, Calls
<1>4. t' \in Terminal /\ t'.row = t.row /\ t'.col = call.col
  BY <1>2, <1>3 DEF TabStore, Terminal
<1>5. /\ call.pc = "tab_store" /\ call' \in Calls /\ call'.pc = IF call.col >= VGA_WIDTH THEN "newline" ELSE "row"
      /\ call'.c = call.c /\ call'.row = call.row /\ call'.col = call.col
      /\ call'.todo = call.todo /\ call'.pos = call.pos
  BY <1>1, <1>2, <1>3 DEF TabStore, AfterColumn, Calls, PCs, Goto, RangeInv
<1>6. hit' = hit /\ spoiled' = spoiled BY DEF TabStore, Silent
<1>7. VgaTypes' BY <1>1, <1>4, <1>5, <1>6 DEF VgaTypes
<1>8. RangeInv' BY <1>1, <1>3, <1>4, <1>5 DEF RangeInv
<1>9. RegistersInv' BY <1>1, <1>3, <1>4, <1>5, <1>6 DEF RegistersInv, RowRead, ColRead, PosRead
<1> QED BY <1>7, <1>8, <1>9 DEF VgaInv

(* The first column, in the register and in memory. *)
LEMMA CarriageReturnInv == VgaInv /\ CarriageReturn => VgaInv'
<1> SUFFICES ASSUME VgaInv, CarriageReturn PROVE VgaInv' OBVIOUS
<1> USE DEF At
<1>1. VgaTypes /\ RangeInv /\ RegistersInv BY DEF VgaInv
<1>2. t \in Terminal /\ call \in Calls BY <1>1 DEF VgaTypes
<1>3. /\ t.row \in Nat /\ t.col \in Nat /\ call.row \in Nat /\ call.col \in Nat
      /\ VGA_WIDTH \in Nat /\ VGA_WIDTH > 0 /\ VGA_HEIGHT \in Nat /\ VGA_HEIGHT > 0
  BY <1>2, Dimensions DEF Terminal, Calls
<1>4. t' \in Terminal /\ t'.row = t.row /\ t'.col = 0
  BY <1>2, <1>3 DEF CarriageReturn, Terminal
<1>5. /\ call.pc = "return" /\ call' \in Calls /\ call'.pc = "row"
      /\ call'.c = call.c /\ call'.row = call.row /\ call'.col = 0
      /\ call'.todo = call.todo /\ call'.pos = call.pos
  BY <1>1, <1>2, <1>3 DEF CarriageReturn, Calls, PCs, Goto, RangeInv
<1>6. hit' = hit /\ spoiled' = spoiled BY DEF CarriageReturn, Silent
<1>7. VgaTypes' BY <1>1, <1>4, <1>5, <1>6 DEF VgaTypes
<1>8. RangeInv' BY <1>1, <1>3, <1>4, <1>5 DEF RangeInv
<1>9. RegistersInv' BY <1>1, <1>3, <1>4, <1>5, <1>6 DEF RegistersInv, RowRead, ColRead, PosRead
<1> QED BY <1>7, <1>8, <1>9 DEF VgaInv

(* vga_newline resets the column first. *)
LEMMA NewlineColInv == VgaInv /\ NewlineCol => VgaInv'
<1> SUFFICES ASSUME VgaInv, NewlineCol PROVE VgaInv' OBVIOUS
<1> USE DEF At
<1>1. VgaTypes /\ RangeInv /\ RegistersInv BY DEF VgaInv
<1>2. t \in Terminal /\ call \in Calls BY <1>1 DEF VgaTypes
<1>3. /\ t.row \in Nat /\ t.col \in Nat /\ call.row \in Nat /\ call.col \in Nat
      /\ VGA_WIDTH \in Nat /\ VGA_WIDTH > 0 /\ VGA_HEIGHT \in Nat /\ VGA_HEIGHT > 0
  BY <1>2, Dimensions DEF Terminal, Calls
<1>4. t' \in Terminal /\ t'.row = t.row /\ t'.col = 0
  BY <1>2, <1>3 DEF NewlineCol, Terminal
<1>5. /\ call.pc = "newline" /\ call' \in Calls /\ call'.pc = "newline_load"
      /\ call'.c = call.c /\ call'.row = call.row /\ call'.col = call.col
      /\ call'.todo = call.todo /\ call'.pos = call.pos
  BY <1>1, <1>2, <1>3 DEF NewlineCol, Calls, PCs, Goto, RangeInv
<1>6. hit' = hit /\ spoiled' = spoiled BY DEF NewlineCol, Silent
<1>7. VgaTypes' BY <1>1, <1>4, <1>5, <1>6 DEF VgaTypes
<1>8. RangeInv' BY <1>1, <1>3, <1>4, <1>5 DEF RangeInv
<1>9. RegistersInv' BY <1>1, <1>3, <1>4, <1>5, <1>6 DEF RegistersInv, RowRead, ColRead, PosRead
<1> QED BY <1>7, <1>8, <1>9 DEF VgaInv

(* It reads the row. *)
LEMMA NewlineLoadInv == VgaInv /\ NewlineLoad => VgaInv'
<1> SUFFICES ASSUME VgaInv, NewlineLoad PROVE VgaInv' OBVIOUS
<1> USE DEF At
<1>1. VgaTypes /\ RangeInv /\ RegistersInv BY DEF VgaInv
<1>2. t \in Terminal /\ call \in Calls BY <1>1 DEF VgaTypes
<1>3. /\ t.row \in Nat /\ t.col \in Nat /\ call.row \in Nat /\ call.col \in Nat
      /\ VGA_WIDTH \in Nat /\ VGA_WIDTH > 0 /\ VGA_HEIGHT \in Nat /\ VGA_HEIGHT > 0
  BY <1>2, Dimensions DEF Terminal, Calls
<1>0. t.row + 1 \in Nat BY <1>3
<1>4. t' = t BY DEF NewlineLoad
<1>5. /\ call.pc = "newline_load" /\ call' \in Calls /\ call'.pc = "newline_row"
      /\ call'.c = call.c /\ call'.row = t.row + 1 /\ call'.col = call.col
      /\ call'.todo = call.todo /\ call'.pos = call.pos
  BY <1>1, <1>2, <1>3, <1>0 DEF NewlineLoad, Calls, PCs, Goto, RangeInv
<1>6. hit' = hit /\ spoiled' = spoiled BY DEF NewlineLoad, Silent
<1>7. VgaTypes' BY <1>1, <1>4, <1>5, <1>6 DEF VgaTypes
<1>8. RangeInv' BY <1>1, <1>3, <1>4, <1>5 DEF RangeInv
<1>9. RegistersInv' BY <1>1, <1>3, <1>4, <1>5, <1>6 DEF RegistersInv, RowRead, ColRead, PosRead
<1> QED BY <1>7, <1>8, <1>9 DEF VgaInv

(* It stores the next row, which may be below the screen. *)
LEMMA NewlineRowInv == VgaInv /\ NewlineRow => VgaInv'
<1> SUFFICES ASSUME VgaInv, NewlineRow PROVE VgaInv' OBVIOUS
<1> USE DEF At
<1>1. VgaTypes /\ RangeInv /\ RegistersInv BY DEF VgaInv
<1>2. t \in Terminal /\ call \in Calls BY <1>1 DEF VgaTypes
<1>3. /\ t.row \in Nat /\ t.col \in Nat /\ call.row \in Nat /\ call.col \in Nat
      /\ VGA_WIDTH \in Nat /\ VGA_WIDTH > 0 /\ VGA_HEIGHT \in Nat /\ VGA_HEIGHT > 0
  BY <1>2, Dimensions DEF Terminal, Calls
<1>4. t' \in Terminal /\ t'.row = call.row /\ t'.col = t.col
  BY <1>2, <1>3 DEF NewlineRow, Terminal
<1>5. /\ call.pc = "newline_row" /\ call' \in Calls /\ call'.pc = IF call.row >= VGA_HEIGHT THEN "scroll" ELSE "reload"
      /\ call'.c = call.c /\ call'.row = call.row /\ call'.col = call.col
      /\ call'.todo = call.todo /\ call'.pos = call.pos
  BY <1>1, <1>2, <1>3 DEF NewlineRow, Calls, PCs, Goto, RangeInv
<1>6. hit' = hit /\ spoiled' = spoiled BY DEF NewlineRow, Silent
<1>7. VgaTypes' BY <1>1, <1>4, <1>5, <1>6 DEF VgaTypes
<1>8. RangeInv' BY <1>1, <1>3, <1>4, <1>5 DEF RangeInv
<1>9. RegistersInv' BY <1>1, <1>3, <1>4, <1>5, <1>6 DEF RegistersInv, RowRead, ColRead, PosRead
<1> QED BY <1>7, <1>8, <1>9 DEF VgaInv

(* The lines move up; row and column stay. *)
LEMMA ScrollInv == VgaInv /\ Scroll => VgaInv'
<1> SUFFICES ASSUME VgaInv, Scroll PROVE VgaInv' OBVIOUS
<1> USE DEF At
<1>1. VgaTypes /\ RangeInv /\ RegistersInv BY DEF VgaInv
<1>2. t \in Terminal /\ call \in Calls BY <1>1 DEF VgaTypes
<1>3. /\ t.row \in Nat /\ t.col \in Nat /\ call.row \in Nat /\ call.col \in Nat
      /\ VGA_WIDTH \in Nat /\ VGA_WIDTH > 0 /\ VGA_HEIGHT \in Nat /\ VGA_HEIGHT > 0
  BY <1>2, Dimensions DEF Terminal, Calls
<1>4. t' \in Terminal /\ t'.row = t.row /\ t'.col = t.col
  BY <1>2, <1>3, ScrollTerm DEF Scroll, Terminal
<1>5. /\ call.pc = "scroll" /\ call' \in Calls /\ call'.pc = "last_row"
      /\ call'.c = call.c /\ call'.row = call.row /\ call'.col = call.col
      /\ call'.todo = call.todo /\ call'.pos = call.pos
  BY <1>1, <1>2, <1>3 DEF Scroll, Calls, PCs, Goto, RangeInv
<1>6. hit' = hit /\ spoiled' = spoiled BY DEF Scroll, Silent
<1>7. VgaTypes' BY <1>1, <1>4, <1>5, <1>6 DEF VgaTypes
<1>8. RangeInv' BY <1>1, <1>3, <1>4, <1>5 DEF RangeInv
<1>9. RegistersInv' BY <1>1, <1>3, <1>4, <1>5, <1>6 DEF RegistersInv, RowRead, ColRead, PosRead
<1> QED BY <1>7, <1>8, <1>9 DEF VgaInv

(* The row is back on the screen. *)
LEMMA LastRowInv == VgaInv /\ LastRow => VgaInv'
<1> SUFFICES ASSUME VgaInv, LastRow PROVE VgaInv' OBVIOUS
<1> USE DEF At
<1>1. VgaTypes /\ RangeInv /\ RegistersInv BY DEF VgaInv
<1>2. t \in Terminal /\ call \in Calls BY <1>1 DEF VgaTypes
<1>3. /\ t.row \in Nat /\ t.col \in Nat /\ call.row \in Nat /\ call.col \in Nat
      /\ VGA_WIDTH \in Nat /\ VGA_WIDTH > 0 /\ VGA_HEIGHT \in Nat /\ VGA_HEIGHT > 0
  BY <1>2, Dimensions DEF Terminal, Calls
<1>4. t' \in Terminal /\ t'.row = VGA_HEIGHT - 1 /\ t'.col = t.col
  BY <1>2, <1>3 DEF LastRow, Terminal
<1>5. /\ call.pc = "last_row" /\ call' \in Calls /\ call'.pc = "reload"
      /\ call'.c = call.c /\ call'.row = call.row /\ call'.col = call.col
      /\ call'.todo = call.todo /\ call'.pos = call.pos
  BY <1>1, <1>2, <1>3 DEF LastRow, Calls, PCs, Goto, RangeInv
<1>6. hit' = hit /\ spoiled' = spoiled BY DEF LastRow, Silent
<1>7. VgaTypes' BY <1>1, <1>4, <1>5, <1>6 DEF VgaTypes
<1>8. RangeInv' BY <1>1, <1>3, <1>4, <1>5 DEF RangeInv
<1>9. RegistersInv' BY <1>1, <1>3, <1>4, <1>5, <1>6 DEF RegistersInv, RowRead, ColRead, PosRead
<1> QED BY <1>7, <1>8, <1>9 DEF VgaInv

(* The column is read again. *)
LEMMA ReadColInv == VgaInv /\ ReadCol => VgaInv'
<1> SUFFICES ASSUME VgaInv, ReadCol PROVE VgaInv' OBVIOUS
<1> USE DEF At
<1>1. VgaTypes /\ RangeInv /\ RegistersInv BY DEF VgaInv
<1>2. t \in Terminal /\ call \in Calls BY <1>1 DEF VgaTypes
<1>3. /\ t.row \in Nat /\ t.col \in Nat /\ call.row \in Nat /\ call.col \in Nat
      /\ VGA_WIDTH \in Nat /\ VGA_WIDTH > 0 /\ VGA_HEIGHT \in Nat /\ VGA_HEIGHT > 0
  BY <1>2, Dimensions DEF Terminal, Calls
<1>4. t' = t BY DEF ReadCol
<1>5. /\ call.pc = "col" /\ call' \in Calls /\ call'.pc = "pos"
      /\ call'.c = call.c /\ call'.row = call.row /\ call'.col = t.col
      /\ call'.todo = call.todo /\ call'.pos = call.pos
  BY <1>1, <1>2, <1>3 DEF ReadCol, Calls, PCs, Goto, RangeInv
<1>6. hit' = hit /\ spoiled' = spoiled BY DEF ReadCol, Silent
<1>7. VgaTypes' BY <1>1, <1>4, <1>5, <1>6 DEF VgaTypes
<1>8. RangeInv' BY <1>1, <1>3, <1>4, <1>5 DEF RangeInv
<1>9. RegistersInv' BY <1>1, <1>3, <1>4, <1>5, <1>6 DEF RegistersInv, RowRead, ColRead, PosRead
<1> QED BY <1>7, <1>8, <1>9 DEF VgaInv

(* The low register is selected, the position computed from the registers. *)
LEMMA SelectLowInv == VgaInv /\ SelectLow => VgaInv'
<1> SUFFICES ASSUME VgaInv, SelectLow PROVE VgaInv' OBVIOUS
<1> USE DEF At
<1>1. VgaTypes /\ RangeInv /\ RegistersInv BY DEF VgaInv
<1>2. t \in Terminal /\ call \in Calls BY <1>1 DEF VgaTypes
<1>3. /\ t.row \in Nat /\ t.col \in Nat /\ call.row \in Nat /\ call.col \in Nat
      /\ VGA_WIDTH \in Nat /\ VGA_WIDTH > 0 /\ VGA_HEIGHT \in Nat /\ VGA_HEIGHT > 0
  BY <1>2, Dimensions DEF Terminal, Calls
<1>0. Position(call.row, call.col) \in Nat BY <1>3, PositionBounds
<1>4. t' \in Terminal /\ t'.row = t.row /\ t'.col = t.col /\ t'.index = "lo"
  BY <1>2, <1>3 DEF SelectLow, Terminal
<1>5. /\ call.pc = "pos" /\ call' \in Calls /\ call'.pc = "low"
      /\ call'.c = call.c /\ call'.row = call.row /\ call'.col = call.col
      /\ call'.todo = call.todo /\ call'.pos = Position(call.row, call.col)
  BY <1>1, <1>2, <1>3, <1>0 DEF SelectLow, Calls, PCs, Goto, RangeInv
<1>6. hit' = hit /\ spoiled' = spoiled BY DEF SelectLow, Silent
<1>7. VgaTypes' BY <1>1, <1>4, <1>5, <1>6 DEF VgaTypes
<1>8. RangeInv' BY <1>1, <1>3, <1>4, <1>5 DEF RangeInv
<1>9. RegistersInv' BY <1>1, <1>3, <1>4, <1>5, <1>6 DEF RegistersInv, RowRead, ColRead, PosRead
<1> QED BY <1>7, <1>8, <1>9 DEF VgaInv

(* The high register is selected. *)
LEMMA SelectHighInv == VgaInv /\ SelectHigh => VgaInv'
<1> SUFFICES ASSUME VgaInv, SelectHigh PROVE VgaInv' OBVIOUS
<1> USE DEF At
<1>1. VgaTypes /\ RangeInv /\ RegistersInv BY DEF VgaInv
<1>2. t \in Terminal /\ call \in Calls BY <1>1 DEF VgaTypes
<1>3. /\ t.row \in Nat /\ t.col \in Nat /\ call.row \in Nat /\ call.col \in Nat
      /\ VGA_WIDTH \in Nat /\ VGA_WIDTH > 0 /\ VGA_HEIGHT \in Nat /\ VGA_HEIGHT > 0
  BY <1>2, Dimensions DEF Terminal, Calls
<1>4. t' \in Terminal /\ t'.row = t.row /\ t'.col = t.col /\ t'.index = "hi" /\ t'.lo = t.lo
  BY <1>2, <1>3 DEF SelectHigh, Terminal
<1>5. /\ call.pc = "select_high" /\ call' \in Calls /\ call'.pc = "high"
      /\ call'.c = call.c /\ call'.row = call.row /\ call'.col = call.col
      /\ call'.todo = call.todo /\ call'.pos = call.pos
  BY <1>1, <1>2, <1>3 DEF SelectHigh, Calls, PCs, Goto, RangeInv
<1>6. hit' = hit /\ spoiled' = spoiled BY DEF SelectHigh, Silent
<1>7. VgaTypes' BY <1>1, <1>4, <1>5, <1>6 DEF VgaTypes
<1>8. RangeInv' BY <1>1, <1>3, <1>4, <1>5 DEF RangeInv
<1>9. RegistersInv' BY <1>1, <1>3, <1>4, <1>5, <1>6 DEF RegistersInv, RowRead, ColRead, PosRead
<1> QED BY <1>7, <1>8, <1>9 DEF VgaInv

(* A new attribute, between calls. *)
LEMMA SetColorInv ==
  ASSUME VgaInv, NEW color \in Colors, vga_set_color(color)
  PROVE  VgaInv'
<1> USE DEF At
<1>1. VgaTypes /\ RangeInv /\ RegistersInv BY DEF VgaInv
<1>2. t \in Terminal BY <1>1 DEF VgaTypes
<1>3. /\ t' \in Terminal /\ t'.row = t.row /\ t'.col = t.col
      /\ t'.lo = t.lo /\ t'.hi = t.hi /\ t'.index = t.index
  BY <1>2 DEF vga_set_color, Terminal
<1>4. call' = call /\ hit' = hit /\ spoiled' = spoiled /\ call.pc = "idle"
  BY DEF vga_set_color, Silent
<1>5. VgaTypes' BY <1>1, <1>3, <1>4 DEF VgaTypes
<1>6. RangeInv' BY <1>1, <1>3, <1>4 DEF RangeInv
<1>7. RegistersInv' BY <1>1, <1>3, <1>4 DEF RegistersInv, Cursor
<1> QED BY <1>5, <1>6, <1>7 DEF VgaInv

(* A call begins at the stage of its character. *)
LEMMA EnterInv ==
  ASSUME VgaInv, NEW c \in Glyphs \cup Controls, Enter(c)
  PROVE  VgaInv'
<1> USE DEF At
<1>1. VgaTypes /\ RangeInv /\ RegistersInv BY DEF VgaInv
<1>2. t' = t /\ hit' = FALSE /\ spoiled' = spoiled /\ call.pc = "idle" BY DEF Enter
<1> DEFINE pc == CASE c = "NL" -> "newline" [] c = "CR" -> "return"
                   [] c = "HT" -> "tab" [] OTHER -> "load_row"
<1>3. pc \in {"newline", "return", "tab", "load_row"} OBVIOUS
<1>4. pc = "load_row" => c \in Glyphs \cup {"BS"} BY DEF Controls
<1>5. call' = [Idle EXCEPT !.c = c, !.pc = pc] BY DEF Enter
<1> HIDE DEF pc
<1>6. call' \in Calls /\ call'.pc = pc /\ call'.c = c
  BY <1>3, <1>5 DEF Idle, Calls, PCs
<1>7. VgaTypes' BY <1>1, <1>2, <1>3, <1>4, <1>6 DEF VgaTypes
<1>8. RangeInv' BY <1>1, <1>2, <1>3, <1>6 DEF RangeInv
<1>9. RegistersInv' BY <1>1, <1>2, <1>3, <1>6 DEF RegistersInv
<1> QED BY <1>7, <1>8, <1>9 DEF VgaInv

(* The column is read, and '\b' looks at it. *)
LEMMA LoadColInv == VgaInv /\ LoadCol => VgaInv'
<1> SUFFICES ASSUME VgaInv, LoadCol PROVE VgaInv' OBVIOUS
<1> USE DEF At
<1>1. VgaTypes /\ RangeInv /\ RegistersInv BY DEF VgaInv
<1>2. t \in Terminal /\ call \in Calls BY <1>1 DEF VgaTypes
<1>3. /\ t.row \in Nat /\ t.col \in Nat /\ call.row \in Nat /\ call.col \in Nat
      /\ VGA_WIDTH \in Nat /\ VGA_HEIGHT \in Nat
  BY <1>2, Dimensions DEF Terminal, Calls
<1>4. t' = t /\ call.pc = "load_col" /\ hit' = hit /\ spoiled' = spoiled
  BY DEF LoadCol, Silent
<1>5. call.c \in Glyphs \cup {"BS"} BY <1>1, <1>4 DEF VgaTypes
<1>6. /\ call' \in Calls /\ call'.c = call.c /\ call'.row = call.row /\ call'.col = t.col
      /\ call'.pc = IF call.c # "BS" THEN "emit" ELSE IF t.col > 0 THEN "back" ELSE "pos"
      /\ call'.todo = IF call.c # "BS" THEN {"cell", "col"} ELSE {}
  BY <1>2, <1>3 DEF LoadCol, Calls, PCs
<1>7. VgaTypes' BY <1>1, <1>4, <1>5, <1>6 DEF VgaTypes
<1>8. RangeInv'
  <2>1. t.row < VGA_HEIGHT /\ t.col < VGA_WIDTH BY <1>1, <1>4 DEF RangeInv
  <2>3. CASE call.c # "BS"
    <3>1. call'.pc = "emit" BY <1>6, <2>3
    <3> QED BY <1>1, <1>3, <1>4, <1>6, <2>1, <3>1 DEF RangeInv
  <2>4. CASE call.c = "BS" /\ t.col > 0
    <3>1. call'.pc = "back" BY <1>6, <2>4
    <3> QED BY <1>1, <1>3, <1>4, <1>6, <2>1, <2>4, <3>1 DEF RangeInv
  <2>5. CASE call.c = "BS" /\ ~(t.col > 0)
    <3>1. call'.pc = "pos" BY <1>6, <2>5
    <3> QED BY <1>1, <1>3, <1>4, <1>6, <2>1, <3>1 DEF RangeInv
  <2> QED BY <2>3, <2>4, <2>5
<1>9. RegistersInv' BY <1>1, <1>3, <1>4, <1>6 DEF RegistersInv, RowRead, ColRead, PosRead
<1> QED BY <1>7, <1>8, <1>9 DEF VgaInv

(* The row is read for the cursor: after vga_newline the column too. *)
LEMMA ReadRowInv == VgaInv /\ ReadRow => VgaInv'
<1> SUFFICES ASSUME VgaInv, ReadRow PROVE VgaInv' OBVIOUS
<1> USE DEF At
<1>1. VgaTypes /\ RangeInv /\ RegistersInv BY DEF VgaInv
<1>2. t \in Terminal /\ call \in Calls BY <1>1 DEF VgaTypes
<1>3. t.row \in Nat /\ t.col \in Nat BY <1>2 DEF Terminal
<1>4. t' = t /\ call.pc \in {"row", "reload"} /\ hit' = hit /\ spoiled' = spoiled
  BY DEF ReadRow, Silent
<1>5. /\ call' \in Calls /\ call'.c = call.c /\ call'.row = t.row /\ call'.col = call.col
      /\ call'.pc = IF call.pc = "row" THEN "pos" ELSE "col"
  BY <1>2, <1>3 DEF ReadRow, Calls, PCs
<1>6. VgaTypes' BY <1>1, <1>4, <1>5 DEF VgaTypes
<1>7. RangeInv' BY <1>1, <1>3, <1>4, <1>5 DEF RangeInv
<1>8. RegistersInv' BY <1>1, <1>3, <1>4, <1>5 DEF RegistersInv, RowRead, ColRead, PosRead
<1> QED BY <1>6, <1>7, <1>8 DEF VgaInv

(* A cell and the column are stored in either order; after both, the stage  *)
(* depends on the column.                                                   *)
LEMMA EmitInv == VgaInv /\ Emit => VgaInv'
<1> SUFFICES ASSUME VgaInv, Emit PROVE VgaInv' OBVIOUS
<1> USE DEF At
<1>1. VgaTypes /\ RangeInv /\ RegistersInv BY DEF VgaInv
<1>2. t \in Terminal /\ call \in Calls BY <1>1 DEF VgaTypes
<1>3. /\ t.row \in Nat /\ t.col \in Nat /\ call.row \in Nat /\ call.col \in Nat
      /\ VGA_WIDTH \in Nat /\ VGA_WIDTH > 0 /\ VGA_HEIGHT \in Nat
      /\ t.color \in Colors /\ t.buf \in [Visible \cup Below -> Cells]
      /\ call.todo \in SUBSET {"cell", "col"}
  BY <1>2, Dimensions DEF Terminal, Calls
<1>4. call.pc = "emit" /\ hit' = hit /\ spoiled' = spoiled BY DEF Emit, Silent
<1>5. call.c \in Glyphs /\ call.row < VGA_HEIGHT /\ call.col < VGA_WIDTH
      /\ t.row < VGA_HEIGHT /\ t.col < 2 * VGA_WIDTH
      /\ (t.col < VGA_WIDTH \/ t.col = call.col + 1)
  BY <1>1, <1>4 DEF VgaTypes, RangeInv
<1>6. PICK w \in call.todo :
        /\ t' = IF w = "cell"
                THEN [t EXCEPT !.buf[Position(call.row, call.col)]
                                  = vga_entry(call.c, t.color)]
                ELSE [t EXCEPT !.col = call.col + 1]
        /\ call' = IF call.todo # {w} THEN [call EXCEPT !.todo = @ \ {w}]
                   ELSE [call EXCEPT !.todo = {}, !.col = @ + 1,
                                     !.pc = AfterColumn(call.col + 1)]
  BY DEF Emit
<1>7. /\ t' \in Terminal /\ t'.row = t.row
      /\ t'.col = IF w = "cell" THEN t.col ELSE call.col + 1
  <2>1. CASE w = "cell"
    <3> DEFINE b == [t.buf EXCEPT ![Position(call.row, call.col)]
                                     = vga_entry(call.c, t.color)]
    <3>1. vga_entry(call.c, t.color) \in Cells BY <1>3, <1>5 DEF vga_entry, Cells
    <3>2. b \in [Visible \cup Below -> Cells] BY <1>3, <3>1
    <3>3. t' = [t EXCEPT !.buf = b] BY <1>2, <1>6, <2>1 DEF Terminal
    <3> HIDE DEF b
    <3> QED BY <1>2, <2>1, <3>2, <3>3 DEF Terminal
  <2>2. CASE w # "cell"
    <3>1. call.col + 1 \in Nat BY <1>3
    <3> QED BY <1>2, <1>6, <2>2, <3>1 DEF Terminal
  <2> QED BY <2>1, <2>2
<1>8. CASE call.todo # {w}
  <2>1. /\ call' \in Calls /\ call'.pc = "emit" /\ call'.c = call.c
        /\ call'.row = call.row /\ call'.col = call.col /\ call'.todo = call.todo \ {w}
    BY <1>2, <1>3, <1>4, <1>6, <1>8 DEF Calls
  <2>2. VgaTypes' BY <1>1, <1>4, <1>5, <1>7, <2>1 DEF VgaTypes
  <2>3. RangeInv' BY <1>3, <1>5, <1>7, <2>1 DEF RangeInv
  <2>4. "col" \notin call.todo' /\ ~hit => t'.col = call.col + 1
    BY <1>1, <1>3, <1>4, <1>6, <1>7, <2>1 DEF RegistersInv
  <2>5. RegistersInv' BY <1>1, <1>3, <1>4, <1>7, <2>1, <2>4 DEF RegistersInv, RowRead
  <2> QED BY <2>2, <2>3, <2>5 DEF VgaInv
<1>9. CASE call.todo = {w}
  <2>0. call.col + 1 \in Nat BY <1>3
  <2>1. call' = [call EXCEPT !.todo = {}, !.col = call.col + 1,
                             !.pc = AfterColumn(call.col + 1)]
    BY <1>2, <1>6, <1>9 DEF Calls
  <2>2. AfterColumn(call.col + 1) \in {"newline", "pos"}
        /\ (AfterColumn(call.col + 1) = "pos" => call.col + 1 < VGA_WIDTH)
    BY <1>3 DEF AfterColumn
  <2>3. /\ call' \in Calls /\ call'.pc = AfterColumn(call.col + 1)
        /\ call'.row = call.row /\ call'.col = call.col + 1
    BY <1>2, <2>0, <2>1, <2>2 DEF Calls, PCs
  <2>4. VgaTypes' BY <1>1, <1>4, <1>7, <2>2, <2>3 DEF VgaTypes
  <2>5. RangeInv'
    <3>1. call'.pc = "pos" => t'.col < VGA_WIDTH
      BY <1>3, <1>5, <1>7, <2>2, <2>3
    <3> QED BY <1>3, <1>5, <1>7, <2>2, <2>3, <3>1 DEF RangeInv
  <2>6. ~hit => t'.row = call'.row /\ t'.col = call'.col
    BY <1>1, <1>4, <1>6, <1>7, <1>9, <2>3 DEF RegistersInv, RowRead
  <2>7. RegistersInv' BY <1>4, <2>2, <2>3, <2>6 DEF RegistersInv, RowRead, ColRead
  <2> QED BY <2>4, <2>5, <2>7 DEF VgaInv
<1> QED BY <1>8, <1>9

(* A write to the data port reaches the register selected last. *)
LEMMA WriteDataTerm ==
  ASSUME t \in Terminal, NEW value \in Nat, WriteData(value)
  PROVE  /\ t' \in Terminal /\ t'.row = t.row /\ t'.col = t.col /\ t'.buf = t.buf
         /\ t'.color = t.color /\ t'.index = t.index
         /\ t.index = "lo" => t'.lo = value
         /\ t.index = "hi" => t'.hi = value /\ t'.lo = t.lo
<1>1. t.index \in {"lo", "hi"} BY DEF Terminal
<1>2. CASE t.index = "lo"
  <2>1. t' = [t EXCEPT !.lo = value] BY <1>2 DEF WriteData
  <2> QED BY <1>2, <2>1 DEF Terminal
<1>3. CASE t.index = "hi"
  <2>1. t' = [t EXCEPT !.hi = value] BY <1>3 DEF WriteData
  <2> QED BY <1>3, <2>1 DEF Terminal
<1> QED BY <1>1, <1>2, <1>3

(* The low byte is written. *)
LEMMA PutLowInv == VgaInv /\ PutLow => VgaInv'
<1> SUFFICES ASSUME VgaInv, PutLow PROVE VgaInv' OBVIOUS
<1> USE DEF At
<1>1. VgaTypes /\ RangeInv /\ RegistersInv BY DEF VgaInv
<1>2. t \in Terminal /\ call \in Calls BY <1>1 DEF VgaTypes
<1>3. call.pos \in Nat /\ call.pos % BYTE \in Nat
  BY <1>2, TwoBytes, Dimensions DEF Calls
<1>4. WriteData(call.pos % BYTE) BY DEF PutLow
<1>5. /\ t' \in Terminal /\ t'.row = t.row /\ t'.col = t.col
      /\ t.index = "lo" => t'.lo = call.pos % BYTE
  BY <1>2, <1>3, <1>4, WriteDataTerm
<1>6. /\ call.pc = "low" /\ call' \in Calls /\ call'.pc = "select_high"
      /\ call'.pos = call.pos /\ hit' = hit /\ spoiled' = spoiled
  BY <1>2 DEF PutLow, Goto, Silent, Calls, PCs
<1>7. VgaTypes' BY <1>1, <1>5, <1>6 DEF VgaTypes
<1>8. RangeInv' BY <1>1, <1>5, <1>6 DEF RangeInv
<1>9. RegistersInv' BY <1>1, <1>5, <1>6 DEF RegistersInv, PosRead
<1> QED BY <1>7, <1>8, <1>9 DEF VgaInv

(* The high byte is written, and the call is over. *)
LEMMA PutHighInv == VgaInv /\ PutHigh => VgaInv'
<1> SUFFICES ASSUME VgaInv, PutHigh PROVE VgaInv' OBVIOUS
<1> USE DEF At
<1>1. VgaTypes /\ RangeInv /\ RegistersInv BY DEF VgaInv
<1>2. t \in Terminal /\ call \in Calls BY <1>1 DEF VgaTypes
<1>3. /\ call.pos \in Nat /\ call.pos \div BYTE \in Nat
      /\ (call.pos \div BYTE) * BYTE + (call.pos % BYTE) = call.pos
  BY <1>2, TwoBytes, Dimensions DEF Calls
<1>4. WriteData(call.pos \div BYTE) BY DEF PutHigh
<1>5. /\ t' \in Terminal /\ t'.row = t.row /\ t'.col = t.col
      /\ t.index = "hi" => t'.hi = call.pos \div BYTE /\ t'.lo = t.lo
  BY <1>2, <1>3, <1>4, WriteDataTerm
<1>6. /\ call.pc = "high" /\ call' = Idle /\ hit' = hit /\ spoiled' = spoiled
  BY DEF PutHigh, Silent
<1>7. call' \in Calls /\ call'.pc = "idle" BY <1>6 DEF Idle, Calls, PCs
<1>8. VgaTypes' BY <1>1, <1>5, <1>6, <1>7 DEF VgaTypes
<1>9. RangeInv' BY <1>1, <1>5, <1>6, <1>7 DEF RangeInv
<1>10. ~hit => Cursor(t') = call.pos
  <2> SUFFICES ASSUME ~hit PROVE Cursor(t') = call.pos OBVIOUS
  <2>1. t.index = "hi" /\ t.lo = call.pos % BYTE BY <1>1, <1>6 DEF RegistersInv
  <2> QED BY <1>3, <1>5, <2>1 DEF Cursor
<1>11. ~hit => call.pos = Position(t.row, t.col) BY <1>1, <1>6 DEF RegistersInv, PosRead
<1>12. ~hit => Cursor(t') = Position(t'.row, t'.col) BY <1>5, <1>10, <1>11
<1>13. RegistersInv' BY <1>6, <1>7, <1>12 DEF RegistersInv, Cursor
<1> QED BY <1>8, <1>9, <1>13 DEF VgaInv

(* A diagnostic at any instruction leaves row and column on the screen;     *)
(* what it does to the registers of a call in progress is recorded in hit.  *)
LEMMA IrqDiagnosticInv == VgaInv /\ IrqDiagnostic => VgaInv'
<1> SUFFICES ASSUME VgaInv, IrqDiagnostic PROVE VgaInv' OBVIOUS
<1>1. VgaTypes /\ RangeInv /\ RegistersInv BY DEF VgaInv
<1>2. t \in Terminal BY <1>1 DEF VgaTypes
<1>3. t.row \in Nat /\ VGA_HEIGHT \in Nat /\ VGA_WIDTH \in Nat /\ VGA_WIDTH > 0
  BY <1>2, Dimensions DEF Terminal
<1>4. OnOrBelow(t) BY <1>1, <1>3 DEF RangeInv, At, OnOrBelow
<1>5. t' = vga_puts(t, Message) BY DEF IrqDiagnostic, Message
<1>6. /\ t' \in Terminal /\ t'.row < VGA_HEIGHT /\ t'.col = 0
      /\ Cursor(t') = Position(t'.row, t'.col)
  BY <1>2, <1>4, <1>5, DiagnosticTerm
<1>7. t'.row \in Nat BY <1>6 DEF Terminal
<1>8. call' = call /\ hit' = (call.pc # "idle")
      /\ spoiled' = (spoiled \/ call.pc # "idle")
  BY DEF IrqDiagnostic, At
<1>9. VgaTypes' BY <1>1, <1>6, <1>8 DEF VgaTypes, At
<1>10. RangeInv' BY <1>1, <1>3, <1>6, <1>7, <1>8 DEF RangeInv, At
<1>11. RegistersInv' BY <1>6, <1>8 DEF RegistersInv, At, Cursor
<1> QED BY <1>9, <1>10, <1>11 DEF VgaInv

(* Every step keeps the terminal in range and its registers right. *)
LEMMA VgaNextInv == VgaInv /\ [VgaNext]_vgaVars => VgaInv'
<1> SUFFICES ASSUME VgaInv, [VgaNext]_vgaVars PROVE VgaInv' OBVIOUS
<1>1. CASE UNCHANGED vgaVars
  <2>1. t' = t /\ call' = call /\ hit' = hit /\ spoiled' = spoiled
    BY <1>1 DEF vgaVars
  <2> QED BY <2>1 DEF VgaInv, VgaTypes, RangeInv, RegistersInv, At, RowRead,
                      ColRead, PosRead, Cursor
<1>2. CASE \E color \in Colors : vga_set_color(color) BY <1>2, SetColorInv
<1>3. CASE \E c \in Glyphs \cup Controls : Enter(c) BY <1>3, EnterInv
<1>4. CASE LoadRow \/ LoadCol \/ StepBack \/ Emit \/ TabLoad \/ TabStore
  BY <1>4, LoadRowInv, LoadColInv, StepBackInv, EmitInv, TabLoadInv, TabStoreInv
<1>5. CASE CarriageReturn \/ NewlineCol \/ NewlineLoad \/ NewlineRow
  BY <1>5, CarriageReturnInv, NewlineColInv, NewlineLoadInv, NewlineRowInv
<1>6. CASE Scroll \/ LastRow \/ ReadRow \/ ReadCol
  BY <1>6, ScrollInv, LastRowInv, ReadRowInv, ReadColInv
<1>7. CASE SelectLow \/ PutLow \/ SelectHigh \/ PutHigh
  BY <1>7, SelectLowInv, PutLowInv, SelectHighInv, PutHighInv
<1>8. CASE IrqDiagnostic BY <1>8, IrqDiagnosticInv
<1> QED BY <1>1, <1>2, <1>3, <1>4, <1>5, <1>6, <1>7, <1>8 DEF VgaNext

(* The ranges and registers of every stage, with diagnostics at any         *)
(* instruction of vga_putchar.                                              *)
THEOREM VgaInvariant == VgaSpec => []VgaInv
<1>1. VgaInit => VgaInv BY VgaInitInv
<1>2. VgaInv /\ [VgaNext]_vgaVars => VgaInv' BY VgaNextInv
<1> QED BY <1>1, <1>2, PTL DEF VgaSpec

(* Between calls the terminal is on the screen, and no store goes further   *)
(* than the line below it.                                                  *)
THEOREM VgaTerminalRecovers == VgaSpec => []TerminalRecovers
<1>1. VgaInv => TerminalRecovers
  <2> SUFFICES ASSUME VgaInv PROVE TerminalRecovers OBVIOUS
  <2>1. VgaTypes /\ RangeInv BY DEF VgaInv
  <2>2. t.row \in Nat /\ t.col \in Nat /\ call.row \in Nat /\ call.col \in Nat
    BY <2>1 DEF VgaTypes, Terminal, Calls
  <2>3. VGA_WIDTH \in Nat /\ VGA_WIDTH > 0 /\ VGA_HEIGHT \in Nat BY Dimensions
  <2>4. At("idle") => t.row \in 0 .. VGA_HEIGHT - 1 /\ t.col \in 0 .. VGA_WIDTH - 1
    BY <2>1, <2>2, <2>3 DEF RangeInv, At
  <2>5. \/ t.row < VGA_HEIGHT /\ t.col < 2 * VGA_WIDTH
        \/ t.row <= VGA_HEIGHT /\ t.col < VGA_WIDTH
    BY <2>1, <2>2, <2>3 DEF RangeInv, At
  <2>6. Position(t.row, t.col) \in Visible \cup Below
    BY <2>2, <2>5, PositionBounds
  <2>7. At("emit") => Position(call.row, call.col) \in Visible \cup Below
    BY <2>1, <2>2, PositionBounds DEF RangeInv, At
  <2> QED BY <2>4, <2>6, <2>7 DEF TerminalRecovers
<1> QED BY <1>1, VgaInvariant, PTL

(* The cursor is right after every output that was left alone. *)
THEOREM VgaCursorHeals == VgaSpec => []CursorHeals
<1>1. VgaInv => CursorHeals BY DEF VgaInv, RegistersInv, CursorHeals
<1> QED BY <1>1, VgaInvariant, PTL

-----------------------------------------------------------------------------
(* The printer and the screen. *)
LEMMA BlankTyped ==
  ASSUME NEW color \in Colors
  PROVE  /\ BlankLine(color) \in Lines
         /\ \A j \in 1 .. VGA_WIDTH : BlankLine(color)[j] = vga_entry(" ", color)
<1>1. vga_entry(" ", color) \in Cells BY DEF vga_entry, Cells
<1> QED BY <1>1 DEF BlankLine, Lines

(* One element more at the end, one less at the front. *)
LEMMA AppendFacts ==
  ASSUME NEW S, NEW q \in Seq(S), NEW e \in S
  PROVE  /\ Append(q, e) \in Seq(S) /\ Len(Append(q, e)) = Len(q) + 1
         /\ Len(q) \in Nat
         /\ \A i \in 1 .. Len(q) + 1 :
              Append(q, e)[i] = IF i <= Len(q) THEN q[i] ELSE e
<1>1. Len(q) \in Nat /\ Append(q, e) \in Seq(S) /\ Len(Append(q, e)) = Len(q) + 1
  OBVIOUS
<1>2. ASSUME NEW i \in 1 .. Len(q) + 1
      PROVE  Append(q, e)[i] = IF i <= Len(q) THEN q[i] ELSE e
  <2>1. CASE i <= Len(q) BY <1>1, <2>1
  <2>2. CASE i = Len(q) + 1 BY <1>1, <2>2
  <2> QED BY <1>1, <2>1, <2>2
<1> QED BY <1>1, <1>2

(* ... and one less at the front. *)
LEMMA TailFacts ==
  ASSUME NEW S, NEW q \in Seq(S), Len(q) > 0
  PROVE  /\ Tail(q) \in Seq(S) /\ Len(Tail(q)) = Len(q) - 1
         /\ \A i \in 1 .. Len(q) - 1 : Tail(q)[i] = q[i + 1]
<1>1. q # << >> OBVIOUS
<1> QED BY <1>1

(* A line feed on paper is a newline on the screen: below the last line     *)
(* used, or with everything one line up.                                    *)
LEMMA FeedMatches ==
  ASSUME NEW s \in Terminal, NEW p \in Papers, SamePicture(s, p), s.row < VGA_HEIGHT
  PROVE  LET blank == BlankLine(IF Len(p.lines) < VGA_HEIGHT THEN p.ground ELSE s.color)
         IN  /\ Feed(p, blank) \in Papers
             /\ Match(vga_newline(s), Feed(p, blank))
<1> DEFINE ink == IF Len(p.lines) < VGA_HEIGHT THEN p.ground ELSE s.color
           blank == BlankLine(ink)
           lines == Append(p.lines, blank)
           f == Feed(p, blank)
           n == vga_newline(s)
           L == Len(p.lines)
           H == VGA_HEIGHT
<1>1. /\ H \in Nat /\ H > 0 /\ VGA_WIDTH \in Nat
      /\ s.row \in Nat /\ s.color \in Colors
      /\ p.lines \in Seq(Lines) /\ p.ground \in Colors
  BY Dimensions DEF Terminal, Papers
<1>2. L \in Nat /\ L \in 1 .. H /\ s.row + 1 = L
  <2>1. L \in 1 .. H /\ s.row + 1 = L BY DEF SamePicture
  <2> HIDE DEF L
  <2> QED BY <1>1, <2>1
<1>3. ink \in Colors BY <1>1
<1>4. blank \in Lines /\ \A j \in 1 .. VGA_WIDTH : blank[j] = vga_entry(" ", ink)
  BY <1>3, BlankTyped
<1>5. /\ n.col = 0
      /\ n.row = IF s.row + 1 >= H THEN H - 1 ELSE s.row + 1
      /\ n.buf = IF s.row + 1 >= H THEN Scrolled(s) ELSE s.buf
  BY <1>1, NewlineTerm
<1> HIDE DEF ink, blank, n
<1>6. /\ lines \in Seq(Lines) /\ Len(lines) = L + 1
      /\ \A i \in 1 .. L + 1 : lines[i] = IF i <= L THEN p.lines[i] ELSE blank
  <2> DEFINE q == p.lines
  <2>1. q \in Seq(Lines) BY <1>1
  <2> HIDE DEF q
  <2>2. /\ Append(q, blank) \in Seq(Lines) /\ Len(Append(q, blank)) = Len(q) + 1
        /\ \A i \in 1 .. Len(q) + 1 :
             Append(q, blank)[i] = IF i <= Len(q) THEN q[i] ELSE blank
    BY <1>4, <2>1, AppendFacts
  <2> QED BY <2>2 DEF q
<1>7. f = [p EXCEPT !.col = 0, !.lines = IF Len(lines) > H THEN Tail(lines) ELSE lines]
  BY DEF Feed
<1> HIDE DEF lines
<1>8. ASSUME NEW i \in 1 .. H, NEW j \in 1 .. VGA_WIDTH
      PROVE  s.buf[Position(i - 1, j - 1)] =
               IF i <= L THEN p.lines[i][j] ELSE vga_entry(" ", p.ground)
  BY DEF SamePicture
<1> HIDE DEF L, H
<1>9. CASE L < H
  <2>1. f.lines = lines /\ f.col = 0 /\ f.ground = p.ground /\ f \in Papers
    <3>0. ~(Len(lines) > H) BY <1>1, <1>2, <1>6, <1>9
    <3>1. f = [p EXCEPT !.col = 0, !.lines = lines] BY <1>7, <3>0
    <3> HIDE DEF f
    <3> QED BY <1>6, <3>1 DEF Papers
  <2>2. n.row = L /\ n.buf = s.buf BY <1>1, <1>2, <1>5, <1>9
  <2>3. ink = p.ground BY <1>9 DEF ink, L, H
  <2>4. ASSUME NEW i \in 1 .. H, NEW j \in 1 .. VGA_WIDTH
        PROVE  n.buf[Position(i - 1, j - 1)] =
                 IF i <= L + 1 THEN lines[i][j] ELSE vga_entry(" ", p.ground)
    <3>0. i \in Nat /\ L \in Nat /\ H \in Nat BY <1>1, <1>2
    <3>1. CASE i <= L
      <4>1. i \in 1 .. L + 1 /\ i <= L + 1 BY <3>0, <3>1
      <4>2. lines[i] = p.lines[i] BY <1>6, <3>1, <4>1
      <4> QED BY <1>8, <2>2, <3>1, <4>1, <4>2
    <3>2. CASE i = L + 1
      <4>1. i \in 1 .. L + 1 /\ ~(i <= L) BY <3>0, <3>2
      <4>2. lines[i] = blank BY <1>6, <4>1
      <4>3. lines[i][j] = vga_entry(" ", p.ground) BY <1>4, <2>3, <4>2
      <4>4. i <= L + 1 BY <3>0, <3>2
      <4> QED BY <1>8, <2>2, <4>1, <4>3, <4>4
    <3>3. CASE i > L + 1
      <4>1. ~(i <= L) /\ ~(i <= L + 1) BY <3>0, <3>3
      <4> QED BY <1>8, <2>2, <4>1
    <3>4. i <= L \/ i = L + 1 \/ i > L + 1 BY <3>0
    <3> QED BY <3>1, <3>2, <3>3, <3>4
  <2> HIDE DEF f
  <2>5. SamePicture(n, f)
    <3>1. Len(f.lines) = L + 1 /\ L + 1 \in 1 .. H /\ n.row + 1 = L + 1
      BY <1>1, <1>2, <1>6, <1>9, <2>1, <2>2
    <3>2. ASSUME NEW i \in 1 .. VGA_HEIGHT, NEW j \in 1 .. VGA_WIDTH
          PROVE  n.buf[Position(i - 1, j - 1)] =
                   IF i <= Len(f.lines) THEN f.lines[i][j] ELSE vga_entry(" ", f.ground)
      <4>1. n.buf[Position(i - 1, j - 1)] =
              IF i <= L + 1 THEN lines[i][j] ELSE vga_entry(" ", p.ground)
        BY <2>4 DEF H
      <4>2. Len(f.lines) = L + 1 /\ f.lines = lines /\ f.ground = p.ground
        BY <2>1, <3>1
      <4> QED BY <4>1, <4>2
    <3>3. Len(f.lines) \in 1 .. VGA_HEIGHT /\ n.row + 1 = Len(f.lines) BY <3>1 DEF H
    <3> QED BY <3>2, <3>3 DEF SamePicture
  <2> QED BY <1>5, <2>1, <2>5 DEF Match, f, n, blank, ink
<1>10. CASE L = H
  <2> DEFINE rest == Tail(lines)
  <2>1. /\ rest \in Seq(Lines) /\ Len(rest) = H
        /\ \A i \in 1 .. H : rest[i] = IF i < H THEN p.lines[i + 1] ELSE blank
    <3>1. lines # << >> /\ Len(lines) = H + 1 BY <1>1, <1>6, <1>10
    <3>2. Len(lines) > 0 /\ Len(lines) - 1 = H BY <1>1, <3>1
    <3>3. /\ rest \in Seq(Lines) /\ Len(rest) = H
          /\ \A i \in 1 .. H : rest[i] = lines[i + 1]
      BY <1>6, <3>2, TailFacts
    <3>4. ASSUME NEW i \in 1 .. H
          PROVE  rest[i] = IF i < H THEN p.lines[i + 1] ELSE blank
      <4>1. /\ i + 1 \in 1 .. L + 1 /\ (i < H => i + 1 <= L)
            /\ (~(i < H) => ~(i + 1 <= L))
        BY <1>1, <1>10
      <4> QED BY <1>6, <3>3, <4>1
    <3> QED BY <3>3, <3>4
  <2> HIDE DEF rest
  <2>2. f.lines = rest /\ f.col = 0 /\ f.ground = p.ground /\ f \in Papers
    <3>0. Len(lines) > H BY <1>1, <1>6, <1>10
    <3>1. f = [p EXCEPT !.col = 0, !.lines = rest] BY <1>7, <3>0 DEF rest
    <3> HIDE DEF f
    <3> QED BY <2>1, <3>1 DEF Papers
  <2>3. n.row = H - 1 /\ n.buf = Scrolled(s) BY <1>1, <1>2, <1>5, <1>10
  <2>4. ink = s.color BY <1>10, <1>1 DEF ink, L, H
  <2>5. ASSUME NEW i \in 1 .. H, NEW j \in 1 .. VGA_WIDTH
        PROVE  n.buf[Position(i - 1, j - 1)] = rest[i][j]
    <3> DEFINE at == Position(i - 1, j - 1)
    <3>0. i - 1 \in Nat /\ j - 1 \in Nat /\ i - 1 < H /\ j - 1 < VGA_WIDTH
      BY <1>1
    <3>1. /\ at \in Visible /\ Position(i - 1 + 1, j - 1) = at + VGA_WIDTH
          /\ i - 1 < H - 1 => at < (H - 1) * VGA_WIDTH
          /\ i - 1 >= H - 1 => at >= (H - 1) * VGA_WIDTH
      BY <3>0, PositionBounds DEF H
    <3>2. CASE i < H
      <4>1. i + 1 \in 1 .. H /\ i - 1 + 1 = i + 1 - 1 /\ i - 1 < H - 1 BY <1>1, <3>2
      <4>2. at < (H - 1) * VGA_WIDTH BY <3>1, <4>1
      <4>3. n.buf[at] = s.buf[at + VGA_WIDTH]
        BY <2>3, <3>1, <4>2 DEF Scrolled, H
      <4>4. at + VGA_WIDTH = Position(i + 1 - 1, j - 1) BY <3>1, <4>1
      <4>5. s.buf[Position(i + 1 - 1, j - 1)] = p.lines[i + 1][j]
        BY <1>8, <1>10, <4>1, <1>1
      <4> QED BY <2>1, <3>2, <4>3, <4>4, <4>5
    <3>3. CASE i = H
      <4>0. i - 1 >= H - 1 BY <1>1, <3>3
      <4>1. at >= (H - 1) * VGA_WIDTH BY <3>1, <4>0
      <4>2. at \in Int /\ (H - 1) * VGA_WIDTH \in Int
        <5>1. at \in Nat BY <3>0, PositionBounds
        <5>2. (H - 1) * VGA_WIDTH \in Int BY <1>1, NextLine
        <5> QED BY <5>1, <5>2
      <4>3. ~(at < (H - 1) * VGA_WIDTH)
        <5> DEFINE top == (H - 1) * VGA_WIDTH
        <5> HIDE DEF top, at
        <5> QED BY <4>1, <4>2 DEF top
      <4>4. n.buf[at] = vga_entry(" ", s.color) BY <2>3, <3>1, <4>3 DEF Scrolled, H
      <4>5. rest[i] = blank BY <1>1, <2>1, <3>3
      <4> QED BY <1>4, <2>4, <4>4, <4>5
    <3> QED BY <1>1, <3>2, <3>3
  <2> HIDE DEF f
  <2>6. SamePicture(n, f)
    <3>1. Len(f.lines) = H /\ H \in 1 .. H /\ n.row + 1 = H BY <1>1, <2>1, <2>2, <2>3
    <3>2. \A i \in 1 .. H : i <= H BY <1>1
    <3>3. ASSUME NEW i \in 1 .. VGA_HEIGHT, NEW j \in 1 .. VGA_WIDTH
          PROVE  n.buf[Position(i - 1, j - 1)] =
                   IF i <= Len(f.lines) THEN f.lines[i][j] ELSE vga_entry(" ", f.ground)
      BY <2>2, <2>5, <3>1, <3>2 DEF H
    <3>4. Len(f.lines) \in 1 .. VGA_HEIGHT /\ n.row + 1 = Len(f.lines) BY <3>1 DEF H
    <3> QED BY <3>3, <3>4 DEF SamePicture
  <2> QED BY <1>5, <2>2, <2>6 DEF Match, f, n, blank, ink
<1> QED BY <1>1, <1>2, <1>9, <1>10

(* The character struck on paper. *)
Strike(p, c, color) ==
  [p EXCEPT !.lines[Len(p.lines)][p.col + 1] = vga_entry(c, color), !.col = @ + 1]

(* A sequence with one element replaced. *)
LEMMA ReplaceFacts ==
  ASSUME NEW S, NEW q \in Seq(S), NEW e \in S, NEW n \in 1 .. Len(q)
  PROVE  /\ [q EXCEPT ![n] = e] \in Seq(S) /\ Len([q EXCEPT ![n] = e]) = Len(q)
         /\ \A i \in 1 .. Len(q) : [q EXCEPT ![n] = e][i] = IF i = n THEN e ELSE q[i]
<1>1. q \in [1 .. Len(q) -> S] OBVIOUS
<1>2. [q EXCEPT ![n] = e] \in [1 .. Len(q) -> S] BY <1>1
<1> QED BY <1>1, <1>2

(* The character goes to the place on screen that it has on paper. *)
LEMMA StruckMatches ==
  ASSUME NEW s \in Terminal, NEW p \in Papers, Match(s, p),
         s.row < VGA_HEIGHT, s.col < VGA_WIDTH, NEW c \in Glyphs
  PROVE  LET k == Strike(p, c, s.color)
         IN  /\ k \in Papers /\ SamePicture(Struck(s, c), k)
             /\ k.col = p.col + 1 /\ Len(k.lines) = Len(p.lines) /\ k.ground = p.ground
<1> DEFINE e == vga_entry(c, s.color)
           L == Len(p.lines)
           q == p.lines
           line == [q[L] EXCEPT ![p.col + 1] = e]
           ls == [q EXCEPT ![L] = line]
           k == Strike(p, c, s.color)
           m == Struck(s, c)
<1>1. /\ s.row \in Nat /\ s.col \in Nat /\ s.color \in Colors
      /\ s.buf \in [Visible \cup Below -> Cells]
      /\ q \in Seq(Lines) /\ p.col \in Nat /\ p.ground \in Colors
      /\ VGA_WIDTH \in Nat /\ VGA_HEIGHT \in Nat
  BY Dimensions DEF Terminal, Papers
<1>2. L \in 1 .. VGA_HEIGHT /\ s.row + 1 = L /\ s.col = p.col
  BY DEF Match, SamePicture
<1>3. ASSUME NEW i \in 1 .. VGA_HEIGHT, NEW j \in 1 .. VGA_WIDTH
      PROVE  s.buf[Position(i - 1, j - 1)] =
               IF i <= L THEN q[i][j] ELSE vga_entry(" ", p.ground)
  BY DEF Match, SamePicture
<1>4. k = [p EXCEPT !.lines = ls, !.col = p.col + 1]
  BY DEF Strike, Papers
<1>5. /\ m.row = s.row /\ m.buf = [s.buf EXCEPT ![Position(s.row, s.col)] = e]
  BY StruckTerm
<1>6. e \in Cells BY <1>1 DEF vga_entry, Cells
<1>7. L \in 1 .. Len(q) /\ L = Len(q) BY <1>1, <1>2
<1> HIDE DEF e, L, q, k, m
<1>8. q[L] \in Lines BY <1>1, <1>7
<1>9. p.col + 1 \in 1 .. VGA_WIDTH BY <1>1, <1>2
<1>10. /\ line \in Lines
       /\ \A j \in 1 .. VGA_WIDTH : line[j] = IF j = p.col + 1 THEN e ELSE q[L][j]
  BY <1>6, <1>8, <1>9 DEF Lines
<1> HIDE DEF line
<1>11. /\ ls \in Seq(Lines) /\ Len(ls) = L
       /\ \A i \in 1 .. L : ls[i] = IF i = L THEN line ELSE q[i]
  BY <1>1, <1>7, <1>10, ReplaceFacts
<1> HIDE DEF ls
<1>12. k \in Papers /\ k.lines = ls /\ k.col = p.col + 1 /\ k.ground = p.ground
  <2>1. p.col + 1 \in Nat BY <1>1
  <2> QED BY <1>4, <1>11, <2>1 DEF Papers
<1>13. ASSUME NEW i \in 1 .. VGA_HEIGHT, NEW j \in 1 .. VGA_WIDTH
       PROVE  m.buf[Position(i - 1, j - 1)] =
                IF i <= Len(k.lines) THEN k.lines[i][j] ELSE vga_entry(" ", k.ground)
  <2> DEFINE at == Position(i - 1, j - 1)
             here == Position(s.row, s.col)
  <2>1. /\ i - 1 \in Nat /\ j - 1 \in 0 .. VGA_WIDTH - 1 /\ i - 1 < VGA_HEIGHT
        /\ s.col \in 0 .. VGA_WIDTH - 1 /\ L \in Nat /\ i \in Nat /\ j \in Nat
    BY <1>1, <1>2
  <2>2. at \in Visible \cup Below BY <1>1, <2>1, PositionBounds
  <2>3. at = here <=> (i = L /\ j = p.col + 1)
    <3>1. ASSUME at = here PROVE i = L /\ j = p.col + 1
      <4>1. (i - 1) * VGA_WIDTH + (j - 1) = s.row * VGA_WIDTH + s.col
        BY <3>1 DEF Position
      <4>2. i - 1 = s.row /\ j - 1 = s.col
        <5> DEFINE r == i - 1
                   x == j - 1
                   w == VGA_WIDTH
        <5>1. /\ r \in Nat /\ s.row \in Nat /\ w \in Nat
              /\ x \in 0 .. w - 1 /\ s.col \in 0 .. w - 1
              /\ r * w + x = s.row * w + s.col
          BY <1>1, <2>1, <4>1
        <5> HIDE DEF r, x, w
        <5>2. r = s.row /\ x = s.col BY <5>1, PositionInjective
        <5> QED BY <5>2 DEF r, x
      <4> QED BY <1>1, <1>2, <2>1, <4>2
    <3>2. ASSUME i = L, j = p.col + 1 PROVE at = here
      <4>1. i - 1 = s.row /\ j - 1 = s.col BY <1>1, <1>2, <2>1, <3>2
      <4> QED BY <4>1
    <3> QED BY <3>1, <3>2
  <2>4. m.buf[at] = IF at = here THEN e ELSE s.buf[at] BY <1>1, <1>5, <2>2
  <2>5. Len(k.lines) = L /\ k.lines = ls /\ k.ground = p.ground BY <1>11, <1>12
  <2> HIDE DEF at, here
  <2>6. CASE i = L
    <3>1. i <= L /\ ls[i] = line BY <1>7, <1>11, <2>1, <2>6
    <3>2. line[j] = IF at = here THEN e ELSE q[i][j] BY <1>10, <2>3, <2>6
    <3>3. s.buf[at] = q[i][j] BY <1>3, <3>1 DEF at
    <3> QED BY <2>4, <2>5, <3>1, <3>2, <3>3 DEF at
  <2>7. CASE i # L
    <3>1. m.buf[at] = s.buf[at] BY <2>3, <2>4, <2>7
    <3>2. i <= L => ls[i] = q[i]
      <4>1. i <= L => i \in 1 .. L BY <2>1
      <4> QED BY <1>11, <2>7, <4>1
    <3> QED BY <1>3, <2>5, <3>1, <3>2 DEF at
  <2> QED BY <2>6, <2>7
<1>14. Len(k.lines) \in 1 .. VGA_HEIGHT /\ m.row + 1 = Len(k.lines)
  BY <1>2, <1>5, <1>11, <1>12
<1>15. SamePicture(m, k) BY <1>13, <1>14 DEF SamePicture
<1>16. Len(k.lines) = Len(p.lines) BY <1>11, <1>12 DEF L
<1> QED BY <1>12, <1>15, <1>16 DEF k, m

(* The picture does not depend on the columns. *)
LEMMA PictureKept ==
  ASSUME NEW s, NEW p, NEW s2, NEW p2, SamePicture(s, p),
         s2.row = s.row, s2.buf = s.buf, p2.lines = p.lines, p2.ground = p.ground
  PROVE  SamePicture(s2, p2)
<1>1. ASSUME NEW i \in 1 .. VGA_HEIGHT, NEW j \in 1 .. VGA_WIDTH
      PROVE  s2.buf[Position(i - 1, j - 1)] =
               IF i <= Len(p2.lines) THEN p2.lines[i][j] ELSE vga_entry(" ", p2.ground)
  <2>1. s.buf[Position(i - 1, j - 1)] =
          IF i <= Len(p.lines) THEN p.lines[i][j] ELSE vga_entry(" ", p.ground)
    BY DEF SamePicture
  <2> QED BY <2>1
<1>2. Len(p2.lines) \in 1 .. VGA_HEIGHT /\ s2.row + 1 = Len(p2.lines)
  BY DEF SamePicture
<1> QED BY <1>1, <1>2 DEF SamePicture

(* What the printer does, character by character. *)
LEMMA TypeCases ==
  ASSUME NEW p \in Papers, NEW c \in Glyphs \cup Controls, NEW color
  PROVE  LET blank == BlankLine(IF Len(p.lines) < VGA_HEIGHT THEN p.ground ELSE color)
             f == TypeOn(p, c, color)
         IN  /\ c = "NL" => f = Feed(p, blank)
             /\ c = "CR" => f = [p EXCEPT !.col = 0]
             /\ c = "BS" => f = [p EXCEPT !.col = IF p.col = 0 THEN 0 ELSE p.col - 1]
             /\ c = "HT" => f = IF NextTab(p.col) >= VGA_WIDTH THEN Feed(p, blank)
                                ELSE [p EXCEPT !.col = NextTab(p.col)]
             /\ c \in Glyphs => f = IF p.col + 1 = VGA_WIDTH
                                    THEN Feed(Strike(p, c, color), blank)
                                    ELSE Strike(p, c, color)
<1> DEFINE blank == BlankLine(IF Len(p.lines) < VGA_HEIGHT THEN p.ground ELSE color)
           f == TypeOn(p, c, color)
<1>1. c \in Glyphs => c \notin Controls BY VgaAssumption
<1>2. c = "NL" => f = Feed(p, blank) BY DEF TypeOn
<1>3. c = "CR" => f = [p EXCEPT !.col = 0] BY DEF TypeOn
<1>4. c = "BS" => f = [p EXCEPT !.col = IF p.col = 0 THEN 0 ELSE p.col - 1]
  BY DEF TypeOn
<1>5. c = "HT" => f = IF NextTab(p.col) >= VGA_WIDTH THEN Feed(p, blank)
                      ELSE [p EXCEPT !.col = NextTab(@)]
  BY DEF TypeOn
<1>6. [p EXCEPT !.col = NextTab(@)] = [p EXCEPT !.col = NextTab(p.col)]
  BY DEF Papers
<1>7. c \in Glyphs => f = IF p.col + 1 = VGA_WIDTH
                          THEN Feed(Strike(p, c, color), blank)
                          ELSE Strike(p, c, color)
  <2> SUFFICES ASSUME c \in Glyphs
               PROVE  f = IF p.col + 1 = VGA_WIDTH
                          THEN Feed(Strike(p, c, color), blank)
                          ELSE Strike(p, c, color)
    OBVIOUS
  <2>1. c # "NL" /\ c # "CR" /\ c # "HT" /\ c # "BS" BY <1>1 DEF Controls
  <2> QED BY <2>1 DEF TypeOn, Strike
<1> HIDE DEF blank, f
<1> QED BY <1>2, <1>3, <1>4, <1>5, <1>6, <1>7 DEF blank, f

(* One character on the screen and one on paper: wrap, scroll, tabs and     *)
(* backspace at the line ends included.                                     *)
LEMMA PutMatches ==
  ASSUME NEW s \in Terminal, NEW p \in Papers, Match(s, p),
         s.row < VGA_HEIGHT, s.col < VGA_WIDTH, NEW c \in Glyphs \cup Controls
  PROVE  LET m == Put(s, c)
             f == TypeOn(p, c, s.color)
         IN  /\ m \in Terminal /\ m.row < VGA_HEIGHT /\ m.col < VGA_WIDTH
             /\ m.color = s.color
             /\ f \in Papers /\ Match(m, f)
<1> DEFINE blank == BlankLine(IF Len(p.lines) < VGA_HEIGHT THEN p.ground ELSE s.color)
           m == Put(s, c)
           f == TypeOn(p, c, s.color)
<1>1. /\ s.row \in Nat /\ s.col \in Nat /\ p.col \in Nat /\ s.row <= VGA_HEIGHT
      /\ VGA_WIDTH \in Nat /\ VGA_WIDTH > 0 /\ VGA_HEIGHT \in Nat
  BY Dimensions DEF Terminal, Papers
<1>2. SamePicture(s, p) /\ s.col = p.col BY DEF Match
<1>3. CASE c = "NL"
  <2>0. m = vga_newline(s) BY <1>3, PutCases
  <2>1. m = vga_newline(s) /\ f = Feed(p, blank) BY <1>3, <2>0, TypeCases
  <2>2. Feed(p, blank) \in Papers /\ Match(vga_newline(s), Feed(p, blank))
    BY <1>2, FeedMatches
  <2>3. /\ vga_newline(s) \in Terminal /\ vga_newline(s).row < VGA_HEIGHT
        /\ vga_newline(s).col = 0 /\ vga_newline(s).color = s.color
    BY <1>1, NewlineTerm
  <2> HIDE DEF m, f, blank
  <2>4. m \in Terminal /\ m.row < VGA_HEIGHT /\ m.col < VGA_WIDTH /\ m.color = s.color
    BY <1>1, <2>1, <2>3
  <2>5. f \in Papers /\ Match(m, f) BY <2>1, <2>2
  <2> QED BY <2>4, <2>5 DEF m, f
<1>4. ASSUME NEW col \in Nat, col < VGA_WIDTH,
             m = [s EXCEPT !.col = col], f = [p EXCEPT !.col = col]
      PROVE  /\ m \in Terminal /\ m.row < VGA_HEIGHT /\ m.col < VGA_WIDTH
             /\ m.color = s.color /\ f \in Papers /\ Match(m, f)
  <2> HIDE DEF m, f
  <2>1. m \in Terminal /\ m.row = s.row /\ m.col = col /\ m.buf = s.buf
        /\ m.color = s.color
    BY <1>4 DEF Terminal
  <2>2. f \in Papers /\ f.col = col /\ f.lines = p.lines /\ f.ground = p.ground
    BY <1>4 DEF Papers
  <2>3. SamePicture(m, f) BY <1>2, <2>1, <2>2, PictureKept
  <2>4. Match(m, f) BY <2>1, <2>2, <2>3 DEF Match
  <2> QED BY <1>4, <2>1, <2>2, <2>4
<1>5. CASE c = "CR"
  <2>0. m = [s EXCEPT !.col = 0] BY <1>5, PutCases
  <2>1. m = [s EXCEPT !.col = 0] /\ f = [p EXCEPT !.col = 0]
    BY <1>5, <2>0, TypeCases
  <2>2. 0 \in Nat /\ 0 < VGA_WIDTH BY <1>1
  <2> HIDE DEF m, f
  <2> QED BY <1>4, <2>1, <2>2 DEF m, f
<1>6. CASE c = "BS"
  <2> DEFINE col == IF s.col > 0 THEN s.col - 1 ELSE s.col
  <2>1. m = [s EXCEPT !.col = col] BY <1>6, PutCases
  <2>2. f = [p EXCEPT !.col = IF p.col = 0 THEN 0 ELSE p.col - 1]
    BY <1>6, TypeCases
  <2>3. col = IF p.col = 0 THEN 0 ELSE p.col - 1 BY <1>1, <1>2
  <2>4. col \in Nat /\ col < VGA_WIDTH BY <1>1
  <2> HIDE DEF m, f, col
  <2>5. f = [p EXCEPT !.col = col] BY <2>2, <2>3
  <2> QED BY <1>4, <2>1, <2>4, <2>5 DEF m, f
<1>7. CASE c = "HT"
  <2> DEFINE n == [s EXCEPT !.col = NextTab(s.col)]
             tab == NextTab(s.col)
  <2>0. tab \in Nat BY <1>1, TabBounds, Dimensions
  <2>1. m = WrapLine(n) BY <1>7, PutCases
  <2>2. f = IF tab >= VGA_WIDTH THEN Feed(p, blank) ELSE [p EXCEPT !.col = tab]
    BY <1>2, <1>7, TypeCases
  <2>3. n = [s EXCEPT !.col = tab] OBVIOUS
  <2> HIDE DEF m, f, n, tab, blank
  <2>4. n \in Terminal /\ n.row = s.row /\ n.col = tab /\ n.buf = s.buf
        /\ n.color = s.color
    BY <2>0, <2>3 DEF Terminal
  <2>5. CASE tab >= VGA_WIDTH
    <3>1. m = vga_newline(n) BY <2>1, <2>4, <2>5 DEF WrapLine
    <3>2. SamePicture(n, p) BY <1>2, <2>4, PictureKept
    <3>3. Feed(p, blank) \in Papers /\ Match(vga_newline(n), Feed(p, blank))
      <4>1. n.row < VGA_HEIGHT BY <2>4
      <4>2. blank = BlankLine(IF Len(p.lines) < VGA_HEIGHT THEN p.ground ELSE n.color)
        BY <2>4 DEF blank
      <4> QED BY <2>4, <3>2, <4>1, <4>2, FeedMatches
    <3>4. /\ vga_newline(n) \in Terminal /\ vga_newline(n).row < VGA_HEIGHT
          /\ vga_newline(n).col = 0 /\ vga_newline(n).color = n.color
      BY <1>1, <2>4, NewlineTerm
    <3>5. f = Feed(p, blank) BY <2>2, <2>5
    <3>6. m \in Terminal /\ m.row < VGA_HEIGHT /\ m.col < VGA_WIDTH /\ m.color = s.color
      BY <1>1, <2>4, <3>1, <3>4
    <3>7. f \in Papers /\ Match(m, f) BY <3>1, <3>3, <3>5
    <3> QED BY <3>6, <3>7 DEF m, f
  <2>6. CASE ~(tab >= VGA_WIDTH)
    <3>1. m = n BY <2>1, <2>4, <2>6 DEF WrapLine
    <3>2. f = [p EXCEPT !.col = tab] BY <2>2, <2>6
    <3>3. tab < VGA_WIDTH BY <1>1, <2>0, <2>6
    <3>4. m = [s EXCEPT !.col = tab] BY <2>3, <3>1
    <3> QED BY <1>4, <2>0, <3>2, <3>3, <3>4 DEF m, f
  <2> QED BY <2>5, <2>6
<1>8. CASE c \in Glyphs
  <2> DEFINE n == Struck(s, c)
             k == Strike(p, c, s.color)
  <2>1. m = WrapLine(n) BY <1>8, PutCases
  <2>2. f = IF p.col + 1 = VGA_WIDTH THEN Feed(k, blank) ELSE k BY <1>8, TypeCases
  <2>3. n \in Terminal /\ n.row = s.row /\ n.col = s.col + 1 /\ n.color = s.color
    BY <1>8, StruckTerm
  <2>4. /\ k \in Papers /\ SamePicture(n, k) /\ k.col = p.col + 1
        /\ Len(k.lines) = Len(p.lines) /\ k.ground = p.ground
    BY <1>8, StruckMatches
  <2>5. blank = BlankLine(IF Len(k.lines) < VGA_HEIGHT THEN k.ground ELSE n.color)
    <3> HIDE DEF n, k
    <3> QED BY <2>3, <2>4
  <2> HIDE DEF m, f, n, k, blank
  <2>6. CASE p.col + 1 = VGA_WIDTH
    <3>1. m = vga_newline(n) /\ f = Feed(k, blank)
      BY <1>1, <1>2, <2>1, <2>2, <2>3, <2>6 DEF WrapLine
    <3>2. Feed(k, blank) \in Papers /\ Match(vga_newline(n), Feed(k, blank))
      <4>1. n.row < VGA_HEIGHT BY <2>3
      <4> QED BY <2>3, <2>4, <2>5, <4>1, FeedMatches
    <3>3. /\ vga_newline(n) \in Terminal /\ vga_newline(n).row < VGA_HEIGHT
          /\ vga_newline(n).col = 0 /\ vga_newline(n).color = n.color
      BY <1>1, <2>3, NewlineTerm
    <3>4. m \in Terminal /\ m.row < VGA_HEIGHT /\ m.col < VGA_WIDTH /\ m.color = s.color
      BY <1>1, <2>3, <3>1, <3>3
    <3>5. f \in Papers /\ Match(m, f) BY <3>1, <3>2
    <3> QED BY <3>4, <3>5 DEF m, f
  <2>7. CASE p.col + 1 # VGA_WIDTH
    <3>1. ~(n.col >= VGA_WIDTH) /\ s.col + 1 < VGA_WIDTH BY <1>1, <1>2, <2>3, <2>7
    <3>2. m = n /\ f = k BY <2>1, <2>2, <2>7, <3>1 DEF WrapLine
    <3>3. Match(m, f) BY <1>2, <2>3, <2>4, <3>2 DEF Match
    <3>4. m \in Terminal /\ m.row < VGA_HEIGHT /\ m.col < VGA_WIDTH /\ m.color = s.color
      BY <2>3, <3>1, <3>2
    <3> QED BY <2>4, <3>2, <3>3, <3>4 DEF m, f
  <2> QED BY <2>6, <2>7
<1> QED BY <1>3, <1>5, <1>6, <1>7, <1>8 DEF Controls

(* The papers of a text exist, in the same way.                             *)
LEMMA TypeStates ==
  ASSUME NEW p, NEW text, NEW color, Len(text) \in Nat
  PROVE  \E g : /\ g[0] = p
                /\ \A n \in 1 .. Len(text) : g[n] = TypeOn(g[n - 1], text[n], color)
                /\ TypeText(p, text, color) = g[Len(text)]
<1> DEFINE R == OpToRel(<, Nat)
           Run(g, m) == g = [n \in 0 .. m |->
                          IF n = 0 THEN p ELSE TypeOn(g[n - 1], text[n], color)]
           T == {m \in Nat : ~ \E g : Run(g, m)}
<1>1. T = {}
  <2> SUFFICES ASSUME T # {} PROVE FALSE OBVIOUS
  <2>1. PICK m \in T : \A y \in T : ~(<<y, m>> \in R)
    <3>1. IsWellFoundedOn(R, Nat) BY NatLessThanWellFounded
    <3>2. T \subseteq Nat OBVIOUS
    <3> HIDE DEF R, T
    <3> QED BY <3>1, <3>2, WFMin
  <2>2. m \in Nat /\ ~ \E g : Run(g, m) OBVIOUS
  <2>3. m # 0
    <3> DEFINE g0 == [n \in 0 .. 0 |-> p]
    <3>1. g0 = [n \in 0 .. 0 |-> IF n = 0 THEN p ELSE TypeOn(g0[n - 1], text[n], color)]
      OBVIOUS
    <3>2. Run(g0, 0) BY <3>1
    <3> QED BY <2>2, <3>2
  <2>4. m - 1 \in Nat /\ <<m - 1, m>> \in R BY <2>2, <2>3 DEF OpToRel
  <2>5. m - 1 \notin T BY <2>1, <2>4
  <2>6. PICK g : Run(g, m - 1) BY <2>4, <2>5
  <2> DEFINE h == [n \in 0 .. m |-> IF n <= m - 1 THEN g[n]
                                    ELSE TypeOn(g[m - 1], text[m], color)]
  <2>7. ASSUME NEW n \in 0 .. m
        PROVE  h[n] = IF n = 0 THEN p ELSE TypeOn(h[n - 1], text[n], color)
    <3>1. CASE n = 0 BY <2>2, <2>3, <2>6, <3>1
    <3>2. CASE n # 0 /\ n <= m - 1
      <4>1. n - 1 \in 0 .. m /\ n - 1 <= m - 1 /\ n \in 0 .. m - 1 BY <2>2, <3>2
      <4>2. h[n] = g[n] /\ h[n - 1] = g[n - 1] BY <3>2, <4>1
      <4>3. g[n] = TypeOn(g[n - 1], text[n], color) BY <2>6, <3>2, <4>1
      <4> QED BY <3>2, <4>2, <4>3
    <3>3. CASE n = m
      <4>1. h[n] = TypeOn(g[m - 1], text[m], color) BY <2>2, <3>3
      <4>2. h[n - 1] = g[m - 1] BY <2>2, <2>3, <3>3
      <4> QED BY <2>3, <3>3, <4>1, <4>2
    <3> QED BY <2>2, <3>1, <3>2, <3>3
  <2>8. Run(h, m)
    <3>1. h = [n \in 0 .. m |-> h[n]] OBVIOUS
    <3> HIDE DEF h
    <3> QED BY <2>7, <3>1
  <2> QED BY <2>2, <2>8
<1>2. \E g : Run(g, Len(text)) BY <1>1
<1> DEFINE after == CHOOSE g : Run(g, Len(text))
<1>3. Run(after, Len(text)) BY <1>2
<1>4. TypeText(p, text, color) = after[Len(text)] BY DEF TypeText
<1> HIDE DEF after
<1>5. after[0] = p BY <1>3
<1>6. \A n \in 1 .. Len(text) : after[n] = TypeOn(after[n - 1], text[n], color)
  BY <1>3
<1> QED BY <1>4, <1>5, <1>6

(* The diagnostic between two calls appears on the screen as on paper. *)
LEMMA DiagnosticMatches ==
  ASSUME NEW s \in Terminal, NEW p \in Papers, Match(s, p),
         s.row < VGA_HEIGHT, s.col < VGA_WIDTH
  PROVE  /\ TypeText(p, Message, s.color) \in Papers
         /\ Match(vga_puts(s, Message), TypeText(p, Message, s.color))
<1> DEFINE L == Len(Message)
<1>1. L \in Nat /\ L > 0 BY MessageText
<1>2. PICK g : /\ g[0] = s
               /\ \A n \in 1 .. L : g[n] = vga_putchar(g[n - 1], Message[n])
               /\ vga_puts(s, Message) = g[L]
  BY <1>1, PutsStates
<1>3. PICK h : /\ h[0] = p
               /\ \A n \in 1 .. L : h[n] = TypeOn(h[n - 1], Message[n], s.color)
               /\ TypeText(p, Message, s.color) = h[L]
  BY <1>1, TypeStates
<1> DEFINE Good(n) == /\ g[n] \in Terminal /\ h[n] \in Papers /\ Match(g[n], h[n])
                      /\ g[n].row < VGA_HEIGHT /\ g[n].col < VGA_WIDTH
                      /\ g[n].color = s.color
           R == OpToRel(<, Nat)
           T == {n \in 0 .. L : ~Good(n)}
<1>4. T = {}
  <2> SUFFICES ASSUME T # {} PROVE FALSE OBVIOUS
  <2>1. PICK m \in T : \A y \in T : ~(<<y, m>> \in R)
    <3>1. IsWellFoundedOn(R, Nat) BY NatLessThanWellFounded
    <3>2. T \subseteq Nat BY <1>1
    <3> HIDE DEF R, T
    <3> QED BY <3>1, <3>2, WFMin
  <2>2. m \in 0 .. L /\ ~Good(m) BY <2>1
  <2>3. Good(0) BY <1>2, <1>3
  <2>4. m # 0 BY <2>2, <2>3
  <2>5. m - 1 \in Nat /\ m \in Nat /\ m - 1 < m BY <1>1, <2>2, <2>4
  <2>6. <<m - 1, m>> \in R BY <2>5 DEF OpToRel
  <2>7. m - 1 \in 0 .. L BY <1>1, <2>2, <2>5
  <2>8. Good(m - 1) BY <2>1, <2>6, <2>7
  <2>9. m \in 1 .. L BY <1>1, <2>2, <2>4
  <2>10. Message[m] \in Glyphs \cup Controls BY <2>9, MessageText DEF Controls
  <2> HIDE DEF T, R
  <2>11. Good(m)
    <3> DEFINE a == g[m - 1]
               q == h[m - 1]
               c == Message[m]
               n == Put(a, c)
    <3>1. /\ a \in Terminal /\ q \in Papers /\ Match(a, q) /\ a.row < VGA_HEIGHT
          /\ a.col < VGA_WIDTH /\ a.color = s.color /\ c \in Glyphs \cup Controls
      BY <2>8, <2>10
    <3>2. g[m] = vga_putchar(a, c) /\ h[m] = TypeOn(q, c, s.color) BY <1>2, <1>3, <2>9
    <3> HIDE DEF a, q, c, Good
    <3>3. /\ n \in Terminal /\ n.row < VGA_HEIGHT /\ n.col < VGA_WIDTH
          /\ n.color = a.color /\ TypeOn(q, c, a.color) \in Papers
          /\ Match(n, TypeOn(q, c, a.color))
      BY <3>1, PutMatches
    <3>4. g[m] = vga_update_cursor(n) BY <3>2, PutcharIsPut
    <3> HIDE DEF n
    <3>5. /\ g[m] \in Terminal /\ g[m].row = n.row /\ g[m].col = n.col
          /\ g[m].buf = n.buf /\ g[m].color = n.color
      BY <3>3, <3>4, CursorTerm
    <3>6. h[m] \in Papers /\ Match(n, h[m]) BY <3>1, <3>2, <3>3
    <3>7. SamePicture(g[m], h[m]) BY <3>5, <3>6, PictureKept DEF Match
    <3>8. Match(g[m], h[m]) BY <3>5, <3>6, <3>7 DEF Match
    <3> QED BY <3>1, <3>3, <3>5, <3>6, <3>8 DEF Good
  <2> QED BY <2>2, <2>11
<1>5. L \in 0 .. L BY <1>1
<1>6. Good(L) BY <1>4, <1>5
<1> QED BY <1>2, <1>3, <1>6

-----------------------------------------------------------------------------
(* A step of a call changes what is left to do, not what will have been done. *)
LEMMA PaperKept ==
  ASSUME PaperInv, paper' = paper, spoiled' = spoiled,
         ~spoiled => /\ StoresInv'
                     /\ Pending(t', call').row = Pending(t, call).row
                     /\ Pending(t', call').col = Pending(t, call).col
                     /\ Pending(t', call').buf = Pending(t, call).buf
  PROVE  PaperInv'
<1> DEFINE a == Pending(t, call)
           b == Pending(t', call')
<1>1. paper \in Papers /\ (~spoiled => Match(a, paper)) BY DEF PaperInv
<1>2. ~spoiled => b.row = a.row /\ b.col = a.col /\ b.buf = a.buf /\ StoresInv'
  OBVIOUS
<1> HIDE DEF a, b
<1>3. ~spoiled => Match(b, paper) BY <1>1, <1>2, PictureKept DEF Match
<1> QED BY <1>1, <1>2, <1>3 DEF PaperInv, b

(* Reading row and column for the cursor. *)
LEMMA ReadRowPaper == VgaInv /\ PaperInv /\ ReadRow => PaperInv'
<1> SUFFICES ASSUME VgaInv, PaperInv, ReadRow PROVE PaperInv' OBVIOUS
<1>1. t \in Terminal /\ call \in Calls BY DEF VgaInv, VgaTypes
<1>2. call.pc \in {"row", "reload"} /\ call'.pc \in {"pos", "col"}
  BY <1>1 DEF ReadRow, At, Goto, Calls, Idle
<1>3. t'.row = t.row /\ t'.col = t.col /\ t'.buf = t.buf
  BY DEF ReadRow
<1>4. Pending(t, call) = t /\ Pending(t', call') = t' BY <1>2 DEF Pending
<1>5. StoresInv' BY <1>2 DEF StoresInv, At
<1>6. paper' = paper /\ spoiled' = spoiled BY DEF ReadRow, Silent
<1> QED BY <1>3, <1>4, <1>5, <1>6, PaperKept

(* The column, too. *)
LEMMA ReadColPaper == VgaInv /\ PaperInv /\ ReadCol => PaperInv'
<1> SUFFICES ASSUME VgaInv, PaperInv, ReadCol PROVE PaperInv' OBVIOUS
<1>1. t \in Terminal /\ call \in Calls BY DEF VgaInv, VgaTypes
<1>2. call.pc = "col" /\ call'.pc = "pos"
  BY <1>1 DEF ReadCol, At, Goto, Calls, Idle
<1>3. t'.row = t.row /\ t'.col = t.col /\ t'.buf = t.buf
  BY DEF ReadCol
<1>4. Pending(t, call) = t /\ Pending(t', call') = t' BY <1>2 DEF Pending
<1>5. StoresInv' BY <1>2 DEF StoresInv, At
<1>6. paper' = paper /\ spoiled' = spoiled BY DEF ReadCol, Silent
<1> QED BY <1>3, <1>4, <1>5, <1>6, PaperKept

(* The cursor registers are not on the screen. *)
LEMMA SelectLowPaper == VgaInv /\ PaperInv /\ SelectLow => PaperInv'
<1> SUFFICES ASSUME VgaInv, PaperInv, SelectLow PROVE PaperInv' OBVIOUS
<1>1. t \in Terminal /\ call \in Calls BY DEF VgaInv, VgaTypes
<1>2. call.pc = "pos" /\ call'.pc = "low"
  BY <1>1 DEF SelectLow, At, Goto, Calls, Idle
<1>3. t'.row = t.row /\ t'.col = t.col /\ t'.buf = t.buf
  BY <1>1 DEF SelectLow, Terminal
<1>4. Pending(t, call) = t /\ Pending(t', call') = t' BY <1>2 DEF Pending
<1>5. StoresInv' BY <1>2 DEF StoresInv, At
<1>6. paper' = paper /\ spoiled' = spoiled BY DEF SelectLow, Silent
<1> QED BY <1>3, <1>4, <1>5, <1>6, PaperKept

(* Nor is the other index. *)
LEMMA SelectHighPaper == VgaInv /\ PaperInv /\ SelectHigh => PaperInv'
<1> SUFFICES ASSUME VgaInv, PaperInv, SelectHigh PROVE PaperInv' OBVIOUS
<1>1. t \in Terminal /\ call \in Calls BY DEF VgaInv, VgaTypes
<1>2. call.pc = "select_high" /\ call'.pc = "high"
  BY <1>1 DEF SelectHigh, At, Goto, Calls, Idle
<1>3. t'.row = t.row /\ t'.col = t.col /\ t'.buf = t.buf
  BY <1>1 DEF SelectHigh, Terminal
<1>4. Pending(t, call) = t /\ Pending(t', call') = t' BY <1>2 DEF Pending
<1>5. StoresInv' BY <1>2 DEF StoresInv, At
<1>6. paper' = paper /\ spoiled' = spoiled BY DEF SelectHigh, Silent
<1> QED BY <1>3, <1>4, <1>5, <1>6, PaperKept

(* The low byte. *)
LEMMA PutLowPaper == VgaInv /\ PaperInv /\ PutLow => PaperInv'
<1> SUFFICES ASSUME VgaInv, PaperInv, PutLow PROVE PaperInv' OBVIOUS
<1>1. t \in Terminal /\ call \in Calls BY DEF VgaInv, VgaTypes
<1>2. call.pc = "low" /\ call'.pc = "select_high"
  BY <1>1 DEF PutLow, At, Goto, Calls, Idle
<1>3. t'.row = t.row /\ t'.col = t.col /\ t'.buf = t.buf
  <2>1. call.pos \in Nat BY <1>1 DEF Calls
  <2>2. call.pos % BYTE \in Nat BY <2>1, TwoBytes, Dimensions
  <2> QED BY <1>1, <2>2, WriteDataTerm DEF PutLow
<1>4. Pending(t, call) = t /\ Pending(t', call') = t' BY <1>2 DEF Pending
<1>5. StoresInv' BY <1>2 DEF StoresInv, At
<1>6. paper' = paper /\ spoiled' = spoiled BY DEF PutLow, Silent
<1> QED BY <1>3, <1>4, <1>5, <1>6, PaperKept

(* The high byte, and the end of the call. *)
LEMMA PutHighPaper == VgaInv /\ PaperInv /\ PutHigh => PaperInv'
<1> SUFFICES ASSUME VgaInv, PaperInv, PutHigh PROVE PaperInv' OBVIOUS
<1>1. t \in Terminal /\ call \in Calls BY DEF VgaInv, VgaTypes
<1>2. call.pc = "high" /\ call'.pc = "idle"
  BY <1>1 DEF PutHigh, At, Goto, Calls, Idle
<1>3. t'.row = t.row /\ t'.col = t.col /\ t'.buf = t.buf
  <2>1. call.pos \in Nat BY <1>1 DEF Calls
  <2>2. call.pos \div BYTE \in Nat BY <2>1, TwoBytes, Dimensions
  <2> QED BY <1>1, <2>2, WriteDataTerm DEF PutHigh
<1>4. Pending(t, call) = t /\ Pending(t', call') = t' BY <1>2 DEF Pending
<1>5. StoresInv' BY <1>2 DEF StoresInv, At
<1>6. paper' = paper /\ spoiled' = spoiled BY DEF PutHigh, Silent
<1> QED BY <1>3, <1>4, <1>5, <1>6, PaperKept

(* The row in a register. *)
LEMMA LoadRowPaper == VgaInv /\ PaperInv /\ LoadRow => PaperInv'
<1> SUFFICES ASSUME VgaInv, PaperInv, LoadRow PROVE PaperInv' OBVIOUS
<1>1. t \in Terminal /\ call \in Calls BY DEF VgaInv, VgaTypes
<1>2. call.pc = "load_row" /\ call'.pc = "load_col"
  BY <1>1 DEF LoadRow, At, Goto, Calls, AfterColumn
<1>3. paper' = paper /\ spoiled' = spoiled BY DEF LoadRow, Silent
<1>4. t' = t /\ call'.c = call.c BY <1>1 DEF LoadRow, Calls
<1>5. Pending(t, call) = Put(t, call.c) /\ Pending(t', call') = Put(t, call.c)
  BY <1>2, <1>4 DEF Pending
<1>6. StoresInv' BY <1>2 DEF StoresInv, At
<1> QED BY <1>3, <1>5, <1>6, PaperKept

(* The column before, stored. *)
LEMMA StepBackPaper == VgaInv /\ PaperInv /\ StepBack => PaperInv'
<1> SUFFICES ASSUME VgaInv, PaperInv, StepBack PROVE PaperInv' OBVIOUS
<1>1. t \in Terminal /\ call \in Calls BY DEF VgaInv, VgaTypes
<1>2. call.pc = "back" /\ call'.pc = "pos"
  BY <1>1 DEF StepBack, At, Goto, Calls, AfterColumn
<1>3. paper' = paper /\ spoiled' = spoiled BY DEF StepBack, Silent
<1>4. t' = [t EXCEPT !.col = call.col - 1] BY DEF StepBack
<1>5. Pending(t, call) = t' /\ Pending(t', call') = t' BY <1>2, <1>4 DEF Pending
<1>6. StoresInv' BY <1>2 DEF StoresInv, At
<1> QED BY <1>3, <1>5, <1>6, PaperKept

(* The column of the tab, in a register. *)
LEMMA TabLoadPaper == VgaInv /\ PaperInv /\ TabLoad => PaperInv'
<1> SUFFICES ASSUME VgaInv, PaperInv, TabLoad PROVE PaperInv' OBVIOUS
<1>1. t \in Terminal /\ call \in Calls BY DEF VgaInv, VgaTypes
<1>2. call.pc = "tab" /\ call'.pc = "tab_store"
  BY <1>1 DEF TabLoad, At, Goto, Calls, AfterColumn
<1>3. paper' = paper /\ spoiled' = spoiled BY DEF TabLoad, Silent
<1>4. t' = t /\ call'.col = NextTab(t.col) BY <1>1 DEF TabLoad, Calls
<1>5. [t EXCEPT !.col = NextTab(@)] = [t EXCEPT !.col = NextTab(t.col)]
  BY <1>1 DEF Terminal
<1>6. Pending(t, call) = WrapLine([t EXCEPT !.col = NextTab(@)])
      /\ Pending(t', call') = WrapLine([t EXCEPT !.col = NextTab(t.col)])
  BY <1>2, <1>4 DEF Pending
<1>7. StoresInv' BY <1>2 DEF StoresInv, At
<1> QED BY <1>3, <1>5, <1>6, <1>7, PaperKept

(* The column of the tab, stored. *)
LEMMA TabStorePaper == VgaInv /\ PaperInv /\ TabStore => PaperInv'
<1> SUFFICES ASSUME VgaInv, PaperInv, TabStore PROVE PaperInv' OBVIOUS
<1>1. t \in Terminal /\ call \in Calls BY DEF VgaInv, VgaTypes
<1>2. call.pc = "tab_store" /\ call'.pc = IF call.col >= VGA_WIDTH THEN "newline" ELSE "row"
  BY <1>1 DEF TabStore, At, Goto, Calls, AfterColumn
<1>3. paper' = paper /\ spoiled' = spoiled BY DEF TabStore, Silent
<1>4. t' = [t EXCEPT !.col = call.col] BY DEF TabStore
<1>5. t'.col = call.col BY <1>1, <1>4 DEF Terminal
<1>6. Pending(t, call) = WrapLine(t') BY <1>2, <1>4 DEF Pending
<1>7. Pending(t', call') = WrapLine(t')
  <2>1. CASE call.col >= VGA_WIDTH BY <1>2, <1>5, <2>1 DEF Pending, WrapLine
  <2>2. CASE ~(call.col >= VGA_WIDTH) BY <1>2, <1>5, <2>2 DEF Pending, WrapLine
  <2> QED BY <2>1, <2>2
<1>8. StoresInv' BY <1>2 DEF StoresInv, At
<1> QED BY <1>3, <1>6, <1>7, <1>8, PaperKept

(* The first column, stored. *)
LEMMA CarriageReturnPaper == VgaInv /\ PaperInv /\ CarriageReturn => PaperInv'
<1> SUFFICES ASSUME VgaInv, PaperInv, CarriageReturn PROVE PaperInv' OBVIOUS
<1>1. t \in Terminal /\ call \in Calls BY DEF VgaInv, VgaTypes
<1>2. call.pc = "return" /\ call'.pc = "row"
  BY <1>1 DEF CarriageReturn, At, Goto, Calls, AfterColumn
<1>3. paper' = paper /\ spoiled' = spoiled BY DEF CarriageReturn, Silent
<1>4. t' = [t EXCEPT !.col = 0] BY DEF CarriageReturn
<1>5. Pending(t, call) = t' /\ Pending(t', call') = t' BY <1>2, <1>4 DEF Pending
<1>6. StoresInv' BY <1>2 DEF StoresInv, At
<1> QED BY <1>3, <1>5, <1>6, PaperKept

(* The column of the next line, stored before the row is read. *)
LEMMA NewlineColPaper == VgaInv /\ PaperInv /\ NewlineCol => PaperInv'
<1> SUFFICES ASSUME VgaInv, PaperInv, NewlineCol PROVE PaperInv' OBVIOUS
<1>1. t \in Terminal /\ call \in Calls BY DEF VgaInv, VgaTypes
<1>2. call.pc = "newline" /\ call'.pc = "newline_load"
  BY <1>1 DEF NewlineCol, At, Goto, Calls, AfterColumn
<1>3. paper' = paper /\ spoiled' = spoiled BY DEF NewlineCol, Silent
<1>4. /\ t' \in Terminal /\ t'.row = t.row /\ t'.col = 0 /\ t'.buf = t.buf
      /\ t'.color = t.color
  BY <1>1 DEF NewlineCol, Terminal
<1>5. t.row <= VGA_HEIGHT BY DEF VgaInv, RangeInv
<1>6. Scrolled(t') = Scrolled(t) BY <1>4 DEF Scrolled
<1>7. /\ vga_newline(t').row = vga_newline(t).row
      /\ vga_newline(t').col = vga_newline(t).col
      /\ vga_newline(t').buf = vga_newline(t).buf
  <2>1. /\ vga_newline(t).col = 0
        /\ vga_newline(t).row = IF t.row + 1 >= VGA_HEIGHT THEN VGA_HEIGHT - 1 ELSE t.row + 1
        /\ vga_newline(t).buf = IF t.row + 1 >= VGA_HEIGHT THEN Scrolled(t) ELSE t.buf
    BY <1>1, <1>5, NewlineTerm
  <2>2. /\ vga_newline(t').col = 0
        /\ vga_newline(t').row
             = IF t'.row + 1 >= VGA_HEIGHT THEN VGA_HEIGHT - 1 ELSE t'.row + 1
        /\ vga_newline(t').buf = IF t'.row + 1 >= VGA_HEIGHT THEN Scrolled(t') ELSE t'.buf
    BY <1>4, <1>5, NewlineTerm
  <2> QED BY <1>4, <1>6, <2>1, <2>2
<1>8. Pending(t, call) = vga_newline(t) /\ Pending(t', call') = vga_newline(t')
  BY <1>2 DEF Pending
<1>9. StoresInv' BY <1>2, <1>4 DEF StoresInv, At
<1> QED BY <1>3, <1>7, <1>8, <1>9, PaperKept

(* The next row, in a register. *)
LEMMA NewlineLoadPaper == VgaInv /\ PaperInv /\ NewlineLoad => PaperInv'
<1> SUFFICES ASSUME VgaInv, PaperInv, NewlineLoad PROVE PaperInv' OBVIOUS
<1>1. t \in Terminal /\ call \in Calls BY DEF VgaInv, VgaTypes
<1>2. call.pc = "newline_load" /\ call'.pc = "newline_row"
  BY <1>1 DEF NewlineLoad, At, Goto, Calls, AfterColumn
<1>3. paper' = paper /\ spoiled' = spoiled BY DEF NewlineLoad, Silent
<1>4. t' = t /\ call'.row = t.row + 1 BY <1>1 DEF NewlineLoad, Calls
<1>5. Pending(t, call) = vga_newline(t) /\ Pending(t', call') = vga_newline(t)
  BY <1>2, <1>4 DEF Pending
<1>6. ~spoiled => t.col = 0 BY <1>2 DEF PaperInv, StoresInv, At
<1>7. ~spoiled => StoresInv' BY <1>2, <1>4, <1>6 DEF StoresInv, At
<1> QED BY <1>3, <1>5, <1>7, PaperKept

(* The next row, stored; below the screen the lines still have to move. *)
LEMMA NewlineRowPaper == VgaInv /\ PaperInv /\ NewlineRow => PaperInv'
<1> SUFFICES ASSUME VgaInv, PaperInv, NewlineRow PROVE PaperInv' OBVIOUS
<1>1. t \in Terminal /\ call \in Calls BY DEF VgaInv, VgaTypes
<1>2. call.pc = "newline_row" /\ call'.pc = IF call.row >= VGA_HEIGHT THEN "scroll" ELSE "reload"
  BY <1>1 DEF NewlineRow, At, Goto, Calls, AfterColumn
<1>3. paper' = paper /\ spoiled' = spoiled BY DEF NewlineRow, Silent
<1>4. t' = [t EXCEPT !.row = call.row] BY DEF NewlineRow
<1>5. /\ t' \in Terminal /\ t'.row = call.row /\ t'.col = t.col /\ t'.buf = t.buf
      /\ t'.color = t.color
  <2>1. call.row \in Nat BY <1>1 DEF Calls
  <2> QED BY <1>1, <1>4, <2>1 DEF Terminal
<1>6. ~spoiled => t.col = 0 /\ call.row = t.row + 1
  BY <1>2 DEF PaperInv, StoresInv, At
<1>7. Pending(t, call) = vga_newline(t) BY <1>2 DEF Pending
<1>8. /\ vga_newline(t).col = 0
      /\ vga_newline(t).row = IF t.row + 1 >= VGA_HEIGHT THEN VGA_HEIGHT - 1 ELSE t.row + 1
      /\ vga_newline(t).buf = IF t.row + 1 >= VGA_HEIGHT THEN Scrolled(t) ELSE t.buf
  <2>1. t.row <= VGA_HEIGHT BY DEF VgaInv, RangeInv
  <2> QED BY <1>1, <2>1, NewlineTerm
<1>9. ASSUME ~spoiled
      PROVE  /\ StoresInv'
             /\ Pending(t', call').row = vga_newline(t).row
             /\ Pending(t', call').col = vga_newline(t).col
             /\ Pending(t', call').buf = vga_newline(t).buf
  <2>1. CASE call.row >= VGA_HEIGHT
    <3>1. call'.pc = "scroll" BY <1>2, <2>1
    <3>2. Pending(t', call') = [vga_scroll(t') EXCEPT !.row = VGA_HEIGHT - 1]
      BY <3>1 DEF Pending
    <3>3. vga_scroll(t') \in Terminal /\ vga_scroll(t') = [t' EXCEPT !.buf = Scrolled(t')]
      BY <1>5, ScrollTerm
    <3>4. Scrolled(t') = Scrolled(t) BY <1>5 DEF Scrolled
    <3>5. vga_scroll(t').col = t'.col /\ vga_scroll(t').buf = Scrolled(t)
      BY <1>5, <3>3, <3>4 DEF Terminal
    <3>6. /\ Pending(t', call').row = VGA_HEIGHT - 1
          /\ Pending(t', call').col = t'.col /\ Pending(t', call').buf = Scrolled(t)
      BY <3>2, <3>3, <3>5 DEF Terminal
    <3>7. StoresInv' BY <1>5, <1>6, <1>9, <3>1 DEF StoresInv, At
    <3> QED BY <1>5, <1>6, <1>8, <1>9, <2>1, <3>6, <3>7
  <2>2. CASE ~(call.row >= VGA_HEIGHT)
    <3>1. call'.pc = "reload" BY <1>2, <2>2
    <3>2. Pending(t', call') = t' BY <3>1 DEF Pending
    <3>3. StoresInv' BY <3>1 DEF StoresInv, At
    <3> QED BY <1>5, <1>6, <1>8, <1>9, <2>2, <3>2, <3>3
  <2> QED BY <2>1, <2>2
<1> QED BY <1>3, <1>7, <1>9, PaperKept

(* The lines have moved. *)
LEMMA ScrollPaper == VgaInv /\ PaperInv /\ Scroll => PaperInv'
<1> SUFFICES ASSUME VgaInv, PaperInv, Scroll PROVE PaperInv' OBVIOUS
<1>1. t \in Terminal /\ call \in Calls BY DEF VgaInv, VgaTypes
<1>2. call.pc = "scroll" /\ call'.pc = "last_row"
  BY <1>1 DEF Scroll, At, Goto, Calls, AfterColumn
<1>3. paper' = paper /\ spoiled' = spoiled BY DEF Scroll, Silent
<1>4. t' = vga_scroll(t) BY DEF Scroll
<1>5. Pending(t, call) = [vga_scroll(t) EXCEPT !.row = VGA_HEIGHT - 1]
      /\ Pending(t', call') = [t' EXCEPT !.row = VGA_HEIGHT - 1]
  BY <1>2 DEF Pending
<1>6. t'.col = t.col BY <1>1, <1>4, ScrollTerm DEF Terminal
<1>7. ~spoiled => t.col = 0 BY <1>2 DEF PaperInv, StoresInv, At
<1>8. ~spoiled => StoresInv' BY <1>2, <1>6, <1>7 DEF StoresInv, At
<1> QED BY <1>3, <1>4, <1>5, <1>8, PaperKept

(* The row is the last one. *)
LEMMA LastRowPaper == VgaInv /\ PaperInv /\ LastRow => PaperInv'
<1> SUFFICES ASSUME VgaInv, PaperInv, LastRow PROVE PaperInv' OBVIOUS
<1>1. t \in Terminal /\ call \in Calls BY DEF VgaInv, VgaTypes
<1>2. call.pc = "last_row" /\ call'.pc = "reload"
  BY <1>1 DEF LastRow, At, Goto, Calls, AfterColumn
<1>3. paper' = paper /\ spoiled' = spoiled BY DEF LastRow, Silent
<1>4. t' = [t EXCEPT !.row = VGA_HEIGHT - 1] BY DEF LastRow
<1>5. Pending(t, call) = t' /\ Pending(t', call') = t' BY <1>2, <1>4 DEF Pending
<1>6. StoresInv' BY <1>2 DEF StoresInv, At
<1> QED BY <1>3, <1>5, <1>6, PaperKept

(* The column in a register, and the decision of '\b'. *)
LEMMA LoadColPaper == VgaInv /\ PaperInv /\ LoadCol => PaperInv'
<1> SUFFICES ASSUME VgaInv, PaperInv, LoadCol PROVE PaperInv' OBVIOUS
<1>1. t \in Terminal /\ call \in Calls /\ hit \in BOOLEAN /\ (hit => spoiled)
  BY DEF VgaInv, VgaTypes
<1>2. call.pc = "load_col" /\ t' = t /\ paper' = paper /\ spoiled' = spoiled
  BY DEF LoadCol, Silent, At
<1>3. call.c \in Glyphs \cup {"BS"} BY <1>2 DEF VgaInv, VgaTypes, At
<1>4. /\ call'.c = call.c /\ call'.row = call.row /\ call'.col = t.col
      /\ call'.pc = IF call.c # "BS" THEN "emit" ELSE IF t.col > 0 THEN "back" ELSE "pos"
      /\ call'.todo = IF call.c # "BS" THEN {"cell", "col"} ELSE {}
  BY <1>1 DEF LoadCol, Calls
<1>5. Pending(t, call) = Put(t, call.c) BY <1>2 DEF Pending
<1>6. call.c \in Glyphs \cup Controls BY <1>3 DEF Controls
<1>7. ASSUME ~spoiled PROVE StoresInv' /\ Pending(t', call') = Put(t, call.c)
  <2>1. call.row = t.row BY <1>1, <1>2, <1>7 DEF VgaInv, RegistersInv, RowRead, At
  <2>2. CASE call.c # "BS"
    <3>1. call.c \in Glyphs BY <1>3, <2>2
    <3>2. call'.pc = "emit" /\ call'.todo = {"cell", "col"} BY <1>4, <2>2
    <3>3. StoresInv' BY <1>2, <1>4, <3>2 DEF StoresInv, At, ColRead
    <3>4. Put(t, call.c) = WrapLine(Struck(t, call.c)) BY <1>1, <1>6, <3>1, PutCases
    <3>5. Pending(t', call') = WrapLine([t EXCEPT
            !.buf[Position(t.row, t.col)] = vga_entry(call.c, t.color),
            !.col = t.col + 1])
      BY <1>2, <1>4, <2>1, <3>2 DEF Pending
    <3>6. Struck(t, call.c) = [t EXCEPT
            !.buf[Position(t.row, t.col)] = vga_entry(call.c, t.color),
            !.col = t.col + 1]
      BY <1>1 DEF Struck, Terminal
    <3> QED BY <3>3, <3>4, <3>5, <3>6
  <2>3. CASE call.c = "BS"
    <3>1. Put(t, call.c) = [t EXCEPT !.col = IF t.col > 0 THEN t.col - 1 ELSE t.col]
      BY <1>1, <1>6, <2>3, PutCases
    <3>2. CASE t.col > 0
      <4>1. call'.pc = "back" BY <1>4, <2>3, <3>2
      <4>2. Pending(t', call') = [t EXCEPT !.col = t.col - 1]
        BY <1>2, <1>4, <4>1 DEF Pending
      <4>3. StoresInv' BY <4>1 DEF StoresInv, At
      <4> QED BY <3>1, <3>2, <4>2, <4>3
    <3>3. CASE ~(t.col > 0)
      <4>1. call'.pc = "pos" BY <1>4, <2>3, <3>3
      <4>2. Pending(t', call') = t BY <1>2, <4>1 DEF Pending
      <4>3. StoresInv' BY <4>1 DEF StoresInv, At
      <4>4. [t EXCEPT !.col = t.col] = t BY <1>1 DEF Terminal
      <4> QED BY <3>1, <3>3, <4>2, <4>3, <4>4
    <3> QED BY <3>2, <3>3
  <2> QED BY <2>2, <2>3
<1> QED BY <1>2, <1>5, <1>7, PaperKept

(* The two stores of a printable character, in either order. *)
LEMMA EmitPaper == VgaInv /\ PaperInv /\ Emit => PaperInv'
<1> SUFFICES ASSUME VgaInv, PaperInv, Emit PROVE PaperInv' OBVIOUS
<1> DEFINE at == Position(call.row, call.col)
           e == vga_entry(call.c, t.color)
           X(s) == [s EXCEPT !.buf[at] = e, !.col = call.col + 1]
<1>1. t \in Terminal /\ call \in Calls /\ (hit => spoiled) BY DEF VgaInv, VgaTypes
<1>2. call.pc = "emit" /\ paper' = paper /\ spoiled' = spoiled
  BY DEF Emit, Silent, At
<1>3. PICK w \in call.todo :
        /\ t' = IF w = "cell" THEN [t EXCEPT !.buf[at] = e]
                ELSE [t EXCEPT !.col = call.col + 1]
        /\ call' = IF call.todo # {w} THEN [call EXCEPT !.todo = @ \ {w}]
                   ELSE [call EXCEPT !.todo = {}, !.col = @ + 1,
                                     !.pc = AfterColumn(call.col + 1)]
  BY DEF Emit
<1>4. /\ t.row \in Nat /\ t.col \in Nat /\ call.row \in Nat /\ call.col \in Nat
      /\ t.buf \in [Visible \cup Below -> Cells]
      /\ call.todo \in SUBSET {"cell", "col"}
  BY <1>1 DEF Terminal, Calls
<1>5. call.row < VGA_HEIGHT /\ call.col < VGA_WIDTH
  BY <1>2 DEF VgaInv, RangeInv, At
<1>6. at \in Visible \cup Below BY <1>4, <1>5, PositionBounds
<1>7. ~spoiled => /\ "col" \in call.todo => t.col = call.col
                  /\ "col" \notin call.todo => t.col = call.col + 1
                  /\ "cell" \notin call.todo => t.buf[at] = e
  BY <1>1, <1>2 DEF PaperInv, StoresInv, VgaInv, RegistersInv, At, ColRead
<1>8. Pending(t, call) = WrapLine(X(t)) BY <1>2 DEF Pending
<1>9. /\ w = "cell" => t'.buf = [t.buf EXCEPT ![at] = e] /\ t'.col = t.col
      /\ w # "cell" => t'.buf = t.buf /\ t'.col = call.col + 1
      /\ t'.row = t.row /\ t'.color = t.color
  <2> HIDE DEF at, e
  <2>1. CASE w = "cell"
    <3>1. t' = [t EXCEPT !.buf = [t.buf EXCEPT ![at] = e]]
      BY <1>1, <1>3, <2>1 DEF Terminal
    <3> QED BY <1>1, <2>1, <3>1 DEF Terminal
  <2>2. CASE w # "cell"
    <3>1. t' = [t EXCEPT !.col = call.col + 1] BY <1>3, <2>2
    <3> QED BY <1>1, <2>2, <3>1 DEF Terminal
  <2> QED BY <2>1, <2>2
<1>10. X(t') = X(t)
  <2> HIDE DEF at, e
  <2> DEFINE b == [t.buf EXCEPT ![at] = e]
  <2>1. X(t) = [t EXCEPT !.buf = b, !.col = call.col + 1] BY <1>1 DEF Terminal
  <2>2. CASE w = "cell"
    <3>1. t' = [t EXCEPT !.buf = b] BY <1>1, <1>3, <2>2 DEF Terminal
    <3>2. [b EXCEPT ![at] = e] = b BY <1>4, <1>6
    <3> HIDE DEF b
    <3>3. X(t') = [t EXCEPT !.buf = [b EXCEPT ![at] = e], !.col = call.col + 1]
      BY <1>1, <3>1 DEF Terminal
    <3> QED BY <2>1, <3>2, <3>3
  <2>3. CASE w # "cell"
    <3>1. t' = [t EXCEPT !.col = call.col + 1] BY <1>3, <2>3
    <3>2. X(t') = [t EXCEPT !.buf = b, !.col = call.col + 1]
      BY <1>1, <3>1 DEF Terminal
    <3> QED BY <2>1, <3>2
  <2> QED BY <2>2, <2>3
<1>11. CASE call.todo # {w}
  <2>1. /\ call'.pc = "emit" /\ call'.c = call.c /\ call'.row = call.row
        /\ call'.col = call.col /\ call'.todo = call.todo \ {w}
    BY <1>1, <1>2, <1>3, <1>11 DEF Calls
  <2>2. Pending(t', call') = WrapLine(X(t')) BY <1>9, <2>1 DEF Pending
  <2>3. ~spoiled => StoresInv'
    <3> SUFFICES ASSUME ~spoiled PROVE StoresInv' OBVIOUS
    <3>1. "col" \in call'.todo => t'.col = call.col
      BY <1>3, <1>4, <1>7, <1>9, <2>1
    <3>2. "cell" \notin call'.todo => t'.buf[at] = e
      BY <1>3, <1>4, <1>6, <1>7, <1>9, <2>1
    <3> HIDE DEF at, e
    <3>3. Position(call'.row, call'.col) = at /\ vga_entry(call'.c, t'.color) = e
      BY <1>9, <2>1 DEF at, e
    <3> QED BY <2>1, <3>1, <3>2, <3>3 DEF StoresInv, At, ColRead
  <2> HIDE DEF X
  <2>4. Pending(t', call') = Pending(t, call) BY <1>8, <1>10, <2>2
  <2> QED BY <1>2, <2>3, <2>4, PaperKept
<1>12. CASE call.todo = {w}
  <2>1. call'.pc = AfterColumn(call.col + 1) BY <1>1, <1>3, <1>12 DEF Calls
  <2>2. AfterColumn(call.col + 1) = IF call.col + 1 >= VGA_WIDTH THEN "newline" ELSE "pos"
    BY DEF AfterColumn
  <2>3. ASSUME ~spoiled PROVE Pending(t', call') = WrapLine(X(t))
    <3>1. t'.buf[at] = e /\ t'.col = call.col + 1 BY <1>3, <1>4, <1>6, <1>7, <1>9, <1>12, <2>3
    <3>2. t' \in Terminal
      <4>1. VgaInv' BY EmitInv
      <4> QED BY <4>1 DEF VgaInv, VgaTypes
    <3> HIDE DEF at, e
    <3>3. X(t') = t'
      <4>1. [t'.buf EXCEPT ![at] = e] = t'.buf BY <3>1, <3>2 DEF Terminal
      <4>2. X(t') = [t' EXCEPT !.buf = [t'.buf EXCEPT ![at] = e], !.col = call.col + 1]
        BY <3>2 DEF Terminal
      <4>3. [t' EXCEPT !.buf = t'.buf, !.col = t'.col] = t' BY <3>2 DEF Terminal
      <4> QED BY <3>1, <4>1, <4>2, <4>3
    <3> HIDE DEF X
    <3>4. Pending(t', call') = WrapLine(t')
      <4>1. CASE call.col + 1 >= VGA_WIDTH
        <5>1. call'.pc = "newline" BY <2>1, <2>2, <4>1
        <5> QED BY <3>1, <4>1, <5>1 DEF Pending, WrapLine
      <4>2. CASE ~(call.col + 1 >= VGA_WIDTH)
        <5>1. call'.pc = "pos" BY <2>1, <2>2, <4>2
        <5> QED BY <3>1, <4>2, <5>1 DEF Pending, WrapLine
      <4> QED BY <4>1, <4>2
    <3> QED BY <1>10, <3>3, <3>4
  <2>4. StoresInv'
    <3>1. call'.pc \in {"newline", "pos"} BY <2>1, <2>2
    <3> QED BY <3>1 DEF StoresInv, At
  <2> HIDE DEF X
  <2> QED BY <1>2, <1>8, <2>3, <2>4, PaperKept
<1> QED BY <1>11, <1>12

(* The attribute of later characters is not on the screen. *)
LEMMA SetColorPaper ==
  ASSUME VgaInv, PaperInv, NEW color \in Colors, vga_set_color(color)
  PROVE  PaperInv'
<1>1. t \in Terminal BY DEF VgaInv, VgaTypes
<1>2. call.pc = "idle" /\ call' = call /\ paper' = paper /\ spoiled' = spoiled
  BY DEF vga_set_color, Silent, At
<1>3. t'.row = t.row /\ t'.col = t.col /\ t'.buf = t.buf
  BY <1>1 DEF vga_set_color, Terminal
<1>4. Pending(t, call) = t /\ Pending(t', call') = t' BY <1>2 DEF Pending
<1>5. StoresInv' BY <1>2 DEF StoresInv, At
<1> QED BY <1>2, <1>3, <1>4, <1>5, PaperKept

(* The character is on paper when the call begins, and on the screen when   *)
(* it will be over.                                                         *)
LEMMA EnterPaper ==
  ASSUME VgaInv, PaperInv, NEW c \in Glyphs \cup Controls, Enter(c)
  PROVE  PaperInv'
<1>1. t \in Terminal /\ spoiled \in BOOLEAN BY DEF VgaInv, VgaTypes
<1>2. t' = t /\ spoiled' = spoiled /\ call.pc = "idle"
      /\ paper' = IF spoiled THEN paper ELSE TypeOn(paper, c, t.color)
  BY DEF Enter, At
<1>3. t.row < VGA_HEIGHT /\ t.col < VGA_WIDTH
  BY <1>2 DEF VgaInv, RangeInv, At
<1>4. paper \in Papers BY DEF PaperInv
<1>5. CASE spoiled BY <1>2, <1>4, <1>5 DEF PaperInv
<1>6. CASE ~spoiled
  <2>1. Pending(t, call) = t BY <1>2 DEF Pending
  <2>2. Match(t, paper) BY <1>6, <2>1 DEF PaperInv
  <2>3. paper' \in Papers /\ Match(Put(t, c), paper')
    BY <1>1, <1>2, <1>3, <1>4, <1>6, <2>2, PutMatches
  <2> DEFINE pc == CASE c = "NL" -> "newline" [] c = "CR" -> "return"
                     [] c = "HT" -> "tab" [] OTHER -> "load_row"
  <2>4. call' = [Idle EXCEPT !.c = c, !.pc = pc] BY DEF Enter
  <2>5. call'.pc = pc /\ call'.c = c BY <2>4 DEF Idle
  <2>6. Pending(t', call') = Put(t, c)
    <3>1. CASE c = "NL"
      <4>1. call'.pc = "newline" BY <2>5, <3>1
      <4> QED BY <1>1, <1>2, <3>1, <4>1, PutCases DEF Pending
    <3>2. CASE c = "CR"
      <4>1. call'.pc = "return" BY <2>5, <3>2
      <4> QED BY <1>1, <1>2, <3>2, <4>1, PutCases DEF Pending
    <3>3. CASE c = "HT"
      <4>1. call'.pc = "tab" BY <2>5, <3>3
      <4>2. Pending(t', call') = WrapLine([t EXCEPT !.col = NextTab(@)])
        BY <1>2, <4>1 DEF Pending
      <4>3. [t EXCEPT !.col = NextTab(@)] = [t EXCEPT !.col = NextTab(t.col)]
        BY <1>1 DEF Terminal
      <4> QED BY <1>1, <3>3, <4>2, <4>3, PutCases
    <3>4. CASE c # "NL" /\ c # "CR" /\ c # "HT"
      <4>1. call'.pc = "load_row" BY <2>5, <3>4
      <4> QED BY <1>2, <2>5, <4>1 DEF Pending
    <3> QED BY <3>1, <3>2, <3>3, <3>4
  <2>7. StoresInv'
    <3>1. call'.pc \in {"newline", "return", "tab", "load_row"} BY <2>5
    <3> QED BY <3>1 DEF StoresInv, At
  <2> QED BY <2>3, <2>6, <2>7 DEF PaperInv
<1> QED BY <1>5, <1>6

(* The paper of a fresh terminal. *)
LEMMA FreshTyped ==
  ASSUME NEW color \in Colors
  PROVE  /\ Fresh(color) \in Papers /\ Fresh(color).lines = <<BlankLine(color)>>
         /\ Fresh(color).col = 0 /\ Fresh(color).ground = color
<1>1. BlankLine(color) \in Lines BY BlankTyped
<1>2. <<BlankLine(color)>> \in Seq(Lines) BY <1>1
<1> QED BY <1>2 DEF Fresh, Papers

(* A diagnostic between calls is printed on both; one inside a call ends    *)
(* the comparison.                                                          *)
LEMMA IrqDiagnosticPaper == VgaInv /\ PaperInv /\ IrqDiagnostic => PaperInv'
<1> SUFFICES ASSUME VgaInv, PaperInv, IrqDiagnostic PROVE PaperInv' OBVIOUS
<1>1. t \in Terminal /\ spoiled \in BOOLEAN BY DEF VgaInv, VgaTypes
<1>2. /\ t' = vga_puts(t, Message) /\ call' = call
      /\ spoiled' = (spoiled \/ call.pc # "idle")
      /\ paper' = IF spoiled' THEN Fresh(paper.ground)
                  ELSE TypeText(paper, Message, t.color)
  BY DEF IrqDiagnostic, Message, At
<1>3. paper \in Papers BY DEF PaperInv
<1>4. CASE spoiled'
  <2>1. paper.ground \in Colors BY <1>3 DEF Papers
  <2> QED BY <1>2, <1>4, <2>1, FreshTyped DEF PaperInv
<1>5. CASE ~spoiled'
  <2>1. ~spoiled /\ call.pc = "idle" BY <1>1, <1>2, <1>5
  <2>2. Pending(t, call) = t /\ Pending(t', call') = t' BY <1>2, <2>1 DEF Pending
  <2>3. Match(t, paper) BY <2>1, <2>2 DEF PaperInv
  <2>4. t.row < VGA_HEIGHT /\ t.col < VGA_WIDTH
    BY <2>1 DEF VgaInv, RangeInv, At
  <2>5. paper' \in Papers /\ Match(t', paper')
    BY <1>1, <1>2, <1>3, <1>5, <2>3, <2>4, DiagnosticMatches
  <2>6. StoresInv' BY <1>2, <2>1 DEF StoresInv, At
  <2> QED BY <2>2, <2>5, <2>6 DEF PaperInv
<1> QED BY <1>4, <1>5

(* The cleared screen is a blank sheet. *)
LEMMA VgaInitPaper == VgaInit => PaperInv
<1> SUFFICES ASSUME VgaInit PROVE PaperInv OBVIOUS
<1>1. PICK color \in Colors : t = vga_clear(color) /\ paper = Fresh(color)
  BY DEF VgaInit
<1>2. call = Idle /\ call.pc = "idle" BY DEF VgaInit, Idle
<1>3. /\ paper \in Papers /\ paper.lines = <<BlankLine(color)>>
      /\ paper.col = 0 /\ paper.ground = color
  BY <1>1, FreshTyped
<1>4. Len(paper.lines) = 1 /\ paper.lines[1] = BlankLine(color) BY <1>3
<1>5. /\ t.row = 0 /\ t.col = 0
      /\ t.buf = [i \in Visible \cup Below |-> vga_entry(" ", color)]
  BY <1>1 DEF vga_clear
<1>6. ASSUME NEW i \in 1 .. VGA_HEIGHT, NEW j \in 1 .. VGA_WIDTH
      PROVE  t.buf[Position(i - 1, j - 1)] =
               IF i <= Len(paper.lines) THEN paper.lines[i][j]
               ELSE vga_entry(" ", paper.ground)
  <2>1. /\ i - 1 \in Nat /\ j - 1 \in Nat /\ i \in Nat
        /\ i - 1 < VGA_HEIGHT /\ j - 1 < VGA_WIDTH
    BY Dimensions
  <2>2. Position(i - 1, j - 1) \in Visible BY <2>1, PositionBounds
  <2>3. t.buf[Position(i - 1, j - 1)] = vga_entry(" ", color) BY <1>5, <2>2
  <2>4. CASE i <= 1
    <3>1. i = 1 BY <2>4
    <3>2. paper.lines[i][j] = vga_entry(" ", color) BY <1>4, <3>1, BlankTyped
    <3> QED BY <1>4, <2>3, <2>4, <3>2
  <2>5. CASE ~(i <= 1) BY <1>3, <1>4, <2>3, <2>5
  <2> QED BY <2>4, <2>5
<1>7. Len(paper.lines) \in 1 .. VGA_HEIGHT /\ t.row + 1 = Len(paper.lines)
  <2>1. 1 \in 1 .. VGA_HEIGHT BY Dimensions
  <2>2. t.row + 1 = 1
    <3>1. t.row = 0 BY <1>5
    <3> QED BY <3>1
  <2> QED BY <1>4, <2>1, <2>2
<1>8. Match(t, paper) BY <1>3, <1>5, <1>6, <1>7 DEF Match, SamePicture
<1>9. Pending(t, call) = t BY <1>2 DEF Pending
<1>10. StoresInv BY <1>2 DEF StoresInv, At
<1> QED BY <1>3, <1>8, <1>9, <1>10 DEF PaperInv

(* Every step keeps paper and screen together. *)
LEMMA VgaNextPaper == VgaInv /\ PaperInv /\ [VgaNext]_vgaVars => PaperInv'
<1> SUFFICES ASSUME VgaInv, PaperInv, [VgaNext]_vgaVars PROVE PaperInv' OBVIOUS
<1>1. CASE UNCHANGED vgaVars
  <2>1. t' = t /\ call' = call /\ paper' = paper /\ spoiled' = spoiled
    BY <1>1 DEF vgaVars
  <2> QED BY <2>1 DEF PaperInv, StoresInv, At, ColRead
<1>2. CASE \E color \in Colors : vga_set_color(color) BY <1>2, SetColorPaper
<1>3. CASE \E c \in Glyphs \cup Controls : Enter(c) BY <1>3, EnterPaper
<1>4. CASE LoadRow \/ LoadCol \/ StepBack \/ Emit \/ TabLoad \/ TabStore
  BY <1>4, LoadRowPaper, LoadColPaper, StepBackPaper, EmitPaper, TabLoadPaper,
     TabStorePaper
<1>5. CASE CarriageReturn \/ NewlineCol \/ NewlineLoad \/ NewlineRow
  BY <1>5, CarriageReturnPaper, NewlineColPaper, NewlineLoadPaper, NewlineRowPaper
<1>6. CASE Scroll \/ LastRow \/ ReadRow \/ ReadCol
  BY <1>6, ScrollPaper, LastRowPaper, ReadRowPaper, ReadColPaper
<1>7. CASE SelectLow \/ PutLow \/ SelectHigh \/ PutHigh
  BY <1>7, SelectLowPaper, PutLowPaper, SelectHighPaper, PutHighPaper
<1>8. CASE IrqDiagnostic BY <1>8, IrqDiagnosticPaper
<1> QED BY <1>1, <1>2, <1>3, <1>4, <1>5, <1>6, <1>7, <1>8 DEF VgaNext

(* The flat buffer shows what a printer would, for every sequence of        *)
(* characters, colors and diagnostics between calls.                        *)
THEOREM VgaScreenExact == VgaSpec => []ScreenExact
<1>1. VgaInit => PaperInv BY VgaInitPaper
<1>2. VgaInv /\ PaperInv /\ [VgaNext]_vgaVars => PaperInv' BY VgaNextPaper
<1>3. VgaInv /\ PaperInv => ScreenExact
  <2> SUFFICES ASSUME VgaInv, PaperInv, ~spoiled, At("idle")
               PROVE  /\ Screen(t) = Sheet(paper)
                      /\ t.row + 1 = Len(paper.lines) /\ t.col = paper.col
    BY DEF ScreenExact
  <2>1. Pending(t, call) = t BY DEF Pending, At
  <2>2. Match(t, paper) BY <2>1 DEF PaperInv
  <2>3. paper \in Papers BY DEF PaperInv
  <2>4. paper.lines \in Seq(Lines) /\ paper.ground \in Colors BY <2>3 DEF Papers
  <2>5. ASSUME NEW i \in 1 .. VGA_HEIGHT
        PROVE  [j \in 1 .. VGA_WIDTH |-> t.buf[Position(i - 1, j - 1)]]
                 = IF i <= Len(paper.lines) THEN paper.lines[i]
                   ELSE BlankLine(paper.ground)
    <3> DEFINE row == IF i <= Len(paper.lines) THEN paper.lines[i]
                      ELSE BlankLine(paper.ground)
    <3>1. row \in Lines
      <4>1. CASE i <= Len(paper.lines)
        <5>1. i \in 1 .. Len(paper.lines) BY <2>4, <4>1, Dimensions
        <5> QED BY <2>4, <4>1, <5>1
      <4>2. CASE ~(i <= Len(paper.lines)) BY <2>4, <4>2, BlankTyped
      <4> QED BY <4>1, <4>2
    <3>2. ASSUME NEW j \in 1 .. VGA_WIDTH
          PROVE  t.buf[Position(i - 1, j - 1)] = row[j]
      <4>1. t.buf[Position(i - 1, j - 1)] =
              IF i <= Len(paper.lines) THEN paper.lines[i][j]
              ELSE vga_entry(" ", paper.ground)
        BY <2>2 DEF Match, SamePicture
      <4>2. CASE i <= Len(paper.lines) BY <4>1, <4>2
      <4>3. CASE ~(i <= Len(paper.lines)) BY <2>4, <4>1, <4>3, BlankTyped
      <4> QED BY <4>2, <4>3
    <3> HIDE DEF row
    <3>3. row = [j \in 1 .. VGA_WIDTH |-> row[j]] BY <3>1 DEF Lines
    <3>4. [j \in 1 .. VGA_WIDTH |-> t.buf[Position(i - 1, j - 1)]] = row
      BY <3>2, <3>3
    <3> QED BY <3>4 DEF row
  <2>6. Screen(t) = Sheet(paper) BY <2>5 DEF Screen, Sheet
  <2> QED BY <2>2, <2>6 DEF Match, SamePicture
<1> QED BY <1>1, <1>2, <1>3, VgaInvariant, PTL DEF VgaSpec
=============================================================================
