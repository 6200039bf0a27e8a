--------------------------------- MODULE Vga ---------------------------------
(* The text terminal, src/vga.c.  vga_putchar is called by the main flow    *)
(* and, for the diagnostic of irq_dispatch, by an interrupt in the middle   *)
(* of such a call.  The interrupt runs with interrupts off and is one step; *)
(* the main flow is modelled access by access, in the order and with the    *)
(* register copies that gcc -O2 produces: row and column are read once,     *)
(* again after vga_newline, the store of the column may come before or      *)
(* after the store of the character.                                        *)
EXTENDS Integers, Sequences

CONSTANTS VGA_WIDTH, VGA_HEIGHT,
          TAB,           \* 8
          BYTE,          \* 256: the CRTC takes the position in two bytes
          Glyphs,        \* characters that occupy a cell, below 0x80
          Colors,        \* attributes passed to vga_set_color
          Diagnostic     \* "unhandled IRQ n", without the final newline

(* '\n', '\r', '\t', '\b' *)
Controls == {"NL", "CR", "HT", "BS"}
Visible == 0 .. VGA_HEIGHT * VGA_WIDTH - 1
Below == VGA_HEIGHT * VGA_WIDTH .. (VGA_HEIGHT + 1) * VGA_WIDTH - 1

(* The diagnostic is shorter than a line, and so is the way to a tab stop.  *)
ASSUME VgaAssumption ==
  /\ VGA_WIDTH \in Nat \ {0} /\ VGA_HEIGHT \in Nat \ {0} /\ TAB \in 1 .. VGA_WIDTH
  /\ Glyphs \cap Controls = {} /\ " " \notin Controls
  /\ BYTE \in Nat \ {0} /\ Colors # {}
  /\ Diagnostic \in Seq(Glyphs) /\ Len(Diagnostic) \in 1 .. VGA_WIDTH - 1

VARIABLES t,       \* [buf, row, col, color, index, lo, hi]: terminal and CRTC
          call,    \* the main flow's vga_putchar: [pc, c, row, col, ...]
          paper,   \* history: what a paper terminal would show
          hit,     \* history: the latest output was interrupted
          spoiled  \* history: some output was interrupted

vgaVars == <<t, call, paper, hit, spoiled>>

-----------------------------------------------------------------------------
(* The driver without interrupts. *)
vga_entry(c, color) == <<c, color>>

(* Mutant: the last line is not cleared. *)
vga_scroll_NoClear(s) ==
  [s EXCEPT !.buf = [i \in DOMAIN @ |->
     IF i < (VGA_HEIGHT - 1) * VGA_WIDTH THEN @[i + VGA_WIDTH] ELSE @[i]]]

vga_scroll(s) ==
  [s EXCEPT !.buf = [i \in DOMAIN @ |->
     IF i < (VGA_HEIGHT - 1) * VGA_WIDTH THEN @[i + VGA_WIDTH]
     ELSE IF i \in Visible THEN vga_entry(" ", s.color) ELSE @[i]]]

vga_newline(s) ==
  LET n == [s EXCEPT !.col = 0, !.row = @ + 1]
  IN  IF n.row >= VGA_HEIGHT
      THEN [vga_scroll(n) EXCEPT !.row = VGA_HEIGHT - 1] ELSE n

WrapLine(s) == IF s.col >= VGA_WIDTH THEN vga_newline(s) ELSE s

Position(row, col) == row * VGA_WIDTH + col
Cursor(s) == s.hi * BYTE + s.lo

vga_update_cursor(s) ==
  LET pos == Position(s.row, s.col)
  IN  [s EXCEPT !.index = "hi", !.lo = pos % BYTE, !.hi = pos \div BYTE]

NextTab(col) == ((col + TAB) \div TAB) * TAB

vga_putchar(s, c) ==
  vga_update_cursor(
    CASE c = "NL" -> vga_newline(s)
      [] c = "CR" -> [s EXCEPT !.col = 0]
      [] c = "HT" -> WrapLine([s EXCEPT !.col = NextTab(@)])
      [] c = "BS" -> [s EXCEPT !.col = IF @ > 0 THEN @ - 1 ELSE @]
      [] OTHER -> WrapLine([s EXCEPT
                    !.buf[Position(s.row, s.col)] = vga_entry(c, s.color),
                    !.col = @ + 1]))

(* The loop of vga_puts: the terminal after each character. *)
vga_puts(s, text) ==
  LET after[n \in 0 .. Len(text)] ==
        IF n = 0 THEN s ELSE vga_putchar(after[n - 1], text[n])
  IN  after[Len(text)]

(* vga_clear in kmain, before anything is printed. *)
vga_clear(color) ==
  [buf |-> [i \in Visible \cup Below |-> vga_entry(" ", color)],
   row |-> 0, col |-> 0, color |-> color, index |-> "hi", lo |-> 0, hi |-> 0]

-----------------------------------------------------------------------------
(* The reference: a printer with VGA_HEIGHT lines in view, no addresses.    *)
BlankLine(color) == [i \in 1 .. VGA_WIDTH |-> vga_entry(" ", color)]

Feed(p, blank) ==
  LET lines == Append(p.lines, blank)
  IN  [p EXCEPT !.col = 0,
         !.lines = IF Len(lines) > VGA_HEIGHT THEN Tail(lines) ELSE lines]

TypeOn(p, c, color) ==
  LET blank == BlankLine(IF Len(p.lines) < VGA_HEIGHT THEN p.ground ELSE color)
      last == Len(p.lines)
      struck == [p EXCEPT !.lines[last][p.col + 1] = vga_entry(c, color),
                          !.col = @ + 1]
  IN  CASE c = "NL" -> Feed(p, blank)
        [] c = "CR" -> [p EXCEPT !.col = 0]
        [] c = "BS" -> [p EXCEPT !.col = IF p.col = 0 THEN 0 ELSE p.col - 1]
        [] c = "HT" -> IF NextTab(p.col) >= VGA_WIDTH THEN Feed(p, blank)
                       ELSE [p EXCEPT !.col = NextTab(@)]
        [] OTHER -> IF p.col + 1 = VGA_WIDTH THEN Feed(struck, blank) ELSE struck

(* A text typed on it. *)
TypeText(p, text, color) ==
  LET after[n \in 0 .. Len(text)] ==
        IF n = 0 THEN p ELSE TypeOn(after[n - 1], text[n], color)
  IN  after[Len(text)]

Fresh(color) == [lines |-> <<BlankLine(color)>>, col |-> 0, ground |-> color]

(* The lines on paper, and the empty ones below them. *)
Sheet(p) == [i \in 1 .. VGA_HEIGHT |->
               IF i <= Len(p.lines) THEN p.lines[i] ELSE BlankLine(p.ground)]
Screen(s) == [i \in 1 .. VGA_HEIGHT |->
               [j \in 1 .. VGA_WIDTH |-> s.buf[Position(i - 1, j - 1)]]]

-----------------------------------------------------------------------------
Idle == [pc |-> "idle", c |-> " ", row |-> 0, col |-> 0, todo |-> {}, pos |-> 0]

VgaInit ==
  /\ \E color \in Colors : t = vga_clear(color) /\ paper = Fresh(color)
  /\ call = Idle
  /\ hit = FALSE /\ spoiled = FALSE

At(pc) == call.pc = pc
Goto(pc) == call' = [call EXCEPT !.pc = pc]
Silent == UNCHANGED <<paper, hit, spoiled>>

vga_set_color(color) ==
  /\ At("idle")
  /\ t' = [t EXCEPT !.color = color]
  /\ UNCHANGED call /\ Silent

(* vga_putchar(c) is entered. *)
Enter(c) ==
  /\ At("idle")
  /\ call' = [Idle EXCEPT !.c = c, !.pc =
       CASE c = "NL" -> "newline" [] c = "CR" -> "return" [] c = "HT" -> "tab"
         [] OTHER -> "load_row"]
  /\ paper' = IF spoiled THEN paper ELSE TypeOn(paper, c, t.color)
  /\ hit' = FALSE
  /\ UNCHANGED <<t, spoiled>>

(* The printable characters and '\b' read row and column first. *)
LoadRow ==
  /\ At("load_row")
  /\ call' = [call EXCEPT !.pc = "load_col", !.row = t.row]
  /\ UNCHANGED t /\ Silent

LoadCol ==
  /\ At("load_col")
  /\ call' = [call EXCEPT !.col = t.col,
       !.pc = IF call.c # "BS" THEN "emit"
              ELSE IF t.col > 0 THEN "back" ELSE "pos",
       !.todo = IF call.c # "BS" THEN {"cell", "col"} ELSE {}]
  /\ UNCHANGED t /\ Silent

StepBack ==
  /\ At("back")
  /\ t' = [t EXCEPT !.col = call.col - 1]
  /\ call' = [call EXCEPT !.pc = "pos", !.col = @ - 1]
  /\ Silent

(* Mutant: the test against the last column is off by one. *)
AfterColumn_Late(col) == IF col > VGA_WIDTH THEN "newline" ELSE "pos"

AfterColumn(col) == IF col >= VGA_WIDTH THEN "newline" ELSE "pos"

(* The cell and the column are stored, in either order. *)
Emit ==
  /\ At("emit")
  /\ \E w \in call.todo :
       /\ t' = IF w = "cell"
               THEN [t EXCEPT !.buf[Position(call.row, call.col)]
                                 = vga_entry(call.c, t.color)]
               ELSE [t EXCEPT !.col = call.col + 1]
       /\ call' = IF call.todo # {w} THEN [call EXCEPT !.todo = @ \ {w}]
                  ELSE [call EXCEPT !.todo = {}, !.col = @ + 1,
                                    !.pc = AfterColumn(call.col + 1)]
  /\ Silent

(* The tab reads and stores the column and keeps it in a register; the row  *)
(* is read afterwards.                                                      *)
TabLoad ==
  /\ At("tab")
  /\ call' = [call EXCEPT !.pc = "tab_store", !.col = NextTab(t.col)]
  /\ UNCHANGED t /\ Silent

TabStore ==
  /\ At("tab_store")
  /\ t' = [t EXCEPT !.col = call.col]
  /\ Goto(IF AfterColumn(call.col) = "pos" THEN "row" ELSE "newline")
  /\ Silent

CarriageReturn ==
  /\ At("return")
  /\ t' = [t EXCEPT !.col = 0]
  /\ call' = [call EXCEPT !.pc = "row", !.col = 0]
  /\ Silent

(* vga_newline *)
NewlineCol ==
  /\ At("newline")
  /\ t' = [t EXCEPT !.col = 0]
  /\ Goto("newline_load")
  /\ Silent

NewlineLoad ==
  /\ At("newline_load")
  /\ call' = [call EXCEPT !.pc = "newline_row", !.row = t.row + 1]
  /\ UNCHANGED t /\ Silent

NewlineRow ==
  /\ At("newline_row")
  /\ t' = [t EXCEPT !.row = call.row]
  /\ Goto(IF call.row >= VGA_HEIGHT THEN "scroll" ELSE "reload")
  /\ Silent

(* The loops of vga_scroll, in one step. *)
Scroll ==
  /\ At("scroll")
  /\ t' = vga_scroll(t)
  /\ Goto("last_row")
  /\ Silent

LastRow ==
  /\ At("last_row")
  /\ t' = [t EXCEPT !.row = VGA_HEIGHT - 1]
  /\ Goto("reload")
  /\ Silent

(* vga_update_cursor: the registers, or row and column read again. *)
ReadRow ==
  /\ At("row") \/ At("reload")
  /\ call' = [call EXCEPT !.row = t.row, !.pc = IF @ = "row" THEN "pos" ELSE "col"]
  /\ UNCHANGED t /\ Silent

ReadCol ==
  /\ At("col")
  /\ call' = [call EXCEPT !.col = t.col, !.pc = "pos"]
  /\ UNCHANGED t /\ Silent

SelectLow ==
  /\ At("pos")
  /\ t' = [t EXCEPT !.index = "lo"]
  /\ call' = [call EXCEPT !.pc = "low", !.pos = Position(call.row, call.col)]
  /\ Silent

(* A write to the data port goes to the register selected last. *)
WriteData(value) == t' = [t EXCEPT ![t.index] = value]

PutLow ==
  /\ At("low")
  /\ WriteData(call.pos % BYTE)
  /\ Goto("select_high") /\ Silent

SelectHigh ==
  /\ At("select_high")
  /\ t' = [t EXCEPT !.index = "hi"]
  /\ Goto("high") /\ Silent

(* Mutant: the high byte of the position is not written. *)
PutHigh_Forgotten == At("high") /\ call' = Idle /\ UNCHANGED t /\ Silent

PutHigh ==
  /\ At("high")
  /\ WriteData(call.pos \div BYTE)
  /\ call' = Idle /\ Silent

(* An interrupt without a handler prints its line. *)
IrqDiagnostic ==
  /\ t' = vga_puts(t, Append(Diagnostic, "NL"))
  /\ hit' = ~At("idle")
  /\ spoiled' = (spoiled \/ ~At("idle"))
  /\ paper' = IF spoiled' THEN Fresh(paper.ground)
              ELSE TypeText(paper, Append(Diagnostic, "NL"), t.color)
  /\ UNCHANGED call

VgaNext ==
  \/ \E color \in Colors : vga_set_color(color)
  \/ \E c \in Glyphs \cup Controls : Enter(c)
  \/ LoadRow \/ LoadCol \/ StepBack \/ Emit \/ TabLoad \/ TabStore
  \/ CarriageReturn \/ NewlineCol \/ NewlineLoad \/ NewlineRow
  \/ Scroll \/ LastRow \/ ReadRow \/ ReadCol
  \/ SelectLow \/ PutLow \/ SelectHigh \/ PutHigh
  \/ IrqDiagnostic

VgaSpec == VgaInit /\ [][VgaNext]_vgaVars

-----------------------------------------------------------------------------
(* Until a diagnostic has broken into the middle of a call, the flat buffer *)
(* shows what a printer would: wrap, scroll, tabs and backspace at the line *)
(* ends included.                                                           *)
ScreenExact ==
  (~spoiled /\ At("idle")) =>
    /\ Screen(t) = Sheet(paper)
    /\ t.row + 1 = Len(paper.lines) /\ t.col = paper.col

(* "Here vga_col is back in its legal range" (vga.c): between calls row and *)
(* column are on the screen, whichever diagnostics came at whichever        *)
(* instruction; during a call a character may go one line below, no further.*)
TerminalRecovers ==
  /\ At("idle") => t.row \in 0 .. VGA_HEIGHT - 1 /\ t.col \in 0 .. VGA_WIDTH - 1
  /\ Position(t.row, t.col) \in Visible \cup Below
  /\ At("emit") => Position(call.row, call.col) \in Visible \cup Below

(* A cursor that a diagnostic has upset is right again after the next       *)
(* output that is left alone.                                               *)
CursorHeals == (At("idle") /\ ~hit) => Cursor(t) = Position(t.row, t.col)

(* "The hardware cursor always stands at the next position to be written":  *)
(* whenever no output is in progress.                                       *)
CursorFollows == At("idle") => Cursor(t) = Position(t.row, t.col)
=============================================================================
