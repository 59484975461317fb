-------------------------------- MODULE Vga ---------------------------------
(***************************************************************************)
(* The text display, devices/vga.c, as operators on a record of its        *)
(* characters and cursor: every call has interrupts off, except while the  *)
(* speaker beeps.  Colours are left out.                                   *)
(***************************************************************************)
EXTENDS Integers, Sequences, SequencesExt

CONSTANTS
  ROW_CNT, COL_CNT,  \* the display's size
  TAB                \* columns between tab stops, 8 in the code

BlankRow == [x \in 0 .. COL_CNT - 1 |-> " "]

newline(s) ==
  IF s.cy + 1 < ROW_CNT THEN [s EXCEPT !.cx = 0, !.cy = @ + 1]
  ELSE [s EXCEPT !.cx = 0,
                 !.fb = [y \in 0 .. ROW_CNT - 1 |->
                           IF y < ROW_CNT - 1 THEN s.fb[y + 1] ELSE BlankRow]]

cls(s) == [fb |-> [y \in 0 .. ROW_CNT - 1 |-> BlankRow], cx |-> 0, cy |-> 0]

\* A column past the last one is the start of the next line.
Column(s, x) == IF x >= COL_CNT THEN newline(s) ELSE [s EXCEPT !.cx = x]

\* The bell changes nothing here.
vga_putc(s, c) ==
  CASE c = "\n" -> newline(s)
    [] c = "\f" -> cls(s)
    [] c = "bs" -> [s EXCEPT !.cx = IF @ > 0 THEN @ - 1 ELSE @]
    [] c = "\r" -> [s EXCEPT !.cx = 0]
    [] c = "\t" -> Column(s, ((s.cx + TAB) \div TAB) * TAB)
    [] c = "bell" -> s
    [] OTHER -> Column([s EXCEPT !.fb[s.cy][s.cx] = c], s.cx + 1)
-----------------------------------------------------------------------------
\* The text on paper of any length: rows, and the cursor's column and row.
OnPaper(p, c) ==
  LET Fresh(q) == IF q.y \in DOMAIN q.rows THEN q
                  ELSE [q EXCEPT !.rows = Append(@, BlankRow)]
      Advance(q, x) == IF x < COL_CNT THEN [q EXCEPT !.x = x]
                       ELSE Fresh([q EXCEPT !.x = 0, !.y = @ + 1])
  IN CASE c = "\n" -> Advance(p, COL_CNT)
       [] c = "\f" -> [rows |-> [y \in 1 .. ROW_CNT |-> BlankRow], x |-> 0, y |-> 1]
       [] c = "bs" -> Advance(p, IF p.x = 0 THEN 0 ELSE p.x - 1)
       [] c = "\r" -> Advance(p, 0)
       [] c = "\t" -> Advance(p, CHOOSE x \in p.x + 1 .. p.x + TAB : x % TAB = 0)
       [] c = "bell" -> p
       [] OTHER -> Advance([p EXCEPT !.rows[p.y][p.x] = c], p.x + 1)

\* The display shows the end of the paper, whatever was printed from whatever
\* place the boot loader's cursor, which find_cursor() takes over, was at.
ShowsTheEnd(x, y, text) ==
  LET old == [i \in 0 .. COL_CNT - 1 |-> "old"]
      s == FoldLeft(vga_putc, [fb |-> [i \in 0 .. ROW_CNT - 1 |-> old], cx |-> x, cy |-> y], text)
      p == FoldLeft(OnPaper, [rows |-> [i \in 1 .. ROW_CNT |-> old], x |-> x, y |-> y + 1], text)
      off == Len(p.rows) - ROW_CNT
  IN /\ s.cx = p.x /\ s.cy = p.y - 1 - off
     /\ \A i \in 0 .. ROW_CNT - 1 : s.fb[i] = p.rows[off + i + 1]
=============================================================================
