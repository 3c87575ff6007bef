------------------------------- MODULE Screen -------------------------------
(***************************************************************************)
(* The text screen of kernel/screen.c: putch writes at the cursor, wraps   *)
(* at the right edge and scrolls at the bottom.  Keyboard writes to it; no *)
(* other callers of cls and settextcolor are left but init_video.          *)
(***************************************************************************)
EXTENDS Naturals, FiniteSets

CONSTANTS Width, Height,  \* 80 and 25
          TabStop,        \* 8
          Printable,      \* characters not below ' '
          Blank,          \* ' ' in the current colour
          PaperRows       \* bound: rows of the paper

ASSUME SizeAssumption ==
  /\ Width \in Nat \ {0} /\ Height \in Nat \ {0} /\ TabStop \in Nat \ {0}
  /\ Width % TabStop = 0
ASSUME BlankAssumption == Blank \in Printable

Controls == {"backspace", "tab", "return", "newline", "other"}
Chars    == Printable \cup Controls

ASSUME ControlAssumption == Printable \cap Controls = {}

Columns  == 0 .. Width - 1
Rows     == 0 .. Height - 1
BlankRow == [x \in Columns |-> Blank]

-----------------------------------------------------------------------------
(* Operations on a screen: [x, y, cells]                                     *)

\* cls
Cleared == [x |-> 0, y |-> 0, cells |-> [r \in Rows |-> BlankRow]]

\* the edge of the screen's width
Wrap(s) == IF s.x >= Width THEN [s EXCEPT !.x = 0, !.y = @ + 1] ELSE s

\* mutant: the last line is not blanked
scrollKeepsLastLine(s) ==
  IF s.y < Height THEN s
  ELSE LET temp == s.y - Height + 1
       IN  [s EXCEPT !.cells = [r \in Rows |-> IF r < Height - temp THEN s.cells[r + temp]
                                               ELSE s.cells[r]],
                     !.y = Height - 1]

\* The rows move up by temp; memsetw blanks the one row below them.
scroll(s) ==
  IF s.y < Height THEN s
  ELSE LET temp == s.y - Height + 1
       IN  [s EXCEPT !.cells = [r \in Rows |-> IF r < Height - temp THEN s.cells[r + temp]
                                               ELSE IF r = Height - temp THEN BlankRow
                                               ELSE s.cells[r]],
                     !.y = Height - 1]

NextTab(x) == ((x + TabStop) \div TabStop) * TabStop

\* What a character does before the edges are looked at.
Place(s, c) ==
  CASE c = "backspace"  -> [s EXCEPT !.x = IF @ # 0 THEN @ - 1 ELSE @]
    [] c = "tab"        -> [s EXCEPT !.x = NextTab(@)]
    [] c = "return"     -> [s EXCEPT !.x = 0]
    [] c = "newline"    -> [s EXCEPT !.x = 0, !.y = @ + 1]
    [] c \in Printable  -> [s EXCEPT !.cells[s.y][s.x] = c, !.x = @ + 1]
    [] OTHER            -> s

putch(s, c) == scroll(Wrap(Place(s, c)))

-----------------------------------------------------------------------------
(* A sheet of paper of PaperRows rows, on which the same characters are typed.
   It never scrolls.                                                         *)

BlankPaper == [Cleared EXCEPT !.cells = [r \in 0 .. PaperRows - 1 |-> BlankRow]]

Typed(paper, c) == Wrap(Place(paper, c))

\* rows of the paper that have scrolled off the top
Gone(paper) == IF paper.y < Height THEN 0 ELSE paper.y - Height + 1

Shows(screen, paper) ==
  /\ screen.x = paper.x
  /\ screen.y + Gone(paper) = paper.y
  /\ \A r \in Rows :
       r + Gone(paper) < PaperRows => screen.cells[r] = paper.cells[r + Gone(paper)]

=============================================================================
