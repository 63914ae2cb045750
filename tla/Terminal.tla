------------------------------ MODULE Terminal ------------------------------
(***************************************************************************)
(* The text screen (drivers/screen/terminal.c) and the grid of a shell     *)
(* window of the desktop (user/deskterm.c): rows of cells, a cursor, and   *)
(* for the text screen the number of rows scrolled off so far.  A terminal *)
(* is [cells, row, column, scrolls]; colours, tabs and the copy on the     *)
(* serial port are left out.                                               *)
(***************************************************************************)
EXTENDS Integers, Sequences, SequencesExt

CONSTANTS
    TERM_WIDTH,
    TERM_HEIGHT

ASSUME TerminalAssumption == TERM_WIDTH \in Nat \ {0} /\ TERM_HEIGHT \in Nat \ {0}

Rows == 0 .. TERM_HEIGHT - 1
Columns == 0 .. TERM_WIDTH - 1
BlankRow == [c \in Columns |-> " "]

term_clear == [cells |-> [r \in Rows |-> BlankRow], row |-> 0, column |-> 0,
               scrolls |-> 0]

(* every row moves up and the last one is cleared *)
terminal_scroll(t) ==
    [t EXCEPT !.cells = [r \in Rows |-> IF r = TERM_HEIGHT - 1 THEN BlankRow
                                        ELSE t.cells[r + 1]],
              !.scrolls = @ + 1]

terminal_newline(t) ==
    IF t.row = TERM_HEIGHT - 1 THEN terminal_scroll([t EXCEPT !.column = 0])
    ELSE [t EXCEPT !.column = 0, !.row = @ + 1]

Put(t, c) == [t EXCEPT !.cells[t.row][t.column] = c]

(* \b, "BS" here, goes back, onto the row above too, and erases *)
StepBack(t) ==
    CASE t.column > 0 -> [t EXCEPT !.column = @ - 1]
      [] t.column = 0 /\ t.row > 0 ->
             [t EXCEPT !.row = @ - 1, !.column = TERM_WIDTH - 1]
      [] OTHER -> t

Advance(t) ==
    IF t.column = TERM_WIDTH - 1 THEN terminal_newline(t)
    ELSE [t EXCEPT !.column = @ + 1]

putchar(t, c) ==
    CASE c = "\n" -> terminal_newline(t)
      [] c = "BS" -> Put(StepBack(t), " ")
      [] OTHER -> Advance(Put(t, c))

term_write(t, data) == FoldLeft(putchar, t, data)

(* sys_setcursor: a position off the screen is an error *)
setcursor(t, row, column) ==
    IF row \in Rows /\ column \in Columns
    THEN [t EXCEPT !.row = row, !.column = column]
    ELSE t

getcursor(t) == [row |-> t.row, column |-> t.column, scrolls |-> t.scrolls]
=============================================================================
