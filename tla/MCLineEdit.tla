----------------------------- MODULE MCLineEdit -----------------------------
(***************************************************************************)
(* LineEdit with small constants for TLC.  The view drops what no step     *)
(* reads: the cells above the line, how often the screen has scrolled,     *)
(* lines of the past the history has dropped, a draft that is typed anew,  *)
(* and the line that was left.                                             *)
(***************************************************************************)
EXTENDS LineEdit

FileNames == << <<"a", "b">>, <<"a", "a", "b">> >>
RunLines == {<<>>, <<"a">>, <<"a", "a">>, <<"a", "a", "b">>}
Ahead == {<<>>, <<"a">>}

CellsFrom(linear) ==
    [i \in (IF linear < 0 THEN 0 ELSE linear) .. TERM_WIDTH * TERM_HEIGHT - 1 |->
        Cell(i)]

(* where the line starts on the screen; -1 when it will start anew below *)
Placed == phase = "drawn" \/ (phase = "key" /\ ~ Moved)
Start ==
    IF ~ Placed THEN -1
    ELSE IF editor.dumb THEN Linear - Len(editor.buf)
    ELSE StartRow(Es) * TERM_WIDTH + editor.start.column

Smaller(a, b) == IF a < b THEN a ELSE b

View ==
    <<phase, editor.dumb, Placed, Start, Linear,
      CellsFrom((IF Placed THEN Start ELSE Linear) - 1),
      IF phase = "run" THEN <<>>
      ELSE <<editor.buf, editor.cursor, history_pos - history_count,
             IF history_pos = history_count THEN EMPTY ELSE draft,
             editor.dumb /\ disturbed>>,
      Smaller(history_count, HISTORY_SIZE + 1), typed_ahead,
      [i \in 1 .. Smaller(history_count, HISTORY_SIZE) |->
          history[(history_count - i) % HISTORY_SIZE]]>>
=============================================================================
