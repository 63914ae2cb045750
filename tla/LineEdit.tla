------------------------------ MODULE LineEdit ------------------------------
(***************************************************************************)
(* The line editor of the shell (user/shline.c) with its history and       *)
(* completion, on the terminal it draws to: the text screen, where it      *)
(* moves the cursor and redraws, or a window of the desktop, which takes   *)
(* a stream of characters (dumb).  Programs in the background print to the *)
(* same terminal.                                                          *)
(*                                                                         *)
(* e = [buf, cursor, start, last, dumb] is struct editor; the terminal t   *)
(* it draws to goes with it, as es = [t, e].                               *)
(***************************************************************************)
EXTENDS Terminal, FiniteSets, FiniteSetsExt

CONSTANTS
    SH_LINE_MAX,     \* size of a line's buffer, one is for the end
    HISTORY_SIZE,
    Chars,           \* characters that can be typed
    Names,           \* what completion finds, in the directory's order
    TypedAhead,      \* what sh -t may start the first line with
    Dumb,            \* which of TRUE, FALSE stdin may be
    Lines,           \* bound: the lines that enter is pressed on
    DeletesLast,     \* TRUE: delete is also pressed on the last character
    Racy             \* TRUE: a program prints while a key is handled too

ASSUME LineAssumption ==
    /\ SH_LINE_MAX \in Nat \ {0} /\ HISTORY_SIZE \in Nat \ {0}
    \* prompt and line fit on the screen wherever in a row the prompt starts
    \* (at most 208 of 2000 cells)
    /\ TERM_WIDTH + SH_LINE_MAX < TERM_WIDTH * TERM_HEIGHT

VARIABLES
    term,            \* the terminal
    editor,          \* struct editor
    phase,           \* "key", "drawn", "run" or "exited"
    history, history_count,   \* the ring and the lines ever added
    history_pos,     \* the line shown, history_count for the one typed
    draft,           \* what was typed before leafing through the history
    typed_ahead,
    past,            \* ghost: the lines added to the history, in order
    disturbed        \* ghost: a program printed since the prompt

vars == <<term, editor, phase, history, history_count, history_pos, draft,
          typed_ahead, past, disturbed>>

Prompt == <<"$">>
EMPTY == <<>>

-----------------------------------------------------------------------------
(* Drawing *)

Type(es, text) == [es EXCEPT !.t = term_write(@, text)]

editor_start_here(es) == [es EXCEPT !.e.start = getcursor(es.t)]

(* the row of the line's start, were nothing scrolled since *)
StartRow(es) == es.e.start.row - (es.t.scrolls - es.e.start.scrolls)

MoveTo(es, linear) ==
    LET row == StartRow(es) + linear \div TERM_WIDTH
    IN  [es EXCEPT !.t = setcursor(@, IF row < 0 THEN 0 ELSE row,
                                   linear % TERM_WIDTH)]

editor_move(es, idx) ==
    IF es.e.dumb THEN es ELSE MoveTo(es, es.e.start.column + idx)

Blanks(n) == [i \in 1 .. n |-> " "]

(* the characters from number from on, and blanks over what got shorter *)
editor_redraw(es, from, old_len) ==
    editor_move(Type(editor_move(es, from),
                     SubSeq(es.e.buf, from + 1, Len(es.e.buf))
                         \o Blanks(IF old_len > Len(es.e.buf)
                                   THEN old_len - Len(es.e.buf) ELSE 0)),
                es.e.cursor)

(* typing at the end needs no redraw *)
DrawInserted(es, c) ==
    IF es.e.cursor = Len(es.e.buf) THEN Type(es, <<c>>)
    ELSE editor_redraw(es, es.e.cursor - 1, Len(es.e.buf))

editor_insert(es, c) ==
    IF Len(es.e.buf) >= SH_LINE_MAX - 1 THEN es
    ELSE DrawInserted([es EXCEPT !.e.buf = InsertAt(@, es.e.cursor + 1, c),
                                 !.e.cursor = @ + 1], c)

(* Mutant of DrawRemoved: the last character stays on the screen *)
DrawRemovedShort(es, idx) ==
    IF idx = Len(es.e.buf) /\ es.e.cursor = idx THEN Type(es, <<"BS">>)
    ELSE editor_redraw(es, idx, Len(es.e.buf))

DrawRemoved(es, idx) ==
    IF idx = Len(es.e.buf) /\ es.e.cursor = idx THEN Type(es, <<"BS">>)
    ELSE editor_redraw(es, idx, Len(es.e.buf) + 1)

(* removes character number idx *)
editor_remove(es, idx) ==
    DrawRemoved([es EXCEPT !.e.buf = RemoveAt(@, idx + 1),
                           !.e.cursor = IF @ > idx THEN @ - 1 ELSE @], idx)

SetText(es, text) == [es EXCEPT !.e.buf = text, !.e.cursor = Len(text)]

(* a window erases the old line and types the new one *)
editor_set_line(es, text) ==
    IF es.e.dumb
    THEN Type(SetText(es, text), [i \in 1 .. Len(es.e.buf) |-> "BS"] \o text)
    ELSE editor_redraw(SetText(es, text), 0, Len(es.e.buf))

-----------------------------------------------------------------------------
(* Completion *)

WordStart(e) ==
    LET blanks == {i \in 1 .. e.cursor : e.buf[i] = " "}
    IN  IF blanks = {} THEN 0 ELSE Max(blanks)

sh_complete(word) == SelectSeq(Names, LAMBDA name : IsPrefix(word, name))

(* the longest prefix every match has *)
Common(matches) == LongestCommonPrefix(ToSet(matches))

Insert(es, text) == FoldLeft(editor_insert, es, text)

Listing(matches) ==
    FoldLeft(LAMBDA text, name : text \o name \o <<" ", " ">>, EMPTY, matches)

Restart(es) == editor_redraw(editor_start_here(Type(es, Prompt)), 0, 0)

(* adds what all matches share and a blank behind a single one; if they    *)
(* share nothing more and are several, lists them and starts the line      *)
(* again below                                                             *)
CompleteWith(es, matches, typed) ==
    IF matches = EMPTY THEN es
    ELSE IF Len(Common(matches)) > typed
    THEN Insert(es, SubSeq(Common(matches), typed + 1, Len(Common(matches)))
                        \o (IF Len(matches) = 1 THEN <<" ">> ELSE EMPTY))
    ELSE IF Len(matches) = 1 THEN es
    ELSE Restart(Type(editor_move(es, Len(es.e.buf)),
                      <<"\n">> \o Listing(matches) \o <<"\n">>))

editor_complete(es) ==
    LET word_start == WordStart(es.e)
    IN  CompleteWith(es, sh_complete(SubSeq(es.e.buf, word_start + 1, es.e.cursor)),
                     es.e.cursor - word_start)
-----------------------------------------------------------------------------
(* History *)

(* Mutant of HistoryOldest: as if the ring never wrapped *)
HistoryOldestFirst(count) == 0

HistoryOldest(count) == IF count > HISTORY_SIZE THEN count - HISTORY_SIZE ELSE 0

(* an empty line and a repeated one are not added *)
Adds(line) ==
    /\ line # EMPTY
    /\ history_count > 0 => history[(history_count - 1) % HISTORY_SIZE] # line

history_add(line) ==
    IF Adds(line)
    THEN /\ history' = [history EXCEPT ![history_count % HISTORY_SIZE] = line]
         /\ history_count' = history_count + 1
         /\ past' = Append(past, line)
    ELSE UNCHANGED <<history, history_count, past>>

-----------------------------------------------------------------------------
(* The shell *)

Es == [t |-> term, e |-> editor]

Init ==
    /\ term = term_clear
    /\ editor \in [buf : {EMPTY}, cursor : {0}, start : {getcursor(term_clear)},
                   last : {getcursor(term_clear)}, dumb : Dumb]
    /\ phase = "run"
    /\ history = [i \in 0 .. HISTORY_SIZE - 1 |-> EMPTY]
    /\ history_count = 0 /\ history_pos = 0
    /\ draft = EMPTY
    /\ typed_ahead \in TypedAhead
    /\ past = <<>>
    /\ disturbed = FALSE

(* after the prompt and after every key: where the cursor was left *)
Remember(es) == [es.e EXCEPT !.last = getcursor(es.t)]

Shown(es) == term' = es.t /\ editor' = Remember(es)

(* a command is done: the prompt and the start of sh_readline *)
NewLine ==
    /\ phase = "run"
    /\ Shown(Insert(editor_start_here([t |-> term_write(term, Prompt),
                                       e |-> [editor EXCEPT !.buf = EMPTY,
                                                            !.cursor = 0]]),
                    typed_ahead))
    /\ phase' = "key"
    /\ history_pos' = history_count
    /\ draft' = EMPTY /\ typed_ahead' = EMPTY
    /\ disturbed' = FALSE
    /\ UNCHANGED <<history, history_count, past>>

(* somebody printed since the editor left the cursor: start again below *)
Below(es) == IF es.t.column # 0 THEN Type(es, <<"\n">>) ELSE es

Moved == ~ editor.dumb /\ getcursor(term) # editor.last

Here == IF Moved THEN Restart(Below(Es)) ELSE Es

(* what a key does to line and screen; getcursor(&e.last) comes after it   *)
Drawn(es) ==
    /\ phase = "key"
    /\ term' = es.t /\ editor' = es.e
    /\ phase' = "drawn"
    /\ disturbed' = (disturbed /\ editor.dumb)
    /\ UNCHANGED <<history, history_count, typed_ahead, past>>

Edited(es) == Drawn(es) /\ UNCHANGED <<history_pos, draft>>

Typed(c) == Edited(editor_insert(Here, c))

Backspace ==
    Edited(IF editor.cursor > 0 THEN editor_remove(Here, editor.cursor - 1)
           ELSE Here)

(* On the last character of the line editor_remove takes the way of        *)
(* backspace and erases the one before it: see the README                  *)
Delete ==
    /\ editor.cursor = Len(editor.buf) - 1 => DeletesLast
    /\ Edited(IF editor.cursor < Len(editor.buf) /\ ~ editor.dumb
              THEN editor_remove(Here, editor.cursor) ELSE Here)

PutCursor(es, idx) == editor_move([es EXCEPT !.e.cursor = idx], idx)

(* left, right and home do nothing in a window *)
Arrow(idx) ==
    Edited(IF idx \in 0 .. Len(editor.buf) /\ ~ editor.dumb
           THEN PutCursor(Here, idx) ELSE Here)

End == Edited(PutCursor(Here, Len(editor.buf)))

Tab == Edited(editor_complete(Here))

Up ==
    IF history_pos > HistoryOldest(history_count)
    THEN /\ history_pos' = history_pos - 1
         /\ draft' = IF history_pos = history_count THEN editor.buf ELSE draft
         /\ Drawn(editor_set_line(Here, history[history_pos' % HISTORY_SIZE]))
    ELSE Edited(Here)

Down ==
    IF history_pos < history_count
    THEN /\ history_pos' = history_pos + 1
         /\ Drawn(editor_set_line(Here,
                      IF history_pos' = history_count THEN draft
                      ELSE history[history_pos' % HISTORY_SIZE]))
         /\ UNCHANGED draft
    ELSE Edited(Here)

Other == Edited(Here)

KeyDone ==
    /\ phase = "drawn"
    /\ editor' = Remember(Es)
    /\ phase' = "key"
    /\ UNCHANGED <<term, history, history_count, history_pos, draft,
                   typed_ahead, past, disturbed>>

(* the cursor goes behind the line, whatever is printed next follows it *)
Leave(text) ==
    /\ phase = "key"
    /\ term' = Type(editor_move(Here, Len(editor.buf)), text).t
    /\ editor' = Here.e
    /\ phase' = "run"
    /\ UNCHANGED <<history_pos, draft, typed_ahead, disturbed>>

Enter ==
    editor.buf \in Lines /\ Leave(<<"\n">>) /\ history_add(editor.buf)

CtrlC == Leave(<<"^", "C", "\n">>) /\ UNCHANGED <<history, history_count, past>>

(* the window was closed *)
InputEnds ==
    /\ phase = "key" /\ editor.dumb
    /\ phase' = "exited"
    /\ UNCHANGED <<term, editor, history, history_count, history_pos, draft,
                   typed_ahead, past, disturbed>>

(* a command that runs, or a program in the background, prints *)
Output(c) ==
    /\ phase \in {"key", "run"} \/ (Racy /\ phase = "drawn")
    /\ term' = putchar(term, c)
    /\ disturbed' = (phase # "run")
    /\ UNCHANGED <<editor, phase, history, history_count, history_pos, draft,
                   typed_ahead, past>>

Next ==
    \/ NewLine \/ KeyDone \/ InputEnds
    \/ \E c \in Chars : Typed(c)
    \/ Backspace \/ Delete \/ End \/ Tab \/ Up \/ Down \/ Other
    \/ \E idx \in {editor.cursor - 1, editor.cursor + 1, 0} : Arrow(idx)
    \/ Enter \/ CtrlC
    \/ \E c \in {"x", "\n"} : Output(c)

Spec == Init /\ [][Next]_vars

-----------------------------------------------------------------------------
(* Properties *)

Linear == term.row * TERM_WIDTH + term.column

Cell(linear) == term.cells[linear \div TERM_WIDTH][linear % TERM_WIDTH]

(* where on the screen the line starts, going back from the cursor *)
LineAt == Linear - editor.cursor

(* While the editor waits for a key, and nobody printed since it drew, the *)
(* terminal shows the prompt, the line as it will be run, the cursor at    *)
(* its place in it and nothing behind it: however the line was edited,     *)
(* wrapped, scrolled, recalled or completed (editor_move, editor_redraw,   *)
(* terminal_scroll).                                                       *)
LineShown ==
    phase = "key" /\ ~ Moved /\ ~ (editor.dumb /\ disturbed) =>
        /\ LineAt > 0 /\ Cell(LineAt - 1) = "$"
        /\ \A i \in 1 .. Len(editor.buf) : Cell(LineAt + i - 1) = editor.buf[i]
        /\ \A i \in LineAt + Len(editor.buf) .. TERM_WIDTH * TERM_HEIGHT - 1 :
               Cell(i) = " "

(* Leafing through the history shows the lines that were run, the newest   *)
(* first, never one the ring has dropped, and ends at what was being typed *)
(* (history_add, HISTORY_SIZE, draft).                                     *)
HistoryLeafed ==
    [][(history_pos' # history_pos /\ phase = "key") =>
           \/ history_pos' = history_count /\ editor'.buf = draft
           \/ history_pos' < history_count
                  /\ editor'.buf = past[Len(past) - (history_count - history_pos') + 1]]_vars
=============================================================================
