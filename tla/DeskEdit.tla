------------------------------ MODULE DeskEdit ------------------------------
(***************************************************************************)
(* The text window of the desktop: the editor of user/deskedit.c with vim's*)
(* modes, and the part of user/desk.c that loads, saves and closes it.     *)
(*                                                                         *)
(* An editor is a record, as struct editor is in the source; offsets count *)
(* from 0 and Char(e, p) is the char at offset p.  The status line, the    *)
(* pixels and the spelling of the command line are left out.               *)
(***************************************************************************)
EXTENDS Integers, Sequences, FiniteSetsExt

CONSTANTS
    EDIT_MAX,      \* chars the buffer holds
    Chars,         \* printable chars
    TypedChars,    \* the ones that are typed
    Files,         \* what the file may hold when it is opened
    OtherRegs,     \* what another window has put into the register
    ClickModes,    \* modes in which the mouse is clicked
    MaxCount,      \* bound: digits are typed while the count is at most this
    MaxChanges     \* bound: saves and keys that make a new text; a count
                   \* or an operator is begun while one is left

NL == "\n"
TAB == "\t"
SPACE == " "
NoKey == ""     \* no key is pending
TextChars == Chars \cup {NL}

(* what an editor may have put into the register                           *)
Registers == {r \in [text : Seq(TextChars), lines : BOOLEAN] :
                  Len(r.text) <= EDIT_MAX}

ASSUME EditorAssumption ==
    /\ EDIT_MAX \in Nat \ {0} /\ MaxChanges \in Nat
    /\ SPACE \in Chars /\ TypedChars \subseteq Chars
    /\ \A data \in Files : data \in Seq({data[i] : i \in DOMAIN data})
    /\ \A r \in OtherRegs : r \in Registers

VARIABLES
    ed,        \* struct editor of the window
    reg,       \* the register all windows share: text and whether it is lines
    file,      \* the file on the disk
    window,    \* "closed", "open", "asking" (the discard alert is up)
    before,    \* history: the text before the last change
    begun,     \* history: the text this command or insertion began with
    idle,      \* history: since the last change a command or insertion that
               \* copies the text at once has come to nothing
    failed,    \* history: the last save failed
    changes    \* history: bounds the run

vars == <<ed, reg, file, window, before, begun, idle, failed, changes>>

Closed == [text |-> <<>>, mode |-> "normal", modified |-> FALSE, cursor |-> 0,
           column |-> 0, count |-> 0, pending |-> NoKey, undo |-> <<>>,
           undo_cursor |-> 0, has_undo |-> FALSE]

-----------------------------------------------------------------------------
(* Lines *)

Char(e, p) == e.text[p + 1]
Length(e) == Len(e.text)

StartsLine(e, p) == p = 0 \/ Char(e, p - 1) = NL
EndsLine(e, p) == p = Length(e) \/ Char(e, p) = NL

line_start(e, pos) == Max({p \in 0..pos : StartsLine(e, p)})
line_end(e, pos) == Min({p \in pos..Length(e) : EndsLine(e, p)})

edit_line_count(e) == 1 + Cardinality({p \in 1..Length(e) : e.text[p] = NL})
edit_cursor_line(e) == Cardinality({p \in 1..e.cursor : e.text[p] = NL})

(* the first char of line n, or of the last line *)
line_pos(e, n) ==
    Max({p \in 0..Length(e) :
           /\ StartsLine(e, p)
           /\ Cardinality({q \in 1..p : e.text[q] = NL}) <= n})

first_nonblank(e, pos) ==
    Min({p \in line_start(e, pos)..Length(e) :
           p = Length(e) \/ Char(e, p) # SPACE})

-----------------------------------------------------------------------------
(* The cursor *)

Least(a, b) == IF a < b THEN a ELSE b
Most(a, b) == IF a > b THEN a ELSE b

OnLineEnd(e) ==
    /\ e.cursor > line_start(e, e.cursor)
    /\ e.cursor = line_end(e, e.cursor)

(* mutant: the cursor may stay on the end of a line *)
clamp_to_text(e) == [e EXCEPT !.cursor = Least(Most(@, 0), Length(e))]

clamp_cursor(e0) ==
    LET e == [e0 EXCEPT !.cursor = Least(Most(@, 0), Length(e0))]
    IN  IF e.mode = "normal" /\ OnLineEnd(e)
        THEN [e EXCEPT !.cursor = @ - 1] ELSE e

set_column(e) ==
    [e EXCEPT !.column = e.cursor - line_start(e, e.cursor)]

At(e, pos) == [e EXCEPT !.cursor = pos]

move_lines(e, delta) ==
    LET start == line_pos(e, Most(edit_cursor_line(e) + delta, 0))
    IN  clamp_cursor(At(e, Least(start + e.column, line_end(e, start))))

goto_line(e, line) ==
    set_column(clamp_cursor(At(e, first_nonblank(e, line_pos(e, line)))))

char_class(c) == CASE c \in {SPACE, NL} -> 0 [] c = "a" -> 1 [] OTHER -> 2

Class(e, p) == char_class(Char(e, p))
LastChar(e) == Most(Length(e) - 1, 0)

(* the first offset from pos on that is not in class c, or the end *)
RunEnd(e, pos, c) ==
    IF pos >= Length(e) THEN pos
    ELSE Min({p \in pos..Length(e) : p = Length(e) \/ Class(e, p) # c})

word_forward(e) ==
    LET c == IF e.cursor < Length(e) THEN Class(e, e.cursor) ELSE 0
        word == IF c = 0 THEN e.cursor ELSE RunEnd(e, e.cursor, c)
    IN  At(e, Least(RunEnd(e, word, 0), LastChar(e)))

word_back(e) ==
    LET word == Max({p \in 0..Most(e.cursor - 1, 0) :
                       p = 0 \/ Class(e, p) # 0})
        first == Max({p \in 0..word :
                        p = 0 \/ Class(e, p - 1) # Class(e, word)})
    IN  At(e, first)

word_end(e) ==
    LET word == RunEnd(e, e.cursor + 1, 0)
        last == IF word >= Length(e) - 1 THEN word
                ELSE RunEnd(e, word, Class(e, word)) - 1
    IN  At(e, Least(last, LastChar(e)))

(* n words, one after the other *)
Words(e, key, n) ==
    LET after[i \in 0..n] ==
          IF i = 0 THEN e
          ELSE CASE key = "w"  -> word_forward(after[i - 1])
                 [] key = "b"  -> word_back(after[i - 1])
                 [] OTHER      -> word_end(after[i - 1])
    IN  after[n]

Motions == {"h", "LEFT", "l", "RIGHT", "j", "DOWN", "k", "UP", "PAGE_DOWN",
            "PAGE_UP", "0", "HOME", "^", "$", "END", "w", "b", "e"}

motion(e, key, n) ==
    CASE key \in {"h", "LEFT"} ->
           set_column(At(e, Most(e.cursor - n, line_start(e, e.cursor))))
      [] key \in {"l", "RIGHT"} ->
           set_column(clamp_cursor(
             At(e, Least(e.cursor + n, line_end(e, e.cursor)))))
      [] key \in {"j", "DOWN"} -> move_lines(e, n)
      [] key \in {"k", "UP"} -> move_lines(e, -n)
      [] key = "PAGE_DOWN" -> move_lines(e, 20 * n)
      [] key = "PAGE_UP" -> move_lines(e, -20 * n)
      [] key \in {"0", "HOME"} ->
           set_column(At(e, line_start(e, e.cursor)))
      [] key = "^" ->
           set_column(clamp_cursor(At(e, first_nonblank(e, e.cursor))))
      [] key \in {"$", "END"} ->
           LET m == move_lines(e, n - 1)
           IN  [clamp_cursor(At(m, line_end(m, m.cursor)))
                  EXCEPT !.column = EDIT_MAX]
      [] OTHER -> set_column(clamp_cursor(Words(e, key, n)))

-----------------------------------------------------------------------------
(* The text, its undo copy and the register *)

Cut(t, from, to) == SubSeq(t, 1, from) \o SubSeq(t, to + 1, Len(t))
Between(e, from, to) == SubSeq(e.text, from + 1, to)

Fits(e, str) == Length(e) + Len(str) <= EDIT_MAX

insert_text(e, pos, str) ==
    IF Fits(e, str)
    THEN [e EXCEPT !.text = SubSeq(@, 1, pos) \o str
                              \o SubSeq(@, pos + 1, Len(@)),
                   !.modified = TRUE]
    ELSE e

delete_text(e, from, to) ==
    [e EXCEPT !.text = Cut(@, from, to), !.modified = TRUE]

save_undo(e) ==
    [e EXCEPT !.undo = e.text, !.undo_cursor = e.cursor, !.has_undo = TRUE]

(* mutant: the text that comes back counts as saved *)
undo_unmarked(e) ==
    IF e.has_undo
    THEN [e EXCEPT !.text = e.undo, !.cursor = e.undo_cursor,
                   !.undo = e.text, !.undo_cursor = e.cursor]
    ELSE e

undo(e) ==
    IF e.has_undo
    THEN [e EXCEPT !.text = e.undo, !.cursor = e.undo_cursor,
                   !.undo = e.text, !.undo_cursor = e.cursor,
                   !.modified = TRUE]
    ELSE e

yank(e, from, to, lines) == [text |-> Between(e, from, to), lines |-> lines]

(* the end of the n lines from the cursor's on *)
RangeEnd(e, n) ==
    line_end(e, line_pos(e, edit_cursor_line(e) + n - 1))

delete_lines(e, from, to) ==
    LET last == IF to < Length(e) THEN to + 1 ELSE to
        first == IF to < Length(e) \/ from = 0 THEN from ELSE from - 1
    IN  At(delete_text(e, first, last), first)

PutLines(e, r, after) ==
    LET pos == IF after THEN line_end(e, e.cursor)
               ELSE line_start(e, e.cursor)
        at == IF after THEN pos + 1 ELSE pos
        opened == insert_text(save_undo(e), pos, <<NL>>)
    IN  IF ~Fits(e, <<NL>>) \/ ~Fits(opened, r.text) THEN opened
        ELSE LET done == insert_text(opened, at, r.text)
             IN  set_column(clamp_cursor(At(done, first_nonblank(done, at))))

PutChars(e, r, after) ==
    LET pos == IF after /\ e.cursor < line_end(e, e.cursor)
               THEN e.cursor + 1 ELSE e.cursor
    IN  IF ~Fits(e, r.text) THEN save_undo(e)
        ELSE set_column(clamp_cursor(At(insert_text(save_undo(e), pos, r.text),
                                        pos + Len(r.text) - 1)))

put(e, r, after) ==
    CASE r.text = <<>> /\ ~r.lines -> e
      [] r.lines -> PutLines(e, r, after)
      [] OTHER -> PutChars(e, r, after)

-----------------------------------------------------------------------------
(* Operators: d, c or y with a motion; each gives the editor and register *)

Both(e, r) == [ed |-> e, reg |-> r]

OperatorLines(e0, op, key, n) ==
    LET e == IF key = "k" THEN move_lines(e0, -n) ELSE e0
        from == line_start(e, e.cursor)
        to == RangeEnd(e, IF key = op THEN n ELSE n + 1)
        r == yank(e, from, to, TRUE)
        d == delete_lines(save_undo(e), from, to)
        c == At(delete_text(save_undo(e), from, to), from)
    IN  CASE op = "y" -> Both(clamp_cursor(e), r)
          [] op = "d" ->
               Both(set_column(clamp_cursor(
                      At(d, first_nonblank(d, d.cursor)))), r)
          [] OTHER -> Both(set_column([c EXCEPT !.mode = "insert"]), r)

(* how far the operator reaches: w stops at the end of the line, e and $   *)
(* take the char they land on                                              *)
Reach(e, key, end) ==
    CASE key = "w" -> Least(end, line_end(e, e.cursor))
      [] key \in {"e", "$"} /\ end < Length(e) -> end + 1
      [] OTHER -> end

OperatorChars(e, op, key0, n) ==
    LET key == IF op = "c" /\ key0 = "w" THEN "e" ELSE key0
        moved == motion(e, key, n)
        end == Reach(e, key, moved.cursor)
        from == Least(e.cursor, end)
        to == Most(e.cursor, end)
        \* the motion has set the column, the cursor goes back
        back == At(moved, e.cursor)
        r == yank(e, from, to, FALSE)
        cut == At(delete_text(save_undo(back), from, to), from)
    IN  CASE op = "y" -> Both(clamp_cursor(At(back, from)), r)
          [] op = "c" -> Both(set_column(clamp_cursor(
                                [cut EXCEPT !.mode = "insert"])), r)
          [] OTHER -> Both(set_column(clamp_cursor(cut)), r)

operator(e, r, op, key, n) ==
    CASE key \in {op, "j", "k"} -> OperatorLines(e, op, key, n)
      [] key \in Motions \ {"j", "k"} -> OperatorChars(e, op, key, n)
      [] OTHER -> Both(e, r)

-----------------------------------------------------------------------------
(* A key in normal mode *)

DeleteUnder(e, r, n) ==
    LET to == Least(e.cursor + n, line_end(e, e.cursor))
    IN  IF e.cursor = line_end(e, e.cursor) THEN Both(e, r)
        ELSE Both(clamp_cursor(delete_text(save_undo(e), e.cursor, to)),
                  yank(e, e.cursor, to, FALSE))

(* mutant: the copy for u is made when the chars are gone *)
DeleteBeforeLate(e, r, n) ==
    LET from == Most(e.cursor - n, line_start(e, e.cursor))
    IN  IF e.cursor = line_start(e, e.cursor) THEN Both(e, r)
        ELSE Both(set_column(
                    At(save_undo(delete_text(e, from, e.cursor)), from)),
                  yank(e, from, e.cursor, FALSE))

DeleteBefore(e, r, n) ==
    LET from == Most(e.cursor - n, line_start(e, e.cursor))
    IN  IF e.cursor = line_start(e, e.cursor) THEN Both(e, r)
        ELSE Both(set_column(
                    At(delete_text(save_undo(e), from, e.cursor), from)),
                  yank(e, from, e.cursor, FALSE))

(* the next line moves up behind a space, its indent goes *)
JoinOne(e) ==
    LET end == line_end(e, e.cursor)
        next == Min({p \in end + 1..Length(e) :
                       p = Length(e) \/ Char(e, p) # SPACE})
    IN  IF end = Length(e) THEN e
        ELSE At(insert_text(delete_text(e, end, next), end, <<SPACE>>), end)

Join(e, n) ==
    LET start == IF line_end(e, e.cursor) = Length(e) THEN e ELSE save_undo(e)
        joined[i \in 0..n] == IF i = 0 THEN start ELSE JoinOne(joined[i - 1])
    IN  set_column(joined[n])

start_insert(e, pos) == At([save_undo(e) EXCEPT !.mode = "insert"], pos)

(* o and O: a new line at pos, the cursor goes to the offset given *)
NewLine(e, pos, cursor) ==
    IF Fits(e, <<NL>>)
    THEN At([insert_text(save_undo(e), pos, <<NL>>) EXCEPT !.mode = "insert"],
            cursor)
    ELSE save_undo(e)

Digits == {"0", "2"}
DigitValue == [d \in Digits |-> IF d = "0" THEN 0 ELSE 2]

IsDigit(e, key) == key \in Digits /\ (key # "0" \/ e.count # 0)

(* a command that is neither a count nor pending nor a motion *)
Command(e, r, key, count, n) ==
    LET end == line_end(e, e.cursor)
        start == line_start(e, e.cursor)
    IN  CASE key \in {"g", "d", "c", "y"} ->
               Both([e EXCEPT !.pending = key, !.count = count], r)
          [] key = "G" -> Both(goto_line(e, IF count > 0 THEN count - 1
                                            ELSE edit_line_count(e) - 1), r)
          [] key = "D" -> operator(e, r, "d", "$", 1)
          [] key = "C" -> operator(e, r, "c", "$", 1)
          [] key = "x" -> DeleteUnder(e, r, n)
          [] key = "X" -> DeleteBefore(e, r, n)
          [] key = "J" -> Both(Join(e, n), r)
          [] key = "p" -> Both(put(e, r, TRUE), r)
          [] key = "P" -> Both(put(e, r, FALSE), r)
          [] key = ":" -> Both([e EXCEPT !.mode = "command"], r)
          [] key = "u" -> Both(set_column(clamp_cursor(undo(e))), r)
          [] key = "i" -> Both(start_insert(e, e.cursor), r)
          [] key = "a" -> Both(start_insert(e, Least(e.cursor + 1, end)), r)
          [] key = "I" -> Both(start_insert(e, first_nonblank(e, e.cursor)), r)
          [] key = "A" -> Both(start_insert(e, end), r)
          [] key = "o" -> Both(NewLine(e, end, end + 1), r)
          [] key = "O" -> Both(NewLine(e, start, start), r)
          [] OTHER -> Both(e, r)

normal_key(e0, r, key) ==
    LET e == [e0 EXCEPT !.count = 0, !.pending = NoKey]
        n == Most(e0.count, 1)
    IN  CASE IsDigit(e0, key) ->
               Both([e0 EXCEPT !.count =
                       Least(@ * 10 + DigitValue[key], 99999)], r)
          [] ~IsDigit(e0, key) /\ e0.pending = "g" ->
               Both(IF key = "g" THEN goto_line(e, Most(e0.count - 1, 0))
                    ELSE e, r)
          [] ~IsDigit(e0, key) /\ e0.pending \in {"d", "c", "y"} ->
               operator(e, r, e0.pending, key, n)
          [] ~IsDigit(e0, key) /\ e0.pending = NoKey /\ key \in Motions ->
               Both(motion(e, key, n), r)
          [] OTHER -> Command(e, r, key, e0.count, n)

-----------------------------------------------------------------------------
(* A key in insert mode *)

Arrows == {"LEFT", "RIGHT", "UP", "DOWN", "HOME", "END", "PAGE_UP",
           "PAGE_DOWN"}

(* a printable char is none of the other keys *)
ASSUME KeysAssumption ==
    TypedChars \cap ({"ESC", "BS", "DELETE", TAB} \cup Arrows) = {}

LeaveInsert(e) ==
    LET stepped == IF e.cursor > line_start(e, e.cursor)
                   THEN At(e, e.cursor - 1) ELSE e
    IN  set_column(clamp_cursor([stepped EXCEPT !.mode = "normal"]))

Typed(e, str) ==
    set_column(IF Fits(e, str)
               THEN At(insert_text(e, e.cursor, str), e.cursor + Len(str))
               ELSE e)

insert_key(e, r, key) ==
    CASE key = "ESC" -> Both(LeaveInsert(e), r)
      [] key = "BS" ->
           Both(set_column(IF e.cursor > 0
                           THEN At(delete_text(e, e.cursor - 1, e.cursor),
                                   e.cursor - 1)
                           ELSE e), r)
      [] key = "DELETE" ->
           Both(IF e.cursor < Length(e)
                THEN delete_text(e, e.cursor, e.cursor + 1) ELSE e, r)
      [] key = TAB -> Both(Typed(e, <<SPACE, SPACE>>), r)
      [] key \in Arrows -> normal_key(e, r, key)
      [] key \in TypedChars \cup {NL} -> Both(Typed(e, <<key>>), r)
      [] OTHER -> Both(e, r)

-----------------------------------------------------------------------------
(* Loading and saving *)

LoadedChar(c) == IF c = NL \/ c \in Chars THEN c ELSE SPACE

(* open_text reads EDIT_MAX bytes; the '\n' of the last line is dropped *)
LoadedText(data) ==
    LET part == SubSeq(data, 1, Least(Len(data), EDIT_MAX))
        len == IF part # <<>> /\ part[Len(part)] = NL THEN Len(part) - 1
               ELSE Len(part)
    IN  [i \in 1..len |-> LoadedChar(part[i])]

edit_load(data) == [Closed EXCEPT !.text = LoadedText(data)]

edit_save_data(e) == IF e.text = <<>> THEN <<>> ELSE Append(e.text, NL)

edit_saved(e) == [e EXCEPT !.modified = FALSE]

(* open() fails before or after it has emptied the file, or the disk fills *)
(* up and a part of the text is in it                                      *)
AfterFailedWrite ==
    LET data == edit_save_data(ed)
    IN  {file, <<>>} \cup {SubSeq(data, 1, n) : n \in 1..Len(data) - 1}

-----------------------------------------------------------------------------
(* x is wq; any other line, the empty one too, does nothing *)
Commands == {"w", "wq", "q", "q!", "1", "2", "other"}
CommandLine == [c \in {"1", "2"} |-> IF c = "1" THEN 0 ELSE 1]

(* of the arrow keys in normal mode only one is pressed: without an        *)
(* operator they are the motions of the letters                            *)
NormalKeys == (Motions \ (Arrows \ {"DOWN"})) \cup Digits
                \cup {"g", "G", "d", "c", "y", "D", "C", "x", "X", "J", "p",
                      "P", ":", "u", "i", "a", "I", "A", "o", "O"}
InsertKeys == {"ESC", "BS", "DELETE", TAB, NL} \cup Arrows \cup TypedChars

Init ==
    /\ file \in Files
    /\ ed = Closed
    /\ reg \in OtherRegs
    /\ window = "closed"
    /\ before = <<>> /\ begun = <<>> /\ idle = FALSE
    /\ failed = FALSE
    /\ changes = 0

Counted(n) == changes' = changes + n /\ changes' <= MaxChanges

open_text ==
    /\ window = "closed"
    /\ ed' = edit_load(file)
    /\ before' = LoadedText(file) /\ begun' = before' /\ idle' = FALSE
    /\ failed' = FALSE
    /\ window' = "open"
    /\ UNCHANGED <<reg, file, changes>>

(* the keys after which the code calls save_undo before it can know that   *)
(* anything will change: operators, pastes, insertions and new lines, but  *)
(* not x, X and J, which look first                                        *)
Speculative(e, key) ==
    /\ e.mode = "normal" /\ ~IsDigit(e, key)
    /\ IF e.pending = NoKey
       THEN key \in {"D", "C", "p", "P", "i", "a", "I", "A", "o", "O"}
       ELSE e.pending \in {"d", "c"} /\ key \in Motions \cup {e.pending}

(* edit_key in normal and insert mode.  The keys of an insertion change the*)
(* text as one with the command that began it                              *)
Takes(key, result) ==
    LET changed == result.ed.text # ed.text
    IN  /\ ed' = result.ed
        /\ reg' = result.reg
        /\ begun' = IF ed.mode = "normal" THEN ed.text ELSE begun
        /\ before' = IF changed THEN begun' ELSE before
        /\ idle' = (~changed /\ (idle \/ Speculative(ed, key)))
        /\ Counted(IF result.ed.text \in {ed.text, ed.undo} THEN 0 ELSE 1)
        /\ UNCHANGED <<file, window, failed>>

NormalKey(key) ==
    /\ window = "open" /\ ed.mode = "normal"
    /\ key \in Digits => ed.count <= MaxCount
    /\ key \in Digits \cup {"g", "d", "c", "y"} => changes < MaxChanges
    /\ Takes(key, normal_key(ed, reg, key))

InsertKey(key) ==
    /\ window = "open" /\ ed.mode = "insert"
    /\ Takes(key, insert_key(ed, reg, key))

(* esc, or a backspace on the empty command line *)
CommandLeft ==
    /\ window = "open" /\ ed.mode = "command"
    /\ ed' = [ed EXCEPT !.mode = "normal"]
    /\ UNCHANGED <<reg, file, window, before, begun, idle, failed, changes>>

(* enter runs the command c that was typed: run_command, and what on_key  *)
(* does with its answer                                                    *)
Writes(c) == c \in {"w", "wq"}
Quits(c) == c \in {"wq", "q!"} \/ (c = "q" /\ ~ed.modified)

CommandMoves(c) ==
    /\ window = "open" /\ ed.mode = "command" /\ ~Writes(c) /\ ~Quits(c)
    /\ LET e == [ed EXCEPT !.mode = "normal"]
       IN  ed' = IF c \in DOMAIN CommandLine
                 THEN goto_line(e, CommandLine[c]) ELSE e
    /\ UNCHANGED <<reg, file, window, before, begun, idle, failed, changes>>

CommandQuits(c) ==
    /\ window = "open" /\ ed.mode = "command" /\ ~Writes(c) /\ Quits(c)
    /\ ed' = [ed EXCEPT !.mode = "normal"]
    /\ window' = "closed"
    /\ UNCHANGED <<reg, file, before, begun, idle, failed, changes>>

(* save_text *)
CommandSaves(c) ==
    /\ window = "open" /\ ed.mode = "command" /\ Writes(c)
    /\ file' = edit_save_data(ed)
    /\ ed' = edit_saved([ed EXCEPT !.mode = "normal"])
    /\ window' = IF Quits(c) THEN "closed" ELSE "open"
    /\ failed' = FALSE
    /\ Counted(1)
    /\ UNCHANGED <<reg, before, begun, idle>>

(* mutant: wq closes the window although the write failed *)
CommandSaveFailsUnseen(c) ==
    /\ window = "open" /\ ed.mode = "command" /\ Writes(c)
    /\ file' \in AfterFailedWrite
    /\ ed' = [ed EXCEPT !.mode = "normal"]
    /\ window' = IF Quits(c) THEN "closed" ELSE "open"
    /\ failed' = TRUE
    /\ Counted(1)
    /\ UNCHANGED <<reg, before, begun, idle>>

CommandSaveFails(c) ==
    /\ window = "open" /\ ed.mode = "command" /\ Writes(c)
    /\ file' \in AfterFailedWrite
    /\ ed' = [ed EXCEPT !.mode = "normal"]
    /\ failed' = TRUE
    /\ Counted(1)
    /\ UNCHANGED <<reg, window, before, begun, idle>>

(* the close box, ctrl+w and the close items of the menu *)
request_close ==
    /\ window = "open"
    /\ window' = IF ed.modified THEN "asking" ELSE "closed"
    /\ UNCHANGED <<ed, reg, file, before, begun, idle, failed, changes>>

alert_done(ok) ==
    /\ window = "asking"
    /\ window' = IF ok THEN "closed" ELSE "open"
    /\ UNCHANGED <<ed, reg, file, before, begun, idle, failed, changes>>

(* the line and the char nearest to the mouse *)
edit_click ==
    /\ window = "open" /\ ed.mode \in ClickModes
    /\ \E pos \in 0..Length(ed) :
         ed' = set_column(clamp_cursor(At(ed, pos)))
    /\ UNCHANGED <<reg, file, window, before, begun, idle, failed, changes>>

Next ==
    \/ open_text
    \/ \E key \in NormalKeys : NormalKey(key)
    \/ \E key \in InsertKeys : InsertKey(key)
    \/ CommandLeft
    \/ \E c \in Commands : CommandMoves(c) \/ CommandQuits(c)
                           \/ CommandSaves(c) \/ CommandSaveFails(c)
    \/ request_close \/ \E ok \in BOOLEAN : alert_done(ok)
    \/ edit_click

Spec == Init /\ [][Next]_vars

-----------------------------------------------------------------------------
(* Properties *)

(* the text, the copy for u and the register fit their buffers of EDIT_MAX *)
(* bytes, whatever is typed, pasted or loaded (insert_text, edit_load), and*)
(* the cursor stays in the text.                                           *)
TypeOK ==
    /\ ed \in [text : Seq(TextChars), mode : {"normal", "insert", "command"},
               modified : BOOLEAN, cursor : Nat, column : Int, count : Nat,
               pending : {NoKey, "g", "d", "c", "y"}, undo : Seq(TextChars),
               undo_cursor : Nat, has_undo : BOOLEAN]
    /\ Length(ed) <= EDIT_MAX /\ ed.cursor <= Length(ed)
    /\ Len(ed.undo) <= EDIT_MAX
    /\ reg \in [text : Seq(TextChars), lines : BOOLEAN]
    /\ Len(reg.text) <= EDIT_MAX
    /\ window \in {"closed", "open", "asking"}
    /\ failed \in BOOLEAN

(* in normal mode the cursor rests on a char and not on the end of a line, *)
(* unless the line is empty (comment of clamp_cursor), whatever command,   *)
(* undo, paste or click put it there                                       *)
CursorRests == window = "open" /\ ed.mode = "normal" => ~OnLineEnd(ed)

(* whatever command or insertion changed the text last, u takes it back    *)
(* and a second u brings it again (save_undo and its callers).  The one    *)
(* exception the code makes: an operator that moves nowhere, a paste or a  *)
(* new line that does not fit and an insertion in which nothing is typed   *)
(* have copied the text too (idle); then u changes nothing, it never goes  *)
(* back to any other text                                                  *)
LastChangeUndone ==
    window = "open" /\ ed.mode = "normal" =>
        IF ed.has_undo
        THEN ed.undo = before \/ (idle /\ ed.undo = ed.text)
        ELSE ed.text = before

(* "undo the last change, again redoes it" (README of the repository) and  *)
(* "remembers the text before a change, u brings it back" (save_undo): u   *)
(* takes the last change back, without an exception.  The code does not    *)
(* keep this, DeskUndo.cfg shows it                                        *)
LastChangeNotForgotten ==
    window = "open" /\ ed.mode = "normal" /\ ed.has_undo => ed.undo = before

(* a window without [+] shows what its file holds, after undo and saves    *)
(* too.  Left out are a save that failed, which may have emptied the file  *)
(* of an unchanged window, and a text that fills the buffer, whose last    *)
(* '\n' is not among the bytes open_text reads again                       *)
UnmodifiedIsSaved ==
    window = "open" /\ ~ed.modified /\ ~failed /\ Length(ed) < EDIT_MAX =>
        ed.text = LoadedText(file)

(* a window with changes closes only when they were written, or when the   *)
(* user answered the alert or typed q!; a save that fails keeps it open    *)
ChangesKept ==
    [][(window # "closed" /\ window' = "closed" /\ ed.modified) =>
         \/ file' = edit_save_data(ed)
         \/ window = "asking"
         \/ CommandQuits("q!")]_vars

=============================================================================
