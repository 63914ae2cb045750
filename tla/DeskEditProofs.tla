--------------------------- MODULE DeskEditProofs ---------------------------
(***************************************************************************)
(* Theorems about DeskEdit: nothing leaves its buffer, the cursor rests on *)
(* a char, u takes the last change back, a window without [+] shows its    *)
(* file and changes are not dropped unasked, for every size of the buffer, *)
(* every file and every sequence of keys.                                  *)
(***************************************************************************)
EXTENDS DeskEdit, NumberLemmas, FiniteSetTheorems, SequenceTheorems

-----------------------------------------------------------------------------
(* Lines                                                                   *)

Texts == Seq(TextChars)

(* The line around an offset starts behind an '\n' and has none up to it   *)
(* (line_start).                                                           *)
LEMMA LineStart ==
    ASSUME NEW e, NEW pos \in Nat
    PROVE  LET s == line_start(e, pos)
           IN  /\ s \in 0 .. pos /\ StartsLine(e, s)
               /\ \A p \in s .. pos - 1 : Char(e, p) # NL
<1>. DEFINE S == {p \in 0 .. pos : StartsLine(e, p)}
            s == line_start(e, pos)
<1>1. 0 \in S
  BY DEF StartsLine
<1>2. S \in SUBSET (0 .. pos) /\ s = Max(S)
  BY DEF line_start
<1>3. s \in S /\ \A y \in S : s >= y
  <2>. HIDE DEF S, s
  <2>. QED
    BY <1>1, <1>2, MaxIn
<1>4. ASSUME NEW p \in s .. pos - 1 PROVE Char(e, p) # NL
  <2>1. s \in 0 .. pos
    BY <1>3
  <2>. HIDE DEF s
  <2>2. p \in Nat /\ p + 1 \in 0 .. pos /\ p + 1 > s /\ (p + 1) - 1 = p
    BY <2>1
  <2>3. p + 1 \notin S
    BY <1>3, <2>1, <2>2
  <2>. QED
    BY <2>2, <2>3 DEF StartsLine
<1>. QED
  BY <1>3, <1>4

(* It ends at an '\n' or with the text, and has none before (line_end).    *)
LEMMA LineEnd ==
    ASSUME NEW e, e.text \in Texts, NEW pos \in 0 .. Length(e)
    PROVE  LET f == line_end(e, pos)
           IN  /\ f \in pos .. Length(e) /\ EndsLine(e, f)
               /\ \A p \in pos .. f - 1 : Char(e, p) # NL
<1>. DEFINE S == {p \in pos .. Length(e) : EndsLine(e, p)}
            f == line_end(e, pos)
<1>1. Length(e) \in Nat /\ pos \in Nat
  BY DEF Length, Texts
<1>2. Length(e) \in S
  BY <1>1 DEF EndsLine
<1>3. S \in SUBSET Nat /\ f = Min(S)
  BY <1>1 DEF line_end
<1>4. f \in S /\ \A y \in S : f <= y
  <2>. HIDE DEF S, f
  <2>. QED
    BY <1>2, <1>3, MinIn
<1>5. ASSUME NEW p \in pos .. f - 1 PROVE Char(e, p) # NL
  <2>1. f \in pos .. Length(e)
    BY <1>4
  <2>. HIDE DEF f
  <2>2. p \in pos .. Length(e) /\ ~ (f <= p)
    BY <1>1, <2>1
  <2>3. p \notin S
    BY <1>4, <2>2
  <2>. QED
    BY <2>2, <2>3 DEF EndsLine
<1>. QED
  BY <1>4, <1>5

(* The cursor is on the end of a line when it is at one and the line has a *)
(* char (clamp_cursor).                                                    *)
LEMMA OnEndIs ==
    ASSUME NEW e, e.text \in Texts, e.cursor \in 0 .. Length(e)
    PROVE  OnLineEnd(e) <=> EndsLine(e, e.cursor) /\ ~ StartsLine(e, e.cursor)
<1>. DEFINE c == e.cursor
            s == line_start(e, c)
            f == line_end(e, c)
<1>1. Length(e) \in Nat /\ c \in Nat
  BY DEF Length, Texts
<1>2. s \in 0 .. c /\ StartsLine(e, s) /\ \A p \in s .. c - 1 : Char(e, p) # NL
  BY <1>1, LineStart
<1>3. f \in c .. Length(e) /\ EndsLine(e, f) /\ \A p \in c .. f - 1 : Char(e, p) # NL
  BY <1>1, LineEnd
<1>. HIDE DEF s, f
<1>4. s = c <=> StartsLine(e, c)
  <2>1. ASSUME s # c PROVE ~ StartsLine(e, c)
    <3>1. c # 0 /\ c - 1 \in s .. c - 1
      BY <1>1, <1>2, <2>1
    <3>. QED
      BY <1>2, <3>1 DEF StartsLine
  <2>. QED
    BY <1>2, <2>1
<1>5. f = c <=> EndsLine(e, c)
  <2>1. ASSUME f # c PROVE ~ EndsLine(e, c)
    <3>1. c # Length(e) /\ c \in c .. f - 1
      BY <1>1, <1>3, <2>1
    <3>. QED
      BY <1>3, <3>1 DEF EndsLine
  <2>. QED
    BY <1>3, <2>1
<1>. QED
  BY <1>1, <1>2, <1>4, <1>5 DEF OnLineEnd, s, f

(* How many '\n' there are up to an offset (edit_cursor_line)              *)
LEMMA Breaks ==
    ASSUME NEW e, NEW p \in Nat, NEW q \in Nat, p <= q
    PROVE  /\ Cardinality({i \in 1 .. p : e.text[i] = NL}) \in Nat
           /\ Cardinality({i \in 1 .. q : e.text[i] = NL}) \in Nat
           /\ Cardinality({i \in 1 .. p : e.text[i] = NL})
                  <= Cardinality({i \in 1 .. q : e.text[i] = NL})
<1>. DEFINE S(n) == {i \in 1 .. n : e.text[i] = NL}
<1>1. ASSUME NEW n \in Nat PROVE IsFiniteSet(S(n))
  <2>1. IsFiniteSet(1 .. n)
    BY FS_Interval
  <2>. QED
    BY <2>1, FS_Subset
<1>2. S(p) \subseteq S(q)
  OBVIOUS
<1>. QED
  BY <1>1, <1>2, FS_CardinalityType, FS_Subset

(* A line found by its number starts like one, and a line up to that       *)
(* number does not lie behind it (line_pos).                               *)
LEMMA LinePos ==
    ASSUME NEW e, e.text \in Texts, NEW n \in Nat
    PROVE  LET s == line_pos(e, n)
           IN  /\ s \in 0 .. Length(e) /\ StartsLine(e, s)
               /\ \A p \in 0 .. Length(e) :
                      /\ StartsLine(e, p)
                      /\ Cardinality({q \in 1 .. p : e.text[q] = NL}) <= n
                      => p <= s
<1>. DEFINE S == {p \in 0 .. Length(e) :
                    /\ StartsLine(e, p)
                    /\ Cardinality({q \in 1 .. p : e.text[q] = NL}) <= n}
            s == line_pos(e, n)
<1>1. Length(e) \in Nat
  BY DEF Length, Texts
<1>2. 0 \in S
  <2>1. {q \in 1 .. 0 : e.text[q] = NL} = {}
    OBVIOUS
  <2>. QED
    BY <1>1, <2>1, FS_EmptySet DEF StartsLine
<1>3. S \in SUBSET (0 .. Length(e)) /\ s = Max(S)
  BY DEF line_pos
<1>4. s \in S /\ \A y \in S : s >= y
  <2>. HIDE DEF S, s
  <2>. QED
    BY <1>1, <1>2, <1>3, MaxIn
<1>5. s \in 0 .. Length(e) /\ StartsLine(e, s)
  BY <1>4
<1>6. ASSUME NEW p \in S PROVE p <= s
  <2>1. s >= p /\ s \in Int /\ p \in Int
    BY <1>1, <1>4, <1>5
  <2>. HIDE DEF s
  <2>. QED
    BY <2>1
<1>. HIDE DEF s
<1>. QED
  BY <1>5, <1>6 DEF s

(* first_nonblank stays in the text, behind the start of the line.         *)
LEMMA Nonblank ==
    ASSUME NEW e, e.text \in Texts, NEW pos \in 0 .. Length(e)
    PROVE  first_nonblank(e, pos) \in line_start(e, pos) .. Length(e)
<1>. DEFINE from == line_start(e, pos)
            S == {p \in from .. Length(e) : p = Length(e) \/ Char(e, p) # SPACE}
<1>1. Length(e) \in Nat /\ pos \in Nat
  BY DEF Length, Texts
<1>2. from \in 0 .. pos
  BY <1>1, LineStart
<1>3. first_nonblank(e, pos) = Min(S)
  BY DEF first_nonblank
<1>. HIDE DEF from
<1>4. Length(e) \in S /\ S \in SUBSET Nat
  BY <1>1, <1>2
<1>5. Min(S) \in S
  <2>. HIDE DEF S
  <2>. QED
    BY <1>4, MinIn
<1>. QED
  BY <1>3, <1>5 DEF from

-----------------------------------------------------------------------------
(* Moving the cursor.  e is any editor, not only the one of the window.    *)

Modes == {"normal", "insert", "command"}
Pendings == {NoKey, "g", "d", "c", "y"}
EditorType ==
    [text : Texts, mode : Modes, modified : BOOLEAN, cursor : Int,
     column : Int, count : Nat, pending : Pendings, undo : Texts,
     undo_cursor : Nat, has_undo : BOOLEAN]

(* an editor whose texts fit their buffers                                 *)
Shape(e) ==
    e \in EditorType /\ Len(e.text) <= EDIT_MAX /\ Len(e.undo) <= EDIT_MAX

InText(e) == e.cursor \in 0 .. Length(e)

(* clamp_cursor's comment                                                  *)
Rests(e) == e.mode = "normal" => ~ OnLineEnd(e)

(* all but the cursor and its column                                       *)
SameBut(e, f) ==
    /\ f.text = e.text /\ f.mode = e.mode /\ f.modified = e.modified
    /\ f.count = e.count /\ f.pending = e.pending
    /\ f.undo = e.undo /\ f.undo_cursor = e.undo_cursor
    /\ f.has_undo = e.has_undo

(* from e to f the cursor moved in the text                                *)
Moved(e, f) == Shape(f) /\ InText(f) /\ SameBut(e, f)

LEMMA Size ==
    ASSUME NEW e, Shape(e)
    PROVE  /\ Length(e) \in Nat /\ Length(e) <= EDIT_MAX /\ EDIT_MAX \in Nat
           /\ e.text \in Texts /\ e.cursor \in Int /\ e.column \in Int
<1>1. Length(e) \in Nat
  BY DEF Shape, EditorType, Texts, Length
<1>2. EDIT_MAX \in Nat
  BY EditorAssumption
<1>. QED
  BY <1>1, <1>2 DEF Shape, EditorType, Length

(* The cursor anywhere                                                     *)
LEMMA AtIs ==
    ASSUME NEW e, Shape(e), NEW c \in Int
    PROVE  /\ Shape(At(e, c)) /\ SameBut(e, At(e, c)) /\ At(e, c).cursor = c
           /\ At(e, c).column = e.column
BY DEF Shape, EditorType, SameBut, At

LEMMA ColumnIs ==
    ASSUME NEW e, Shape(e), InText(e)
    PROVE  LET f == set_column(e)
           IN  /\ Moved(e, f) /\ f.cursor = e.cursor /\ (Rests(e) => Rests(f))
<1>. DEFINE k == e.cursor - line_start(e, e.cursor)
            f == set_column(e)
<1>1. k \in Int
  BY LineStart, Size DEF InText
<1>2. f = [e EXCEPT !.column = k]
  BY DEF set_column
<1>. HIDE DEF k, f
<1>3. Shape(f) /\ SameBut(e, f) /\ f.cursor = e.cursor
  BY <1>1, <1>2 DEF Shape, EditorType, SameBut
<1>4. InText(f)
  BY <1>3 DEF InText, SameBut, Length
<1>5. f.text \in Texts /\ e.text \in Texts
  BY <1>3, Size
<1>6. Rests(e) => Rests(f)
  BY <1>3, <1>4, <1>5, OnEndIs
     DEF Rests, SameBut, EndsLine, StartsLine, Char, Length, InText
<1>. QED
  BY <1>3, <1>4, <1>6 DEF Moved, f

(* clamp_cursor takes any cursor into the text and off the end of a line.  *)
LEMMA ClampIs ==
    ASSUME NEW e, Shape(e)
    PROVE  Moved(e, clamp_cursor(e)) /\ Rests(clamp_cursor(e))
<1>. DEFINE c == Least(Most(e.cursor, 0), Length(e))
            d == At(e, c)
            f == clamp_cursor(e)
<1>1. Length(e) \in Nat /\ e.cursor \in Int
  BY Size
<1>2. c \in 0 .. Length(e)
  BY <1>1 DEF Least, Most
<1>3. f = IF d.mode = "normal" /\ OnLineEnd(d)
          THEN [d EXCEPT !.cursor = @ - 1] ELSE d
  BY DEF clamp_cursor, At
<1>. HIDE DEF c
<1>4. Shape(d) /\ SameBut(e, d) /\ d.cursor = c
  BY <1>2, AtIs
<1>5. Length(d) = Length(e) /\ InText(d) /\ d.text \in Texts
  BY <1>2, <1>4, Size DEF SameBut, Length, InText
<1>6. CASE ~ (d.mode = "normal" /\ OnLineEnd(d))
  <2>1. f = d
    BY <1>3, <1>6
  <2>. HIDE DEF d, f
  <2>. QED
    BY <1>4, <1>5, <1>6, <2>1 DEF Moved, Rests, f
<1>7. CASE d.mode = "normal" /\ OnLineEnd(d)
  <2>1. f = At(d, c - 1)
    BY <1>3, <1>4, <1>7 DEF At
  <2>2. EndsLine(d, c) /\ ~ StartsLine(d, c)
    BY <1>4, <1>5, <1>7, OnEndIs DEF InText
  <2>3. c - 1 \in 0 .. Length(e)
    BY <1>1, <1>2, <2>2 DEF StartsLine
  <2>. HIDE DEF d, f
  <2>4. Shape(f) /\ SameBut(d, f) /\ f.cursor = c - 1
    <3>1. Shape(d) /\ c - 1 \in Int
      BY <1>2, <1>4
    <3>2. /\ Shape(At(d, c - 1)) /\ SameBut(d, At(d, c - 1))
          /\ At(d, c - 1).cursor = c - 1
      BY ONLY <3>1, AtIs
    <3>. QED
      BY ONLY <2>1, <3>2
  <2>5. InText(f) /\ SameBut(e, f) /\ f.text \in Texts
    BY <1>4, <2>3, <2>4, Size DEF InText, SameBut, Length
  <2>6. ~ EndsLine(f, c - 1)
    <3>1. Char(d, c - 1) # NL
      BY <2>2 DEF StartsLine
    <3>2. c - 1 # Length(d)
      BY <1>1, <1>2, <1>5
    <3>. QED
      BY <2>4, <3>1, <3>2 DEF EndsLine, Char, SameBut, Length
  <2>7. ~ OnLineEnd(f)
    BY <2>4, <2>5, <2>6, OnEndIs DEF InText
  <2>. QED
    BY <2>4, <2>5, <2>7 DEF Moved, Rests, f
<1>. QED
  BY <1>6, <1>7

LEMMA MovedThen ==
    ASSUME NEW e, NEW f, NEW g, SameBut(e, f), Moved(f, g)
    PROVE  Moved(e, g)
BY DEF Moved, SameBut

(* A cursor that is set, clamped and given its column (goto_line, motion)  *)
LEMMA MovesTo ==
    ASSUME NEW e, Shape(e), NEW c \in Int
    PROVE  LET f == set_column(clamp_cursor(At(e, c)))
           IN  Moved(e, f) /\ Rests(f)
<1>. DEFINE d == At(e, c)
            g == clamp_cursor(d)
            f == set_column(g)
<1>1. Shape(d) /\ SameBut(e, d)
  BY AtIs
<1>. HIDE DEF d
<1>2. Moved(d, g) /\ Rests(g)
  BY <1>1, ClampIs
<1>. HIDE DEF g
<1>3. Moved(g, f) /\ Rests(f)
  BY <1>2, ColumnIs DEF Moved
<1>. HIDE DEF f
<1>4. Moved(e, f)
  BY <1>1, <1>2, <1>3, MovedThen DEF Moved
<1>. QED
  BY <1>3, <1>4 DEF f, g, d

(* The char a cursor rests on ends no line (clamp_cursor).                 *)
LEMMA RestsIf ==
    ASSUME NEW e, Shape(e), InText(e), StartsLine(e, e.cursor) \/ ~ EndsLine(e, e.cursor)
    PROVE  Rests(e)
BY OnEndIs, Size DEF Rests, InText

LEMMA LineMoves ==
    ASSUME NEW e, Shape(e), InText(e), NEW delta \in Int
    PROVE  Moved(e, move_lines(e, delta)) /\ Rests(move_lines(e, delta))
<1>. DEFINE n == Most(edit_cursor_line(e) + delta, 0)
            start == line_pos(e, n)
            c == Least(start + e.column, line_end(e, start))
<1>1. Length(e) \in Nat /\ e.text \in Texts /\ e.column \in Int /\ e.cursor \in Nat
  BY Size DEF InText
<1>2. edit_cursor_line(e) \in Nat
  <2>1. e.cursor <= e.cursor
    BY <1>1
  <2>. QED
    BY <1>1, <2>1, Breaks DEF edit_cursor_line
<1>3. n \in Nat
  <2>. HIDE DEF Texts
  <2>. QED
    BY <1>2 DEF Most
<1>. HIDE DEF n
<1>4. start \in 0 .. Length(e)
  BY <1>1, <1>3, LinePos
<1>. HIDE DEF start
<1>5. line_end(e, start) \in start .. Length(e)
  BY <1>1, <1>4, LineEnd
<1>6. c \in Int
  BY <1>1, <1>4, <1>5 DEF Least
<1>7. move_lines(e, delta) = clamp_cursor(At(e, c))
  BY DEF move_lines, c, start, n
<1>. HIDE DEF c
<1>8. Shape(At(e, c)) /\ SameBut(e, At(e, c))
  BY <1>6, AtIs
<1>9. Moved(At(e, c), clamp_cursor(At(e, c))) /\ Rests(clamp_cursor(At(e, c)))
  BY <1>8, ClampIs
<1>. QED
  BY <1>7, <1>8, <1>9, MovedThen

LEMMA GotoMoves ==
    ASSUME NEW e, Shape(e), NEW n \in Nat
    PROVE  Moved(e, goto_line(e, n)) /\ Rests(goto_line(e, n))
<1>. DEFINE start == line_pos(e, n)
            c == first_nonblank(e, start)
<1>1. Length(e) \in Nat /\ e.text \in Texts
  BY Size
<1>2. start \in 0 .. Length(e)
  BY <1>1, LinePos
<1>. HIDE DEF start
<1>3. c \in Int
  BY <1>1, <1>2, Nonblank, LineStart
<1>4. goto_line(e, n) = set_column(clamp_cursor(At(e, c)))
  BY DEF goto_line, c, start
<1>. HIDE DEF c
<1>. QED
  BY <1>3, <1>4, MovesTo

-----------------------------------------------------------------------------
(* Motions                                                                 *)

(* The end of a run is no earlier offset (char_class loops).               *)
LEMMA RunEndIs ==
    ASSUME NEW e, Shape(e), NEW pos \in Nat, NEW c
    PROVE  RunEnd(e, pos, c) \in Nat /\ RunEnd(e, pos, c) >= pos
<1>. DEFINE S == {p \in pos .. Length(e) : p = Length(e) \/ Class(e, p) # c}
<1>1. Length(e) \in Nat
  BY Size
<1>2. CASE pos >= Length(e)
  BY <1>2 DEF RunEnd
<1>3. CASE ~ (pos >= Length(e))
  <2>1. RunEnd(e, pos, c) = Min(S)
    BY <1>3 DEF RunEnd
  <2>2. Length(e) \in S /\ S \in SUBSET Nat
    BY <1>1, <1>3
  <2>3. Min(S) \in S
    <3>. HIDE DEF S
    <3>. QED
      BY <2>2, MinIn
  <2>. QED
    BY <1>1, <2>1, <2>3
<1>. QED
  BY <1>2, <1>3

(* the last char, or 0 in an empty text                                    *)
LEMMA LastCharIs ==
    ASSUME NEW e, Shape(e), NEW pos \in Nat
    PROVE  Least(pos, LastChar(e)) \in 0 .. Length(e)
BY Size DEF Least, LastChar, Most

Word(e, key) ==
    CASE key = "w"  -> word_forward(e)
      [] key = "b"  -> word_back(e)
      [] OTHER      -> word_end(e)

(* A word forward, back or to its end (word_forward, word_back, word_end)  *)
LEMMA WordMoves ==
    ASSUME NEW e, Shape(e), InText(e), NEW key
    PROVE  Moved(e, Word(e, key))
<1>1. Length(e) \in Nat /\ e.cursor \in Nat /\ e.cursor <= Length(e)
  BY Size DEF InText
<1>2. ASSUME NEW c \in 0 .. Length(e), Word(e, key) = At(e, c)
      PROVE  Moved(e, Word(e, key))
  <2>. DEFINE d == At(e, c)
  <2>1. c \in Int
    BY <1>1
  <2>2. Shape(d) /\ SameBut(e, d) /\ d.cursor = c
    BY <2>1, AtIs
  <2>. HIDE DEF d
  <2>3. Moved(e, d)
    BY <2>2 DEF Moved, InText, SameBut, Length
  <2>. QED
    BY <1>2, <2>3 DEF d
<1>3. CASE key = "w"
  <2>. DEFINE k == IF e.cursor < Length(e) THEN Class(e, e.cursor) ELSE 0
              word == IF k = 0 THEN e.cursor ELSE RunEnd(e, e.cursor, k)
              c == Least(RunEnd(e, word, 0), LastChar(e))
  <2>1. word \in Nat
    <3>. HIDE DEF k
    <3>. QED
      BY <1>1, RunEndIs
  <2>. HIDE DEF word
  <2>2. c \in 0 .. Length(e)
    BY <2>1, RunEndIs, LastCharIs
  <2>3. Word(e, key) = At(e, c)
    BY <1>3 DEF Word, word_forward, word
  <2>. HIDE DEF c
  <2>. QED
    BY <1>2, <2>2, <2>3
<1>4. CASE key = "b"
  <2>. DEFINE m == Most(e.cursor - 1, 0)
              S == {p \in 0 .. m : p = 0 \/ Class(e, p) # 0}
              word == Max(S)
              T == {p \in 0 .. word :
                        p = 0 \/ Class(e, p - 1) # Class(e, word)}
              c == Max(T)
  <2>1. m \in Nat /\ m <= Length(e)
    BY <1>1 DEF Most
  <2>. HIDE DEF m
  <2>2. S \in SUBSET (0 .. m) /\ 0 \in S
    BY <2>1
  <2>3. word \in 0 .. m
    <3>1. word \in S
      <4>. HIDE DEF S
      <4>. QED
        BY <2>1, <2>2, MaxIn
    <3>. QED
      BY <2>2, <3>1
  <2>. HIDE DEF word
  <2>4. T \in SUBSET (0 .. word) /\ 0 \in T /\ word \in Nat
    BY <2>1, <2>3
  <2>5. c \in 0 .. Length(e)
    <3>1. c \in T
      <4>. HIDE DEF T
      <4>. QED
        BY <2>4, MaxIn
    <3>2. c \in 0 .. word
      BY <2>4, <3>1
    <3>. HIDE DEF c
    <3>. QED
      BY <1>1, <2>1, <2>3, <3>2
  <2>6. Word(e, key) = At(e, c)
    BY <1>4 DEF Word, word_back, word, m
  <2>. HIDE DEF c
  <2>. QED
    BY <1>2, <2>5, <2>6
<1>5. CASE key # "w" /\ key # "b"
  <2>. DEFINE word == RunEnd(e, e.cursor + 1, 0)
              k == Class(e, word)
              last == IF word >= Length(e) - 1 THEN word
                      ELSE RunEnd(e, word, k) - 1
              c == Least(last, LastChar(e))
  <2>1. word \in Nat /\ word >= 1
    BY <1>1, RunEndIs
  <2>. HIDE DEF word
  <2>2. last \in Nat
    <3>. HIDE DEF k
    <3>1. RunEnd(e, word, k) \in Nat /\ RunEnd(e, word, k) >= word
      BY <2>1, RunEndIs
    <3>. QED
      BY <2>1, <3>1
  <2>3. c \in 0 .. Length(e)
    <3>. HIDE DEF last
    <3>. QED
      BY <2>2, LastCharIs
  <2>4. Word(e, key) = At(e, c)
    BY <1>5 DEF Word, word_end, word
  <2>. HIDE DEF c
  <2>. QED
    BY <1>2, <2>3, <2>4
<1>. QED
  BY <1>3, <1>4, <1>5

LEMMA MovedNot ==
    ASSUME NEW e, Shape(e), InText(e)
    PROVE  Moved(e, e)
BY DEF Moved, SameBut

(* One word after the other (motion)                                       *)
LEMMA WordsMove ==
    ASSUME NEW e, Shape(e), InText(e), NEW key, NEW n \in Nat
    PROVE  Moved(e, Words(e, key, n))
<1>. DEFINE S == {f \in EditorType : Moved(e, f)}
            F == [i \in 1 .. n |-> [f \in S |-> Word(f, key)]]
            Is(g) == g = [i \in 0 .. n |->
                             IF i = 0 THEN e ELSE Word(g[i - 1], key)]
            after == CHOOSE g : Is(g)
<1>1. e \in S
  BY MovedNot DEF Shape
<1>2. ASSUME NEW f \in S PROVE Word(f, key) \in S
  <2>. DEFINE w == Word(f, key)
  <2>1. Moved(e, f) /\ Moved(f, w)
    BY WordMoves DEF Moved
  <2>. HIDE DEF w
  <2>2. Moved(e, w)
    BY <2>1, MovedThen DEF Moved
  <2>. QED
    BY <2>2 DEF Moved, Shape, w
<1>3. F \in [1 .. n -> [S -> S]]
  BY <1>2
<1>4. \A i \in 1 .. n, f \in S : F[i][f] = Word(f, key)
  OBVIOUS
<1>. HIDE DEF S, F
<1>5. PICK g \in [0 .. n -> S] :
          g[0] = e /\ \A i \in 1 .. n : g[i] = F[i][g[i - 1]]
  BY <1>1, <1>3, Iteration
<1>6. Is(g)
  <2>1. \A i \in 0 .. n : g[i] = IF i = 0 THEN e ELSE Word(g[i - 1], key)
    BY <1>4, <1>5
  <2>. QED
    BY <1>5, <2>1
<1>7. Is(after)
  <2>. HIDE DEF Is
  <2>. QED
    BY <1>6
<1>. HIDE DEF after
<1>. DEFINE T == {i \in 0 .. n : after[i] \in S}
<1>8. 0 \in T
  BY <1>1, <1>7
<1>9. ASSUME NEW i \in 1 .. n, i - 1 \in T PROVE i \in T
  BY <1>2, <1>7, <1>9
<1>10. 0 .. n \subseteq T
  <2>. HIDE DEF T
  <2>. QED
    BY <1>8, <1>9, UpTo
<1>11. Words(e, key, n) = after[n]
  BY DEF Words, after, Word
<1>. QED
  BY <1>10, <1>11 DEF S

(* Left, but not off the line                                              *)
LEMMA LeftMoves ==
    ASSUME NEW e, Shape(e), InText(e), NEW n \in Nat
    PROVE  LET f == set_column(At(e, Most(e.cursor - n,
                                          line_start(e, e.cursor))))
           IN  Moved(e, f) /\ (Rests(e) => Rests(f))
<1>. DEFINE s == line_start(e, e.cursor)
            c == Most(e.cursor - n, s)
            d == At(e, c)
            f == set_column(d)
<1>1. Length(e) \in Nat /\ e.cursor \in Nat /\ e.cursor <= Length(e)
  BY Size DEF InText
<1>2. /\ s \in 0 .. e.cursor /\ StartsLine(e, s)
      /\ \A p \in s .. e.cursor - 1 : Char(e, p) # NL
  BY <1>1, LineStart
<1>. HIDE DEF s
<1>3. c \in 0 .. e.cursor /\ c >= s
  BY <1>1, <1>2 DEF Most
<1>. HIDE DEF c
<1>4. Shape(d) /\ SameBut(e, d) /\ d.cursor = c
  BY <1>3, AtIs
<1>5. InText(d) /\ Length(d) = Length(e) /\ Length(e) \in Nat
  BY <1>1, <1>3, <1>4 DEF InText, SameBut, Length
<1>6. Rests(e) => Rests(d)
  <2>1. CASE c = e.cursor
    BY <1>4, <1>5, <2>1, OnEndIs, Size
       DEF Rests, SameBut, EndsLine, StartsLine, Char, Length, InText
  <2>2. CASE c # e.cursor
    <3>1. Char(e, c) # NL /\ c # Length(e)
      BY <1>1, <1>2, <1>3, <2>2
    <3>2. ~ EndsLine(d, d.cursor)
      BY <1>4, <1>5, <3>1 DEF EndsLine, Char, SameBut
    <3>. HIDE DEF d
    <3>. QED
      BY <1>4, <1>5, <3>2, RestsIf
  <2>. QED
    BY <2>1, <2>2
<1>. HIDE DEF d
<1>7. Moved(d, f) /\ (Rests(d) => Rests(f))
  BY <1>4, <1>5, ColumnIs
<1>. HIDE DEF f
<1>8. Moved(e, f)
  BY <1>4, <1>7, MovedThen
<1>. QED
  BY <1>6, <1>7, <1>8 DEF f, d, c, s

(* Every motion stays in the text and leaves it alone (motion).            *)
LEMMA MotionMoves ==
    ASSUME NEW e, Shape(e), InText(e), NEW key, NEW n \in Nat \ {0}
    PROVE  LET f == motion(e, key, n)
           IN  Moved(e, f) /\ (Rests(e) => Rests(f))
<1>. DEFINE f == motion(e, key, n)
            Fine(g) == Moved(e, g) /\ (Rests(e) => Rests(g))
<1>1. Length(e) \in Nat /\ e.cursor \in Nat /\ e.cursor <= Length(e) /\ e.text \in Texts
  BY Size DEF InText
<1>2. ASSUME NEW delta \in Int PROVE Fine(move_lines(e, delta))
  BY LineMoves
<1>3. ASSUME NEW c \in Int PROVE Fine(set_column(clamp_cursor(At(e, c))))
  BY MovesTo
<1>4. line_end(e, e.cursor) \in Int /\ line_start(e, e.cursor) \in 0 .. e.cursor
  BY <1>1, LineEnd, LineStart DEF InText
<1>5. CASE key \in {"h", "LEFT"}
  <2>1. f = set_column(At(e, Most(e.cursor - n, line_start(e, e.cursor))))
    BY <1>5 DEF motion
  <2>. QED
    BY <2>1, LeftMoves
<1>6. CASE key \in {"l", "RIGHT"}
  <2>. DEFINE c == Least(e.cursor + n, line_end(e, e.cursor))
  <2>1. f = set_column(clamp_cursor(At(e, c)))
    BY <1>6 DEF motion
  <2>2. c \in Int
    BY <1>1, <1>4 DEF Least
  <2>. HIDE DEF f, c, Fine
  <2>3. Fine(f)
    BY <1>3, <2>1, <2>2
  <2>. QED
    BY <2>3 DEF Fine, f
<1>7. CASE key \in {"j", "DOWN", "k", "UP", "PAGE_DOWN", "PAGE_UP"}
  <2>1. PICK delta \in {n, -n, 20 * n, -20 * n} : f = move_lines(e, delta)
    BY <1>7 DEF motion
  <2>2. delta \in Int
    OBVIOUS
  <2>. HIDE DEF f, Fine
  <2>3. Fine(f)
    BY <1>2, <2>1, <2>2
  <2>. QED
    BY <2>3 DEF Fine, f
<1>8. CASE key \in {"0", "HOME"}
  <2>. DEFINE c == line_start(e, e.cursor)
              d == At(e, c)
  <2>1. f = set_column(d)
    BY <1>8 DEF motion
  <2>2. StartsLine(e, c)
    BY <1>1, LineStart
  <2>3. c \in 0 .. Length(e)
    BY <1>1, <1>4
  <2>. HIDE DEF c
  <2>4. Shape(d) /\ SameBut(e, d) /\ d.cursor = c
    BY <2>3, AtIs
  <2>5. InText(d) /\ StartsLine(d, d.cursor)
    BY <2>2, <2>3, <2>4 DEF InText, StartsLine, SameBut, Char, Length
  <2>. HIDE DEF d
  <2>6. Rests(d) /\ Moved(d, set_column(d)) /\ (Rests(d) => Rests(set_column(d)))
    BY <2>4, <2>5, RestsIf, ColumnIs
  <2>. HIDE DEF f
  <2>7. Moved(e, f) /\ Rests(f)
    BY <2>1, <2>4, <2>6, MovedThen
  <2>. QED
    BY <2>7 DEF f
<1>9. CASE key = "^"
  <2>. DEFINE c == first_nonblank(e, e.cursor)
  <2>1. f = set_column(clamp_cursor(At(e, c)))
    BY <1>9 DEF motion
  <2>2. c \in line_start(e, e.cursor) .. Length(e)
    BY <1>1, Nonblank
  <2>3. c \in Int
    BY <1>1, <1>4, <2>2
  <2>. HIDE DEF f, c, Fine
  <2>4. Fine(f)
    BY <1>3, <2>1, <2>3
  <2>. QED
    BY <2>4 DEF Fine, f
<1>10. CASE key \in {"$", "END"}
  <2>. DEFINE m == move_lines(e, n - 1)
              c == line_end(m, m.cursor)
              d == clamp_cursor(At(m, c))
              top == EDIT_MAX
  <2>1. f = [d EXCEPT !.column = top]
    BY <1>10 DEF motion
  <2>2. Moved(e, m)
    BY LineMoves
  <2>. HIDE DEF m
  <2>3. Shape(m) /\ InText(m) /\ m.text \in Texts
    BY <2>2, Size DEF Moved
  <2>4. c \in Int
    BY <2>3, LineEnd DEF InText
  <2>. HIDE DEF c
  <2>5. Shape(At(m, c)) /\ SameBut(m, At(m, c))
    BY <2>3, <2>4, AtIs
  <2>6. Moved(At(m, c), d) /\ Rests(d)
    BY <2>5, ClampIs
  <2>. HIDE DEF d
  <2>7. Moved(m, d)
    BY <2>5, <2>6, MovedThen
  <2>8. Moved(e, d)
    BY <2>2, <2>7, MovedThen DEF Moved
  <2>9. top \in Int
    BY EditorAssumption
  <2>. HIDE DEF f, top
  <2>10. Shape(f) /\ SameBut(d, f) /\ f.cursor = d.cursor
    BY <2>1, <2>8, <2>9 DEF Moved, Shape, EditorType, SameBut
  <2>11. InText(f) /\ SameBut(e, f)
    BY <2>8, <2>10 DEF Moved, InText, SameBut, Length
  <2>12. Rests(f)
    BY <2>6, <2>8, <2>10, <2>11, OnEndIs, Size
       DEF Moved, Rests, SameBut, EndsLine, StartsLine, Char, Length, InText
  <2>. QED
    BY <2>10, <2>11, <2>12 DEF Moved, f
<1>11. CASE key \notin {"h", "LEFT", "l", "RIGHT", "j", "DOWN", "k", "UP",
                        "PAGE_DOWN", "PAGE_UP", "0", "HOME", "^", "$", "END"}
  <2>. DEFINE w == Words(e, key, n)
              d == clamp_cursor(w)
  <2>1. f = set_column(d)
    BY <1>11 DEF motion
  <2>2. Moved(e, w)
    BY WordsMove
  <2>. HIDE DEF w
  <2>3. Moved(w, d) /\ Rests(d)
    BY <2>2, ClampIs DEF Moved
  <2>. HIDE DEF d
  <2>4. Moved(d, f) /\ Rests(f)
    BY <2>1, <2>3, ColumnIs DEF Moved
  <2>. HIDE DEF f
  <2>5. Moved(e, f)
    BY <2>2, <2>3, <2>4, MovedThen DEF Moved
  <2>. QED
    BY <2>4, <2>5 DEF f
<1>. QED
  BY <1>5, <1>6, <1>7, <1>8, <1>9, <1>10, <1>11

-----------------------------------------------------------------------------
(* Changes of the text                                                     *)

(* all but the text and the mark for the changes                           *)
OtherText(e, f) ==
    /\ f.mode = e.mode /\ f.cursor = e.cursor /\ f.column = e.column
    /\ f.count = e.count /\ f.pending = e.pending
    /\ f.undo = e.undo /\ f.undo_cursor = e.undo_cursor
    /\ f.has_undo = e.has_undo

(* Taking the chars between two offsets out of a text (delete_text)        *)
LEMMA CutIs ==
    ASSUME NEW t \in Texts, NEW from \in 0 .. Len(t), NEW to \in from .. Len(t)
    PROVE  LET c == Cut(t, from, to)
           IN  /\ c \in Texts /\ Len(c) = Len(t) - (to - from)
               /\ \A p \in 1 .. from : c[p] = t[p]
               /\ \A p \in from + 1 .. Len(c) : c[p] = t[p + (to - from)]
<1>. DEFINE a == SubSeq(t, 1, from)
            b == SubSeq(t, to + 1, Len(t))
            c == a \o b
<1>1. Len(t) \in Nat
  BY DEF Texts
<1>2. a \in Texts /\ Len(a) = from /\ \A p \in 1 .. from : a[p] = t[p]
  BY <1>1 DEF Texts
<1>3. b \in Texts /\ Len(b) = Len(t) - to /\ \A p \in 1 .. Len(b) : b[p] = t[p + to]
  BY <1>1 DEF Texts
<1>. HIDE DEF a, b
<1>4. c \in Texts /\ Len(c) = Len(a) + Len(b)
  BY <1>2, <1>3, ConcatProperties DEF Texts
<1>5. ASSUME NEW p \in 1 .. from PROVE c[p] = t[p]
  BY <1>1, <1>2, <1>3 DEF Texts
<1>6. ASSUME NEW p \in from + 1 .. Len(c) PROVE c[p] = t[p + (to - from)]
  <2>1. c[p] = b[p - from] /\ p - from \in 1 .. Len(b)
    BY <1>1, <1>2, <1>3, <1>4 DEF Texts
  <2>2. b[p - from] = t[(p - from) + to]
    BY <1>3, <2>1
  <2>3. (p - from) + to = p + (to - from)
    BY <1>1
  <2>. QED
    BY <2>1, <2>2, <2>3
<1>7. Cut(t, from, to) = c
  BY DEF Cut, a, b
<1>8. Len(c) = Len(t) - (to - from)
  BY <1>1, <1>2, <1>3, <1>4
<1>. HIDE DEF c
<1>. QED
  BY <1>4, <1>5, <1>6, <1>7, <1>8

(* Putting a text into another one (insert_text)                           *)
LEMMA PastedIs ==
    ASSUME NEW t \in Texts, NEW s \in Texts, NEW pos \in 0 .. Len(t)
    PROVE  LET c == SubSeq(t, 1, pos) \o s \o SubSeq(t, pos + 1, Len(t))
           IN  /\ c \in Texts /\ Len(c) = Len(t) + Len(s)
               /\ \A p \in 1 .. pos : c[p] = t[p]
               /\ \A p \in 1 .. Len(s) : c[pos + p] = s[p]
               /\ \A p \in pos + 1 .. Len(t) : c[p + Len(s)] = t[p]
<1>. DEFINE a == SubSeq(t, 1, pos)
            b == SubSeq(t, pos + 1, Len(t))
            d == a \o s
            c == d \o b
<1>1. Len(t) \in Nat /\ Len(s) \in Nat
  BY DEF Texts
<1>2. a \in Texts /\ Len(a) = pos /\ \A p \in 1 .. pos : a[p] = t[p]
  BY <1>1 DEF Texts
<1>3. b \in Texts /\ Len(b) = Len(t) - pos /\ \A p \in 1 .. Len(b) : b[p] = t[p + pos]
  BY <1>1 DEF Texts
<1>. HIDE DEF a, b
<1>4. /\ d \in Texts /\ Len(d) = pos + Len(s)
      /\ \A p \in 1 .. pos : d[p] = t[p]
      /\ \A p \in 1 .. Len(s) : d[pos + p] = s[p]
  <2>1. /\ d \in Texts /\ Len(d) = Len(a) + Len(s)
        /\ \A i \in 1 .. Len(a) + Len(s) :
               d[i] = IF i <= Len(a) THEN a[i] ELSE s[i - Len(a)]
    BY <1>2, ConcatProperties DEF Texts
  <2>. HIDE DEF d
  <2>2. ASSUME NEW p \in 1 .. Len(s) PROVE d[pos + p] = s[p]
    <3>1. pos + p \in 1 .. Len(a) + Len(s) /\ ~ (pos + p <= Len(a)) /\ (pos + p) - pos = p
      BY <1>1, <1>2
    <3>. QED
      BY <1>2, <2>1, <3>1
  <2>. QED
    BY <1>1, <1>2, <2>1, <2>2
<1>. HIDE DEF d
<1>5. /\ c \in Texts /\ Len(c) = Len(t) + Len(s)
      /\ \A p \in 1 .. pos + Len(s) : c[p] = d[p]
  <2>1. /\ c \in Texts /\ Len(c) = Len(d) + Len(b)
        /\ \A i \in 1 .. Len(d) + Len(b) :
               c[i] = IF i <= Len(d) THEN d[i] ELSE b[i - Len(d)]
    BY <1>3, <1>4, ConcatProperties DEF Texts
  <2>. HIDE DEF c
  <2>. QED
    BY <1>1, <1>3, <1>4, <2>1
<1>6. ASSUME NEW p \in pos + 1 .. Len(t) PROVE c[p + Len(s)] = t[p]
  <2>1. c[p + Len(s)] = b[p - pos] /\ p - pos \in 1 .. Len(b)
    BY <1>1, <1>3, <1>4, <1>5 DEF Texts
  <2>2. b[p - pos] = t[(p - pos) + pos] /\ (p - pos) + pos = p
    BY <1>1, <1>3, <2>1
  <2>. QED
    BY <2>1, <2>2
<1>. HIDE DEF c
<1>7. /\ \A p \in 1 .. pos : c[p] = t[p]
      /\ \A p \in 1 .. Len(s) : c[pos + p] = s[p]
  BY <1>1, <1>4, <1>5
<1>. QED
  BY <1>5, <1>6, <1>7 DEF c, d, a, b

(* The chars before a deletion stay, the ones behind it move up            *)
(* (delete_text).                                                          *)
LEMMA Deletes ==
    ASSUME NEW e, Shape(e),
           NEW from \in 0 .. Length(e), NEW to \in from .. Length(e)
    PROVE  LET f == delete_text(e, from, to)
           IN  /\ Shape(f) /\ OtherText(e, f) /\ f.modified
               /\ Length(f) = Length(e) - (to - from)
               /\ \A p \in 0 .. from - 1 : Char(f, p) = Char(e, p)
               /\ \A p \in from .. Length(f) - 1 :
                      Char(f, p) = Char(e, p + (to - from))
<1>. DEFINE c == Cut(e.text, from, to)
            f == delete_text(e, from, to)
<1>1. Length(e) \in Nat /\ Length(e) <= EDIT_MAX /\ EDIT_MAX \in Nat /\ e.text \in Texts
  BY Size
<1>2. /\ c \in Texts /\ Len(c) = Length(e) - (to - from)
      /\ \A p \in 1 .. from : c[p] = e.text[p]
      /\ \A p \in from + 1 .. Len(c) : c[p] = e.text[p + (to - from)]
  BY <1>1, CutIs DEF Length
<1>3. f = [e EXCEPT !.text = c, !.modified = TRUE]
  BY DEF delete_text
<1>. HIDE DEF c, f
<1>4. Len(c) \in Nat /\ Len(c) <= EDIT_MAX
  BY <1>1, <1>2
<1>5. f.text = c /\ f.modified /\ OtherText(e, f) /\ Shape(f)
  BY <1>2, <1>3, <1>4 DEF Shape, EditorType, OtherText
<1>6. ASSUME NEW p \in 0 .. from - 1 PROVE Char(f, p) = Char(e, p)
  BY <1>1, <1>2, <1>5 DEF Char
<1>7. ASSUME NEW p \in from .. Len(c) - 1
      PROVE  Char(f, p) = Char(e, p + (to - from))
  <2>1. p + 1 \in from + 1 .. Len(c) /\ (p + 1) + (to - from) = (p + (to - from)) + 1
    BY <1>1, <1>4
  <2>. QED
    BY <1>2, <1>5, <2>1 DEF Char
<1>8. Length(f) = Len(c)
  BY <1>5 DEF Length
<1>. QED
  BY <1>2, <1>5, <1>6, <1>7, <1>8 DEF f

(* The chars before an insertion stay, the ones behind it move on, and the *)
(* buffer is not left (insert_text).                                       *)
LEMMA Inserts ==
    ASSUME NEW e, Shape(e), NEW str \in Texts, Fits(e, str),
           NEW pos \in 0 .. Length(e)
    PROVE  LET f == insert_text(e, pos, str)
           IN  /\ Shape(f) /\ OtherText(e, f) /\ f.modified
               /\ Length(f) = Length(e) + Len(str)
               /\ \A p \in 0 .. pos - 1 : Char(f, p) = Char(e, p)
               /\ \A p \in 1 .. Len(str) : Char(f, pos + p - 1) = str[p]
               /\ \A p \in pos .. Length(e) - 1 :
                      Char(f, p + Len(str)) = Char(e, p)
<1>. DEFINE c == SubSeq(e.text, 1, pos) \o str
                     \o SubSeq(e.text, pos + 1, Len(e.text))
            f == insert_text(e, pos, str)
<1>1. /\ Length(e) \in Nat /\ EDIT_MAX \in Nat /\ e.text \in Texts
      /\ Len(str) \in Nat /\ Len(e.text) = Length(e)
  BY Size DEF Texts, Length
<1>2. /\ c \in Texts /\ Len(c) = Length(e) + Len(str)
      /\ \A p \in 1 .. pos : c[p] = e.text[p]
      /\ \A p \in 1 .. Len(str) : c[pos + p] = str[p]
      /\ \A p \in pos + 1 .. Length(e) : c[p + Len(str)] = e.text[p]
  BY <1>1, PastedIs DEF Length
<1>3. f = [e EXCEPT !.text = c, !.modified = TRUE]
  BY DEF insert_text
<1>. HIDE DEF c, f
<1>4. Len(c) \in Nat /\ Len(c) <= EDIT_MAX
  BY <1>1, <1>2 DEF Fits
<1>5. f.text = c /\ f.modified /\ OtherText(e, f) /\ Shape(f)
  BY <1>2, <1>3, <1>4 DEF Shape, EditorType, OtherText
<1>6. ASSUME NEW p \in 0 .. pos - 1 PROVE Char(f, p) = Char(e, p)
  BY <1>1, <1>2, <1>5 DEF Char
<1>7. ASSUME NEW p \in 1 .. Len(str) PROVE Char(f, pos + p - 1) = str[p]
  <2>1. (pos + p - 1) + 1 = pos + p
    BY <1>1
  <2>. QED
    BY <1>2, <1>5, <2>1 DEF Char
<1>8. ASSUME NEW p \in pos .. Length(e) - 1
      PROVE  Char(f, p + Len(str)) = Char(e, p)
  <2>1. p + 1 \in pos + 1 .. Length(e) /\ (p + Len(str)) + 1 = (p + 1) + Len(str)
    BY <1>1
  <2>. QED
    BY <1>2, <1>5, <2>1 DEF Char
<1>9. Length(f) = Len(c)
  BY <1>5 DEF Length
<1>. QED
  BY <1>2, <1>5, <1>6, <1>7, <1>8, <1>9 DEF f

-----------------------------------------------------------------------------
(* Commands                                                                *)

(* a text that changed is marked                                           *)
Marked(e, f) == f.modified \/ (f.text = e.text /\ f.modified = e.modified)

(* the text is as before, and so is its copy                               *)
Left(e, f) ==
    /\ f.text = e.text /\ f.undo = e.undo /\ f.has_undo = e.has_undo
    /\ f.mode = "insert" => e.mode = "insert"

(* the copy is the text from before the command                            *)
Copied(e, f) == f.undo = e.text /\ f.has_undo

(* what a command of normal mode may make of the text and of its copy      *)
Owed(e, f) ==
    /\ Marked(e, f) /\ (Left(e, f) \/ Copied(e, f))
    /\ f.pending = e.pending /\ (f.mode = "command" => e.mode = "command")

Fine(e, f) ==
    Shape(f) /\ InText(f) /\ Owed(e, f) /\ (Rests(e) => Rests(f))

LEMMA OwedMoved ==
    ASSUME NEW e, NEW f, NEW g, Owed(e, f), SameBut(f, g)
    PROVE  Owed(e, g)
BY DEF Owed, Marked, Left, Copied, SameBut

LEMMA MovedOwed ==
    ASSUME NEW e, NEW f, NEW g, SameBut(e, f), Owed(f, g)
    PROVE  Owed(e, g)
BY DEF Owed, Marked, Left, Copied, SameBut

LEMMA MovedFine ==
    ASSUME NEW e, NEW f, Moved(e, f), Rests(e) => Rests(f)
    PROVE  Fine(e, f)
BY DEF Fine, Owed, Marked, Left, Moved, SameBut

(* The cursor is set after a change (put, operator, normal_key).           *)
LEMMA FineTo ==
    ASSUME NEW e, NEW f, Shape(f), Owed(e, f), NEW c \in Int
    PROVE  /\ Fine(e, set_column(clamp_cursor(At(f, c))))
           /\ Rests(set_column(clamp_cursor(At(f, c))))
<1>. DEFINE g == set_column(clamp_cursor(At(f, c)))
<1>1. Moved(f, g) /\ Rests(g)
  BY MovesTo
<1>. HIDE DEF g
<1>2. Owed(e, g)
  BY <1>1, OwedMoved DEF Moved
<1>3. Fine(e, g)
  BY <1>1, <1>2 DEF Fine, Moved
<1>. QED
  BY <1>1, <1>3 DEF g

LEMMA FineClamped ==
    ASSUME NEW e, NEW f, Shape(f), Owed(e, f)
    PROVE  /\ Fine(e, clamp_cursor(f)) /\ Fine(e, set_column(clamp_cursor(f)))
           /\ Rests(set_column(clamp_cursor(f)))
<1>. DEFINE d == clamp_cursor(f)
            g == set_column(d)
<1>1. Moved(f, d) /\ Rests(d)
  BY ClampIs
<1>. HIDE DEF d
<1>2. Owed(e, d)
  BY <1>1, OwedMoved DEF Moved
<1>3. Moved(d, g) /\ Rests(g)
  BY <1>1, ColumnIs DEF Moved
<1>. HIDE DEF g
<1>4. Owed(e, g)
  BY <1>2, <1>3, OwedMoved DEF Moved
<1>5. Fine(e, d) /\ Fine(e, g)
  BY <1>1, <1>2, <1>3, <1>4 DEF Fine, Moved
<1>. QED
  BY <1>3, <1>5 DEF d, g

(* The column of a cursor that rests (X, J)                                *)
LEMMA FineColumn ==
    ASSUME NEW e, NEW f, Fine(e, f)
    PROVE  Fine(e, set_column(f))
<1>. DEFINE g == set_column(f)
<1>1. Moved(f, g) /\ (Rests(f) => Rests(g))
  BY ColumnIs DEF Fine
<1>. HIDE DEF g
<1>2. Owed(e, g)
  BY <1>1, OwedMoved DEF Fine, Moved
<1>3. Fine(e, g)
  BY <1>1, <1>2 DEF Fine, Moved
<1>. QED
  BY <1>3 DEF g

(* The copy u goes back to (save_undo)                                     *)
LEMMA Saves ==
    ASSUME NEW e, Shape(e), InText(e)
    PROVE  LET f == save_undo(e)
           IN  /\ Shape(f) /\ InText(f) /\ f.text = e.text /\ f.undo = e.text
               /\ f.has_undo /\ f.modified = e.modified /\ f.mode = e.mode
               /\ f.cursor = e.cursor /\ f.pending = e.pending
               /\ f.count = e.count /\ Length(f) = Length(e)
               /\ (Rests(e) => Rests(f)) /\ Fine(e, f)
<1>. DEFINE f == save_undo(e)
            t == e.text
            c == e.cursor
<1>1. f = [e EXCEPT !.undo = t, !.undo_cursor = c, !.has_undo = TRUE]
  BY DEF save_undo
<1>2. t \in Texts /\ Len(t) <= EDIT_MAX /\ c \in Nat /\ Length(e) = Len(t)
  BY Size DEF InText, Length
<1>3. t = e.text /\ c = e.cursor
  OBVIOUS
<1>. HIDE DEF f, t, c
<1>4. /\ Shape(f) /\ f.text = t /\ f.undo = t /\ f.has_undo
      /\ f.modified = e.modified /\ f.mode = e.mode /\ f.cursor = e.cursor
      /\ f.pending = e.pending /\ f.count = e.count
  BY <1>1, <1>2, <1>3 DEF Shape, EditorType
<1>5. Length(f) = Length(e) /\ InText(f)
  BY <1>2, <1>3, <1>4 DEF Length, InText
<1>6. Rests(e) => Rests(f)
  BY <1>2, <1>3, <1>4, <1>5, OnEndIs
     DEF Rests, EndsLine, StartsLine, Char, Length, InText
<1>7. Owed(e, f)
  BY <1>3, <1>4 DEF Owed, Marked, Copied
<1>. QED
  BY <1>3, <1>4, <1>5, <1>6, <1>7 DEF f, Fine

(* Deleting and inserting behind a copy (operator, x, X, o, put)           *)
LEMMA DeletesFrom ==
    ASSUME NEW e, Shape(e), InText(e),
           NEW from \in 0 .. Length(e), NEW to \in from .. Length(e)
    PROVE  LET f == delete_text(save_undo(e), from, to)
           IN  /\ Shape(f) /\ Owed(e, f) /\ f.mode = e.mode
               /\ f.cursor = e.cursor
               /\ Length(f) = Length(e) - (to - from)
               /\ \A p \in 0 .. from - 1 : Char(f, p) = Char(e, p)
               /\ \A p \in from .. Length(f) - 1 :
                      Char(f, p) = Char(e, p + (to - from))
<1>. DEFINE g == save_undo(e)
            f == delete_text(g, from, to)
<1>1. /\ Shape(g) /\ g.text = e.text /\ g.undo = e.text /\ g.has_undo
      /\ g.mode = e.mode /\ g.cursor = e.cursor /\ g.pending = e.pending
      /\ Length(g) = Length(e)
  BY Saves
<1>. HIDE DEF g
<1>2. /\ Shape(f) /\ OtherText(g, f) /\ f.modified
      /\ Length(f) = Length(g) - (to - from)
      /\ \A p \in 0 .. from - 1 : Char(f, p) = Char(g, p)
      /\ \A p \in from .. Length(f) - 1 : Char(f, p) = Char(g, p + (to - from))
  BY <1>1, Deletes
<1>. HIDE DEF f
<1>3. \A p : Char(g, p) = Char(e, p)
  BY <1>1 DEF Char
<1>4. Owed(e, f) /\ f.mode = e.mode /\ f.cursor = e.cursor
  BY <1>1, <1>2 DEF Owed, Marked, Copied, OtherText
<1>. QED
  BY <1>1, <1>2, <1>3, <1>4 DEF f, g

LEMMA InsertsAt ==
    ASSUME NEW e, Shape(e), InText(e), NEW str \in Texts, Fits(e, str),
           NEW pos \in 0 .. Length(e)
    PROVE  LET f == insert_text(save_undo(e), pos, str)
           IN  /\ Shape(f) /\ Owed(e, f) /\ f.mode = e.mode
               /\ f.cursor = e.cursor
               /\ f.undo = e.text /\ f.has_undo /\ f.modified
               /\ f.pending = e.pending
               /\ Length(f) = Length(e) + Len(str)
               /\ \A p \in 0 .. pos - 1 : Char(f, p) = Char(e, p)
               /\ \A p \in 1 .. Len(str) : Char(f, pos + p - 1) = str[p]
               /\ \A p \in pos .. Length(e) - 1 :
                      Char(f, p + Len(str)) = Char(e, p)
<1>. DEFINE g == save_undo(e)
            f == insert_text(g, pos, str)
<1>1. /\ Shape(g) /\ g.text = e.text /\ g.undo = e.text /\ g.has_undo
      /\ g.mode = e.mode /\ g.cursor = e.cursor /\ g.pending = e.pending
      /\ Length(g) = Length(e)
  BY Saves
<1>. HIDE DEF g
<1>2. Fits(g, str)
  BY <1>1 DEF Fits
<1>3. /\ Shape(f) /\ OtherText(g, f) /\ f.modified
      /\ Length(f) = Length(g) + Len(str)
      /\ \A p \in 0 .. pos - 1 : Char(f, p) = Char(g, p)
      /\ \A p \in 1 .. Len(str) : Char(f, pos + p - 1) = str[p]
      /\ \A p \in pos .. Length(g) - 1 : Char(f, p + Len(str)) = Char(g, p)
  BY <1>1, <1>2, Inserts
<1>. HIDE DEF f
<1>4. \A p : Char(g, p) = Char(e, p)
  BY <1>1 DEF Char
<1>5. /\ Owed(e, f) /\ f.mode = e.mode /\ f.cursor = e.cursor
      /\ f.undo = e.text /\ f.has_undo /\ f.pending = e.pending
  BY <1>1, <1>3 DEF Owed, Marked, Copied, OtherText
<1>. QED
  BY <1>1, <1>3, <1>4, <1>5 DEF f, g

(* What goes into the register fits it (yank).                             *)
LEMMA YankIs ==
    ASSUME NEW e, Shape(e), NEW from \in 0 .. Length(e),
           NEW to \in 0 .. Length(e), NEW lines \in BOOLEAN
    PROVE  yank(e, from, to, lines) \in Registers
<1>. DEFINE s == Between(e, from, to)
<1>1. Length(e) \in Nat /\ Length(e) <= EDIT_MAX /\ e.text \in Texts /\ EDIT_MAX \in Nat
  BY Size
<1>2. \A i \in from + 1 .. to : e.text[i] \in TextChars
  BY <1>1 DEF Texts, Length
<1>3. s \in Texts /\ Len(s) <= EDIT_MAX
  <2>1. s \in Texts /\ Len(s) = IF from + 1 <= to THEN to - (from + 1) + 1 ELSE 0
    BY <1>1, <1>2, SubSeqProperties DEF Texts, Between
  <2>. HIDE DEF s
  <2>. QED
    BY <1>1, <2>1
<1>. HIDE DEF s
<1>4. yank(e, from, to, lines) = [text |-> s, lines |-> lines]
  BY DEF yank, s
<1>. QED
  BY <1>3, <1>4 DEF Registers, Texts

(* a command gives an editor and a register                                *)
Does(e, out) == Fine(e, out.ed) /\ out.reg \in Registers

LEMMA BothDone ==
    ASSUME NEW e, NEW f, Fine(e, f), NEW r \in Registers
    PROVE  Does(e, Both(f, r))
BY DEF Does, Both

(* The line the lines from the cursor's on end with is no earlier one, so  *)
(* that whole lines are a range (operator).                                *)
LEMMA RangeEndIs ==
    ASSUME NEW e, Shape(e), InText(e), NEW n \in Nat \ {0}
    PROVE  /\ line_start(e, e.cursor) \in 0 .. Length(e)
           /\ RangeEnd(e, n) \in line_start(e, e.cursor) .. Length(e)
<1>. DEFINE from == line_start(e, e.cursor)
            l == edit_cursor_line(e)
            m == l + n - 1
            s == line_pos(e, m)
            to == line_end(e, s)
<1>1. Length(e) \in Nat /\ e.cursor \in 0 .. Length(e) /\ e.text \in Texts
  BY Size DEF InText
<1>2. from \in 0 .. e.cursor /\ StartsLine(e, from)
  BY <1>1, LineStart
<1>. HIDE DEF from
<1>3. /\ l \in Nat
      /\ Cardinality({q \in 1 .. from : e.text[q] = NL}) \in Nat
      /\ Cardinality({q \in 1 .. from : e.text[q] = NL}) <= l
  <2>1. from \in Nat /\ e.cursor \in Nat /\ from <= e.cursor
    BY <1>1, <1>2
  <2>. QED
    BY <2>1, Breaks DEF edit_cursor_line
<1>. HIDE DEF l
<1>4. /\ m \in Nat
      /\ Cardinality({q \in 1 .. from : e.text[q] = NL}) <= m
  BY <1>3
<1>. HIDE DEF m
<1>5. s \in 0 .. Length(e) /\ from <= s
  <2>1. from \in 0 .. Length(e)
    BY <1>1, <1>2
  <2>2. s \in 0 .. Length(e)
    BY <1>1, <1>4, LinePos
  <2>3. \A p \in 0 .. Length(e) :
           /\ StartsLine(e, p)
           /\ Cardinality({q \in 1 .. p : e.text[q] = NL}) <= m
           => p <= s
    BY <1>1, <1>4, LinePos
  <2>. QED
    BY <1>2, <1>4, <2>1, <2>2, <2>3
<1>. HIDE DEF s
<1>6. to \in s .. Length(e)
  BY <1>1, <1>5, LineEnd
<1>7. RangeEnd(e, n) = to
  BY DEF RangeEnd, to, s, m, l
<1>. HIDE DEF to
<1>. QED
  BY <1>1, <1>2, <1>5, <1>6, <1>7 DEF from

(* Beginning to insert at an offset (start_insert, o, O, c)                *)
LEMMA Inserting ==
    ASSUME NEW e, NEW f, Shape(f), Owed(e, f), Copied(e, f),
           NEW c \in 0 .. Length(f)
    PROVE  LET g == [At(f, c) EXCEPT !.mode = "insert"]
           IN  /\ Fine(e, g) /\ Fine(e, set_column(g))
               /\ Fine(e, clamp_cursor(g)) /\ Fine(e, set_column(clamp_cursor(g)))
<1>. DEFINE d == At(f, c)
            g == [d EXCEPT !.mode = "insert"]
<1>1. Shape(d) /\ SameBut(f, d) /\ d.cursor = c
  <2>1. c \in Int
    BY Size
  <2>. QED
    BY <2>1, AtIs
<1>. HIDE DEF d
<1>2. /\ Shape(g) /\ g.text = f.text /\ g.undo = f.undo /\ g.pending = f.pending
      /\ g.has_undo = f.has_undo /\ g.modified = f.modified
      /\ g.cursor = c /\ g.mode = "insert"
  BY <1>1 DEF Shape, EditorType, SameBut, Modes
<1>. HIDE DEF g
<1>3. Owed(e, g)
  BY <1>2 DEF Owed, Marked, Copied
<1>4. InText(g) /\ Rests(g)
  BY <1>2 DEF InText, Length, Rests
<1>5. Fine(e, g)
  BY <1>2, <1>3, <1>4 DEF Fine
<1>6. Fine(e, set_column(g)) /\ Fine(e, clamp_cursor(g)) /\ Fine(e, set_column(clamp_cursor(g)))
  BY <1>2, <1>3, <1>5, FineColumn, FineClamped
<1>. QED
  BY <1>5, <1>6 DEF g, d

(* Whole lines: dd, yj, ck and the like (operator)                         *)
LEMMA LinesDone ==
    ASSUME NEW e0, Shape(e0), InText(e0), NEW op, NEW key, NEW n \in Nat \ {0}
    PROVE  Does(e0, OperatorLines(e0, op, key, n))
<1>. DEFINE e == IF key = "k" THEN move_lines(e0, -n) ELSE e0
            from == line_start(e, e.cursor)
            k == IF key = op THEN n ELSE n + 1
            to == RangeEnd(e, k)
            r == yank(e, from, to, TRUE)
            d == delete_lines(save_undo(e), from, to)
            b == delete_text(save_undo(e), from, to)
            c == At(b, from)
            at == first_nonblank(d, d.cursor)
            out == OperatorLines(e0, op, key, n)
<1>1. Moved(e0, e) /\ (Rests(e0) => Rests(e))
  <2>1. -n \in Int
    OBVIOUS
  <2>. QED
    BY <2>1, LineMoves, MovedNot
<1>2. /\ op = "y" => out = Both(clamp_cursor(e), r)
      /\ op = "d" => out = Both(set_column(clamp_cursor(At(d, at))), r)
      /\ op # "y" /\ op # "d" =>
             out = Both(set_column([c EXCEPT !.mode = "insert"]), r)
  BY DEF OperatorLines
<1>. HIDE DEF e, out
<1>3. Shape(e) /\ InText(e) /\ SameBut(e0, e) /\ Length(e) \in Nat
  BY <1>1, Size DEF Moved
<1>4. k \in Nat \ {0}
  OBVIOUS
<1>. HIDE DEF k
<1>5. from \in 0 .. Length(e) /\ to \in from .. Length(e)
  BY <1>3, <1>4, RangeEndIs
<1>. HIDE DEF from, to
<1>6. r \in Registers
  <2>1. to \in 0 .. Length(e)
    BY <1>3, <1>5
  <2>. QED
    BY <1>3, <1>5, <2>1, YankIs
<1>. HIDE DEF r
<1>7. \A f : Owed(e, f) => Owed(e0, f)
  BY <1>3, MovedOwed
<1>8. CASE op = "y"
  <2>1. Owed(e, e)
    BY DEF Owed, Marked, Left
  <2>2. Fine(e0, clamp_cursor(e))
    BY <1>3, <1>7, <2>1, FineClamped
  <2>. QED
    BY <1>2, <1>6, <1>8, <2>2, BothDone DEF out
<1>9. CASE op = "d"
  <2>. DEFINE last == IF to < Length(e) THEN to + 1 ELSE to
              first == IF to < Length(e) \/ from = 0 THEN from ELSE from - 1
              f == delete_text(save_undo(e), first, last)
  <2>1. first \in 0 .. Length(e) /\ last \in first .. Length(e)
    BY <1>3, <1>5
  <2>2. d = At(f, first)
    <3>1. Length(save_undo(e)) = Length(e)
      BY <1>3, Saves
    <3>. QED
      BY <3>1 DEF delete_lines, last, first
  <2>. HIDE DEF d, first, last
  <2>3. Shape(f) /\ Owed(e, f) /\ Length(f) = Length(e) - (last - first)
    BY <1>3, <2>1, DeletesFrom
  <2>. HIDE DEF f
  <2>4. first \in Int /\ first \in 0 .. Length(f)
    BY <1>3, <2>1, <2>3
  <2>5. Shape(d) /\ SameBut(f, d) /\ d.cursor = first
    BY <2>2, <2>3, <2>4, AtIs
  <2>6. Owed(e0, d) /\ d.cursor \in 0 .. Length(d) /\ d.text \in Texts
    BY <1>7, <2>3, <2>4, <2>5, OwedMoved, Size DEF SameBut, Length
  <2>7. at \in Int
    <3>1. at \in line_start(d, d.cursor) .. Length(d) /\ d.cursor \in Nat
      BY <2>6, Nonblank, <2>5, Size
    <3>2. line_start(d, d.cursor) \in 0 .. d.cursor /\ Length(d) \in Nat
      BY <2>5, <3>1, LineStart, Size
    <3>. HIDE DEF at
    <3>. QED
      BY <3>1, <3>2
  <2>. HIDE DEF at
  <2>8. Fine(e0, set_column(clamp_cursor(At(d, at))))
    BY <2>5, <2>6, <2>7, FineTo
  <2>. QED
    BY <1>2, <1>6, <1>9, <2>8, BothDone DEF out
<1>10. CASE op # "y" /\ op # "d"
  <2>1. Shape(b) /\ Owed(e, b) /\ Length(b) = Length(e) - (to - from)
    BY <1>3, <1>5, DeletesFrom
  <2>2. b.undo = e.text /\ b.has_undo
    BY <1>3, Saves DEF delete_text
  <2>. HIDE DEF b
  <2>3. from \in 0 .. Length(b) /\ Owed(e0, b) /\ Copied(e0, b)
    BY <1>3, <1>5, <1>7, <2>1, <2>2 DEF Copied, SameBut
  <2>4. Fine(e0, set_column([c EXCEPT !.mode = "insert"]))
    BY <2>1, <2>3, Inserting
  <2>. QED
    BY <1>2, <1>6, <1>10, <2>4, BothDone DEF out
<1>. QED
  BY <1>8, <1>9, <1>10

(* A motion's chars: dw, ye, c$ and the like (operator)                    *)
LEMMA CharsDone ==
    ASSUME NEW e, Shape(e), InText(e), NEW op, NEW key0, NEW n \in Nat \ {0}
    PROVE  Does(e, OperatorChars(e, op, key0, n))
<1>. DEFINE key == IF op = "c" /\ key0 = "w" THEN "e" ELSE key0
            moved == motion(e, key, n)
            end == Reach(e, key, moved.cursor)
            from == Least(e.cursor, end)
            to == Most(e.cursor, end)
            back == At(moved, e.cursor)
            r == yank(e, from, to, FALSE)
            b == delete_text(save_undo(back), from, to)
            cut == At(b, from)
            out == OperatorChars(e, op, key0, n)
<1>1. /\ op = "y" => out = Both(clamp_cursor(At(back, from)), r)
      /\ op = "c" => out = Both(set_column(clamp_cursor(
                                  [cut EXCEPT !.mode = "insert"])), r)
      /\ op # "y" /\ op # "c" => out = Both(set_column(clamp_cursor(cut)), r)
  BY DEF OperatorChars
<1>2. Moved(e, moved)
  BY MotionMoves
<1>. HIDE DEF out, key, moved
<1>3. /\ Length(e) \in Nat /\ e.cursor \in 0 .. Length(e) /\ e.cursor \in Int
      /\ e.text \in Texts /\ Shape(moved) /\ SameBut(e, moved)
      /\ moved.cursor \in 0 .. Length(e)
  BY <1>2, Size DEF Moved, SameBut, InText, Length
<1>4. end \in 0 .. Length(e)
  <2>1. line_end(e, e.cursor) \in 0 .. Length(e)
    BY <1>3, LineEnd
  <2>. QED
    BY <1>3, <2>1 DEF Reach, Least
<1>. HIDE DEF end
<1>5. from \in 0 .. Length(e) /\ to \in from .. Length(e) /\ to \in 0 .. Length(e)
  BY <1>3, <1>4 DEF Least, Most
<1>. HIDE DEF from, to
<1>6. r \in Registers
  BY <1>5, YankIs
<1>7. Shape(back) /\ SameBut(moved, back) /\ back.cursor = e.cursor
  BY <1>3, AtIs
<1>. HIDE DEF r, back
<1>8. InText(back) /\ SameBut(e, back) /\ Length(back) = Length(e)
  BY <1>3, <1>7 DEF InText, SameBut, Length
<1>9. CASE op = "y"
  <2>1. from \in Int
    BY <1>3, <1>5
  <2>2. Shape(At(back, from)) /\ SameBut(back, At(back, from))
    BY <1>7, <2>1, AtIs
  <2>3. Owed(e, At(back, from))
    BY <1>8, <2>2 DEF Owed, Marked, Left, SameBut
  <2>4. Fine(e, clamp_cursor(At(back, from)))
    BY <2>2, <2>3, FineClamped
  <2>. QED
    BY <1>1, <1>6, <1>9, <2>4, BothDone DEF out
<1>10. /\ Shape(b) /\ Owed(e, b) /\ Copied(e, b)
       /\ Length(b) = Length(e) - (to - from)
  <2>1. Shape(b) /\ Owed(back, b) /\ Length(b) = Length(e) - (to - from)
    BY <1>5, <1>7, <1>8, DeletesFrom
  <2>2. b.undo = back.text /\ b.has_undo
    BY <1>7, <1>8, Saves DEF delete_text
  <2>. HIDE DEF b
  <2>. QED
    BY <1>8, <2>1, <2>2, MovedOwed DEF Copied, SameBut
<1>. HIDE DEF b
<1>11. from \in 0 .. Length(b) /\ from \in Int
  BY <1>3, <1>5, <1>10
<1>12. CASE op = "c"
  <2>1. Fine(e, set_column(clamp_cursor([cut EXCEPT !.mode = "insert"])))
    BY <1>10, <1>11, Inserting
  <2>. QED
    BY <1>1, <1>6, <1>12, <2>1, BothDone DEF out
<1>13. CASE op # "y" /\ op # "c"
  <2>1. Fine(e, set_column(clamp_cursor(cut)))
    BY <1>10, <1>11, FineTo
  <2>. QED
    BY <1>1, <1>6, <1>13, <2>1, BothDone DEF out
<1>. QED
  BY <1>9, <1>12, <1>13

(* An operator with its motion, or with a key that is none (operator)      *)
LEMMA OperatorDone ==
    ASSUME NEW e, Shape(e), InText(e), NEW r \in Registers,
           NEW op \in {"d", "c", "y"}, NEW key,
           NEW n \in Nat \ {0}
    PROVE  Does(e, operator(e, r, op, key, n))
<1>1. CASE key \in {op, "j", "k"}
  <2>1. operator(e, r, op, key, n) = OperatorLines(e, op, key, n)
    BY <1>1 DEF operator, Motions
  <2>. QED
    BY <2>1, LinesDone
<1>2. CASE key \notin {op, "j", "k"} /\ key \in Motions \ {"j", "k"}
  <2>1. operator(e, r, op, key, n) = OperatorChars(e, op, key, n)
    BY <1>2 DEF operator
  <2>. QED
    BY <2>1, CharsDone
<1>3. CASE key \notin {op, "j", "k"} /\ key \notin Motions \ {"j", "k"}
  <2>1. operator(e, r, op, key, n) = Both(e, r)
    BY <1>3 DEF operator
  <2>2. Fine(e, e)
    BY MovedNot, MovedFine
  <2>. QED
    BY <2>1, <2>2, BothDone
<1>. QED
  BY <1>1, <1>2, <1>3

LEMMA NotDone ==
    ASSUME NEW e, Shape(e), InText(e)
    PROVE  Fine(e, e)
BY MovedNot, MovedFine

(* x (normal_key)                                                          *)
LEMMA UnderDone ==
    ASSUME NEW e, Shape(e), InText(e), NEW r \in Registers, NEW n \in Nat \ {0}
    PROVE  Does(e, DeleteUnder(e, r, n))
<1>. DEFINE c == e.cursor
            end == line_end(e, c)
            to == Least(c + n, end)
            f == delete_text(save_undo(e), c, to)
            y == yank(e, c, to, FALSE)
<1>1. Length(e) \in Nat /\ c \in 0 .. Length(e) /\ e.text \in Texts
  BY Size DEF InText
<1>2. end \in c .. Length(e)
  BY <1>1, LineEnd
<1>3. DeleteUnder(e, r, n) = IF c = end THEN Both(e, r) ELSE Both(clamp_cursor(f), y)
  BY DEF DeleteUnder
<1>. HIDE DEF end
<1>4. to \in c .. Length(e) /\ to \in 0 .. Length(e)
  BY <1>1, <1>2 DEF Least
<1>. HIDE DEF to
<1>5. Shape(f) /\ Owed(e, f)
  BY <1>1, <1>4, DeletesFrom
<1>6. y \in Registers
  BY <1>1, <1>4, YankIs
<1>7. Fine(e, clamp_cursor(f))
  BY <1>5, FineClamped
<1>. HIDE DEF f, y, c
<1>. QED
  BY <1>3, <1>6, <1>7, NotDone, BothDone

(* X: the char the cursor is on moves with it and stays one (normal_key).  *)
LEMMA BeforeDone ==
    ASSUME NEW e, Shape(e), InText(e), NEW r \in Registers, NEW n \in Nat \ {0}
    PROVE  Does(e, DeleteBefore(e, r, n))
<1>. DEFINE c == e.cursor
            s == line_start(e, c)
            from == Most(c - n, s)
            b == delete_text(save_undo(e), from, c)
            f == At(b, from)
            y == yank(e, from, c, FALSE)
<1>1. Length(e) \in Nat /\ c \in 0 .. Length(e) /\ e.text \in Texts
  BY Size DEF InText
<1>2. s \in 0 .. c /\ \A p \in s .. c - 1 : Char(e, p) # NL
  BY <1>1, LineStart
<1>3. DeleteBefore(e, r, n) = IF c = s THEN Both(e, r) ELSE Both(set_column(f), y)
  BY DEF DeleteBefore
<1>. HIDE DEF s
<1>4. ASSUME c # s PROVE Fine(e, f) /\ y \in Registers
  <2>1. from \in s .. c - 1 /\ from \in 0 .. Length(e) /\ c \in from .. Length(e)
    BY <1>1, <1>2, <1>4 DEF Most
  <2>. HIDE DEF from
  <2>2. y \in Registers
    BY <1>1, <2>1, YankIs
  <2>3. /\ Shape(b) /\ Owed(e, b) /\ b.mode = e.mode
        /\ Length(b) = Length(e) - (c - from)
        /\ \A p \in from .. Length(b) - 1 : Char(b, p) = Char(e, p + (c - from))
    BY <2>1, DeletesFrom
  <2>. HIDE DEF b
  <2>4. Shape(f) /\ SameBut(b, f) /\ f.cursor = from
    BY <2>1, <2>3, AtIs
  <2>5. /\ Owed(e, f) /\ InText(f) /\ Length(f) = Length(b) /\ f.mode = e.mode
        /\ \A p : Char(f, p) = Char(b, p)
    <3>1. Owed(e, f)
      BY <2>3, <2>4, OwedMoved
    <3>. HIDE DEF f
    <3>. QED
      BY <1>1, <2>1, <2>3, <2>4, <3>1 DEF InText, SameBut, Length, Char
  <2>. HIDE DEF f
  <2>6. ASSUME e.mode = "normal", ~ OnLineEnd(e) PROVE ~ OnLineEnd(f)
    <3>1. ~ StartsLine(e, c)
      <4>1. c - 1 \in s .. c - 1
        BY <1>1, <2>1, <1>2
      <4>. QED
        BY <1>2, <2>1, <4>1 DEF StartsLine
    <3>2. c # Length(e) /\ Char(e, c) # NL
      BY <1>1, <2>6, <3>1, OnEndIs DEF EndsLine, InText
    <3>3. from # Length(f) /\ from \in from .. Length(b) - 1
      BY <1>1, <2>1, <2>3, <2>5, <3>2
    <3>4. from + (c - from) = c
      BY <1>1, <2>1
    <3>5. Char(f, from) # NL
      BY <2>3, <2>5, <3>2, <3>3, <3>4
    <3>6. ~ EndsLine(f, f.cursor)
      BY <2>4, <3>3, <3>5 DEF EndsLine
    <3>7. Rests(f)
      BY <2>4, <2>5, <3>6, RestsIf
    <3>. QED
      BY <2>5, <2>6, <3>7 DEF Rests
  <2>. QED
    BY <2>2, <2>4, <2>5, <2>6 DEF Fine, Rests
<1>5. CASE c = s
  BY <1>3, <1>5, NotDone, BothDone
<1>6. CASE c # s
  <2>1. Fine(e, set_column(f)) /\ y \in Registers
    BY <1>4, <1>6, FineColumn
  <2>. HIDE DEF f, y, c
  <2>. QED
    BY <1>3, <1>6, <2>1, BothDone
<1>. QED
  BY <1>5, <1>6

(* at p there is a space, and the cursor there or behind                   *)
Passed(f, p) == p < Length(f) /\ Char(f, p) = SPACE /\ p <= f.cursor

(* One line joined: the cursor lands on the space between the two, and what*)
(* is before it stays (normal_key, J).                                     *)
LEMMA OneJoined ==
    ASSUME NEW e, Shape(e), InText(e)
    PROVE  LET f == JoinOne(e)
               end == line_end(e, e.cursor)
           IN  \/ f = e /\ end = Length(e)
               \/ /\ Shape(f) /\ InText(f) /\ f.modified /\ ~ OnLineEnd(f)
                  /\ f.mode = e.mode /\ f.pending = e.pending
                  /\ f.undo = e.undo /\ f.has_undo = e.has_undo
                  /\ end # Length(e) /\ Passed(f, end)
                  /\ \A p \in 0 .. end - 1 : Char(f, p) = Char(e, p)
<1>. DEFINE end == line_end(e, e.cursor)
            S == {p \in end + 1 .. Length(e) : p = Length(e) \/ Char(e, p) # SPACE}
            next == Min(S)
            d == delete_text(e, end, next)
            g == insert_text(d, end, <<SPACE>>)
            f == At(g, end)
<1>1. /\ Length(e) \in Nat /\ Length(e) <= EDIT_MAX /\ EDIT_MAX \in Nat
      /\ e.cursor \in 0 .. Length(e) /\ e.text \in Texts
  BY Size DEF InText
<1>2. end \in e.cursor .. Length(e)
  BY <1>1, LineEnd
<1>3. JoinOne(e) = IF end = Length(e) THEN e ELSE f
  BY DEF JoinOne
<1>. HIDE DEF end
<1>4. SUFFICES ASSUME end # Length(e)
               PROVE  /\ Shape(f) /\ InText(f) /\ f.modified /\ ~ OnLineEnd(f)
                      /\ f.mode = e.mode /\ f.pending = e.pending
                      /\ f.undo = e.undo /\ f.has_undo = e.has_undo
                      /\ Passed(f, end)
                      /\ \A p \in 0 .. end - 1 : Char(f, p) = Char(e, p)
  <2>. HIDE DEF f
  <2>. QED
    BY <1>3 DEF end
<1>5. next \in end + 1 .. Length(e)
  <2>1. Length(e) \in S /\ S \in SUBSET Nat
    BY <1>1, <1>2, <1>4
  <2>2. Min(S) \in S
    <3>. HIDE DEF S
    <3>. QED
      BY <2>1, MinIn
  <2>. QED
    BY <2>2
<1>. HIDE DEF next
<1>6. end \in 0 .. Length(e) /\ next \in end .. Length(e)
  BY <1>1, <1>2, <1>5
<1>7. /\ Shape(d) /\ OtherText(e, d) /\ d.modified
      /\ Length(d) = Length(e) - (next - end)
      /\ \A p \in 0 .. end - 1 : Char(d, p) = Char(e, p)
  BY <1>6, Deletes
<1>. HIDE DEF d
<1>8. <<SPACE>> \in Texts /\ Len(<<SPACE>>) = 1
  <2>1. SPACE \in TextChars
    BY EditorAssumption, Zenon DEF TextChars
  <2>. QED
    BY <2>1 DEF Texts
<1>9. Fits(d, <<SPACE>>) /\ end \in 0 .. Length(d)
  BY <1>1, <1>5, <1>6, <1>7, <1>8 DEF Fits
<1>10. /\ Shape(g) /\ OtherText(d, g) /\ g.modified
       /\ Length(g) = Length(d) + 1
       /\ \A p \in 1 .. 1 : Char(g, end + p - 1) = <<SPACE>>[p]
       /\ \A p \in 0 .. end - 1 : Char(g, p) = Char(d, p)
  <2>. DEFINE str == <<SPACE>>
  <2>1. /\ Shape(d) /\ str \in Texts /\ Fits(d, str) /\ end \in 0 .. Length(d)
        /\ Len(str) = 1 /\ g = insert_text(d, end, str)
    BY <1>7, <1>8, <1>9
  <2>. HIDE DEF str, g
  <2>2. /\ Shape(g) /\ OtherText(d, g) /\ g.modified
        /\ Length(g) = Length(d) + Len(str)
        /\ \A p \in 1 .. Len(str) : Char(g, end + p - 1) = str[p]
    BY ONLY <2>1, Inserts
  <2>3. \A p \in 0 .. end - 1 : Char(g, p) = Char(d, p)
    BY ONLY <2>1, Inserts
  <2>. QED
    BY <2>1, <2>2, <2>3 DEF str
<1>11. Char(g, end) = SPACE
  <2>1. 1 \in 1 .. 1 /\ end + 1 - 1 = end /\ <<SPACE>>[1] = SPACE
    BY <1>1, <1>6
  <2>. HIDE DEF g
  <2>. QED
    BY <1>10, <2>1
<1>. HIDE DEF g
<1>12. end \in Int
  BY <1>1, <1>6
<1>13. Shape(f) /\ SameBut(g, f) /\ f.cursor = end
  BY <1>10, <1>12, AtIs
<1>. HIDE DEF f
<1>14. /\ f.modified /\ f.mode = e.mode /\ f.pending = e.pending
       /\ f.undo = e.undo /\ f.has_undo = e.has_undo
  BY <1>7, <1>10, <1>13 DEF SameBut, OtherText
<1>15. InText(f) /\ Length(f) = Length(g) /\ Char(f, end) = SPACE /\ f.text \in Texts
  BY <1>1, <1>6, <1>7, <1>9, <1>10, <1>11, <1>13, Size DEF InText, SameBut, Length, Char
<1>16. SPACE # NL
  BY Zenon DEF SPACE, NL
<1>17. ~ EndsLine(f, end)
  BY <1>1, <1>6, <1>7, <1>9, <1>10, <1>15, <1>16 DEF EndsLine
<1>18. ~ OnLineEnd(f)
  BY <1>13, <1>15, <1>17, OnEndIs DEF InText
<1>19. Passed(f, end)
  BY <1>1, <1>6, <1>7, <1>9, <1>10, <1>13, <1>15 DEF Passed
<1>20. \A p \in 0 .. end - 1 : Char(f, p) = Char(e, p)
  BY <1>7, <1>10, <1>13 DEF SameBut, Char
<1>. QED
  BY <1>13, <1>14, <1>15, <1>18, <1>19, <1>20

(* The next line is joined behind the space that is there already.         *)
LEMMA PassesOn ==
    ASSUME NEW e, Shape(e), InText(e), NEW p \in Nat, Passed(e, p)
    PROVE  Passed(JoinOne(e), p)
<1>. DEFINE f == JoinOne(e)
            end == line_end(e, e.cursor)
<1>1. /\ Length(e) \in Nat /\ e.cursor \in 0 .. Length(e) /\ e.text \in Texts
  BY Size DEF InText
<1>2. end \in e.cursor .. Length(e) /\ EndsLine(e, end)
  BY <1>1, LineEnd
<1>3. \/ f = e
      \/ Shape(f) /\ Passed(f, end) /\ \A q \in 0 .. end - 1 : Char(f, q) = Char(e, q)
  BY OneJoined
<1>. HIDE DEF f, end
<1>4. SPACE # NL
  BY Zenon DEF SPACE, NL
<1>5. p # end
  BY <1>1, <1>2, <1>4 DEF EndsLine, Passed
<1>6. p \in 0 .. end - 1
  BY <1>1, <1>2, <1>5 DEF Passed
<1>7. ASSUME Shape(f), Passed(f, end), \A q \in 0 .. end - 1 : Char(f, q) = Char(e, q)
      PROVE  Passed(f, p)
  <2>1. Length(f) \in Nat /\ f.cursor \in Int
    BY <1>7, Size
  <2>2. Char(f, p) = SPACE
    BY <1>6, <1>7 DEF Passed
  <2>. QED
    BY <1>1, <1>2, <1>6, <1>7, <2>1, <2>2 DEF Passed
<1>. QED
  BY <1>3, <1>7 DEF f

LEMMA JoinsOn ==
    ASSUME NEW e, NEW start, Fine(e, start),
           JoinOne(start) = start \/ Copied(e, start), NEW n \in Nat
    PROVE  LET joined[i \in 0 .. n] ==
                   IF i = 0 THEN start ELSE JoinOne(joined[i - 1])
               end == line_end(start, start.cursor)
           IN  /\ Fine(e, joined[n])
               /\ end = Length(start) => joined[n] = start
               /\ end # Length(start) /\ n # 0 => Passed(joined[n], end)
<1>. DEFINE S == {f \in EditorType : Fine(e, f) /\ (f = start \/ Copied(e, f))}
            F == [i \in 1 .. n |-> [f \in S |-> JoinOne(f)]]
            Is(g) == g = [i \in 0 .. n |->
                             IF i = 0 THEN start ELSE JoinOne(g[i - 1])]
            joined == CHOOSE g : Is(g)
<1>0. /\ Shape(start) /\ InText(start)
      /\ line_end(start, start.cursor) \in Nat
  <2>1. Shape(start) /\ InText(start)
    BY DEF Fine
  <2>2. Length(start) \in Nat /\ start.cursor \in 0 .. Length(start) /\ start.text \in Texts
    BY <2>1, Size DEF InText
  <2>3. line_end(start, start.cursor) \in start.cursor .. Length(start)
    BY <2>2, LineEnd
  <2>. QED
    BY <2>1, <2>2, <2>3
<1>1. start \in S
  BY DEF Fine, Shape
<1>2. ASSUME NEW f \in S PROVE JoinOne(f) \in S
  <2>1. Fine(e, f) /\ (f = start \/ Copied(e, f))
    OBVIOUS
  <2>. HIDE DEF S
  <2>2. CASE JoinOne(f) = f
    BY <1>2, <2>2
  <2>3. CASE JoinOne(f) # f
    <3>. DEFINE g == JoinOne(f)
    <3>1. Copied(e, f)
      BY <2>1, <2>3
    <3>2. /\ Shape(g) /\ InText(g) /\ g.modified /\ ~ OnLineEnd(g)
          /\ g.mode = f.mode /\ g.pending = f.pending
          /\ g.undo = f.undo /\ g.has_undo = f.has_undo
      BY <2>1, <2>3, OneJoined DEF Fine
    <3>. HIDE DEF g
    <3>3. Copied(e, g)
      BY <3>1, <3>2 DEF Copied
    <3>4. Owed(e, g)
      BY <2>1, <3>2, <3>3 DEF Fine, Owed, Marked
    <3>5. Fine(e, g)
      BY <3>2, <3>4 DEF Fine, Rests
    <3>6. g \in EditorType
      BY <3>2 DEF Shape
    <3>7. g \in S
      BY <3>3, <3>5, <3>6 DEF S
    <3>. QED
      BY <3>7 DEF g
  <2>. QED
    BY <2>2, <2>3
<1>3. F \in [1 .. n -> [S -> S]]
  BY <1>2
<1>4. \A i \in 1 .. n, f \in S : F[i][f] = JoinOne(f)
  OBVIOUS
<1>. HIDE DEF S, F
<1>5. PICK g \in [0 .. n -> S] :
          g[0] = start /\ \A i \in 1 .. n : g[i] = F[i][g[i - 1]]
  BY <1>1, <1>3, Iteration
<1>6. Is(g)
  <2>1. \A i \in 0 .. n : g[i] = IF i = 0 THEN start ELSE JoinOne(g[i - 1])
    BY <1>4, <1>5
  <2>. QED
    BY <1>5, <2>1
<1>7. Is(joined)
  <2>. HIDE DEF Is
  <2>. QED
    BY <1>6
<1>. HIDE DEF joined
<1>. DEFINE T == {i \in 0 .. n : joined[i] \in S}
<1>8. 0 \in T
  BY <1>1, <1>7
<1>9. ASSUME NEW i \in 1 .. n, i - 1 \in T PROVE i \in T
  BY <1>2, <1>7, <1>9
<1>10. 0 .. n \subseteq T
  <2>. HIDE DEF T
  <2>. QED
    BY <1>8, <1>9, UpTo
<1>11. Fine(e, joined[n])
  BY <1>10 DEF S
<1>. DEFINE end == line_end(start, start.cursor)
            U == {i \in 0 .. n :
                    IF end = Length(start) THEN joined[i] = start
                    ELSE i = 0 \/ Passed(joined[i], end)}
<1>12. 0 \in U
  BY <1>7
<1>13. ASSUME NEW i \in 1 .. n, i - 1 \in U PROVE i \in U
  <2>1. joined[i] = JoinOne(joined[i - 1])
    BY <1>7
  <2>2. i - 1 \in 0 .. n /\ joined[i - 1] \in S
    BY <1>10
  <2>3. Shape(joined[i - 1]) /\ InText(joined[i - 1])
    BY <2>2 DEF S, Fine
  <2>4. CASE end = Length(start)
    <3>1. joined[i - 1] = start /\ JoinOne(start) = start
      BY <1>0, <1>13, <2>4 DEF JoinOne
    <3>. QED
      BY <2>1, <2>4, <3>1
  <2>5. CASE end # Length(start) /\ i - 1 = 0
    <3>1. joined[i - 1] = start
      BY <1>7, <2>2, <2>5
    <3>2. Passed(JoinOne(start), end)
      BY <1>0, <2>5, OneJoined
    <3>. QED
      BY <2>1, <2>5, <3>1, <3>2
  <2>6. CASE end # Length(start) /\ i - 1 # 0
    <3>1. Passed(joined[i - 1], end)
      BY <1>13, <2>6
    <3>2. Passed(JoinOne(joined[i - 1]), end)
      BY <1>0, <2>3, <3>1, PassesOn
    <3>. QED
      BY <2>1, <2>6, <3>2
  <2>. QED
    BY <2>4, <2>5, <2>6
<1>14. n \in U
  <2>1. 0 .. n \subseteq U
    <3>. HIDE DEF U
    <3>. QED
      BY <1>12, <1>13, UpTo
  <2>. QED
    BY <2>1
<1>. QED
  BY <1>11, <1>14 DEF joined

(* J (normal_key)                                                          *)
LEMMA JoinDone ==
    ASSUME NEW e, Shape(e), InText(e), NEW n \in Nat \ {0}
    PROVE  Fine(e, Join(e, n))
<1>. DEFINE start == IF line_end(e, e.cursor) = Length(e) THEN e ELSE save_undo(e)
            Is(g) == g = [i \in 0 .. n |->
                             IF i = 0 THEN start ELSE JoinOne(g[i - 1])]
            joined == CHOOSE g : Is(g)
<1>1. Fine(e, start) /\ (JoinOne(start) = start \/ Copied(e, start))
  BY Saves, NotDone DEF Copied, JoinOne
<1>2. Join(e, n) = set_column(joined[n])
  BY DEF Join
<1>. HIDE DEF start
<1>3. Fine(e, joined[n])
  <2>1. n \in Nat
    OBVIOUS
  <2>. QED
    BY <1>1, <2>1, JoinsOn
<1>. HIDE DEF joined
<1>. QED
  BY <1>2, <1>3, FineColumn

(* A new line for whole lines that turn out not to fit: the cursor keeps   *)
(* its char, or rests on the new and empty line (put).                     *)
LEMMA OpenedRests ==
    ASSUME NEW e, Shape(e), InText(e), Fits(e, <<NL>>),
           NEW pos \in {line_end(e, e.cursor), line_start(e, e.cursor)}
    PROVE  /\ pos \in 0 .. Length(e)
           /\ Fine(e, insert_text(save_undo(e), pos, <<NL>>))
<1>. DEFINE c == e.cursor
            f == insert_text(save_undo(e), pos, <<NL>>)
<1>1. Length(e) \in Nat /\ c \in 0 .. Length(e) /\ e.text \in Texts
  BY Size DEF InText
<1>2. /\ line_end(e, c) \in c .. Length(e)
      /\ \A p \in c .. line_end(e, c) - 1 : Char(e, p) # NL
      /\ EndsLine(e, line_end(e, c))
  BY <1>1, LineEnd
<1>3. /\ line_start(e, c) \in 0 .. c
      /\ \A p \in line_start(e, c) .. c - 1 : Char(e, p) # NL
      /\ StartsLine(e, line_start(e, c))
  BY <1>1, LineStart
<1>4. pos \in 0 .. Length(e)
  BY <1>1, <1>2, <1>3
<1>5. <<NL>> \in Texts /\ Len(<<NL>>) = 1 /\ <<NL>>[1] = NL
  <2>1. NL \in TextChars
    BY Zenon DEF TextChars
  <2>. QED
    BY <2>1 DEF Texts
<1>6. /\ Shape(f) /\ Owed(e, f) /\ f.mode = e.mode /\ f.cursor = c
      /\ Length(f) = Length(e) + 1
      /\ \A p \in 0 .. pos - 1 : Char(f, p) = Char(e, p)
      /\ \A p \in 1 .. 1 : Char(f, pos + p - 1) = <<NL>>[p]
      /\ \A p \in pos .. Length(e) - 1 : Char(f, p + 1) = Char(e, p)
  BY <1>4, <1>5, InsertsAt
<1>. HIDE DEF f
<1>7. InText(f)
  BY <1>1, <1>6 DEF InText
<1>8. ASSUME e.mode = "normal", ~ OnLineEnd(e)
      PROVE  StartsLine(f, c) \/ ~ EndsLine(f, c)
  <2>1. c # Length(f)
    BY <1>1, <1>6
  <2>2. CASE c < pos
    <3>1. pos = line_end(e, c) /\ Char(e, c) # NL
      BY <1>1, <1>2, <1>3, <1>4, <2>2
    <3>2. c \in 0 .. pos - 1
      BY <1>1, <1>4, <2>2
    <3>. QED
      BY <1>6, <2>1, <3>1, <3>2 DEF EndsLine
  <2>3. CASE c = pos
    <3>1. StartsLine(e, c)
      <4>1. CASE pos = line_end(e, c)
        BY <1>1, <1>2, <1>8, <2>3, <4>1, OnEndIs DEF InText
      <4>2. CASE pos = line_start(e, c)
        BY <1>3, <2>3, <4>2
      <4>. QED
        BY <4>1, <4>2
    <3>2. c = 0 \/ (c - 1 \in 0 .. pos - 1)
      BY <1>1, <2>3
    <3>. QED
      BY <1>6, <3>1, <3>2 DEF StartsLine
  <2>4. CASE pos < c
    <3>1. pos = line_start(e, c)
      BY <1>1, <1>2, <1>4, <2>4
    <3>2. c - 1 \in pos .. c - 1 /\ c - 1 \in pos .. Length(e) - 1 /\ (c - 1) + 1 = c
      BY <1>1, <1>4, <2>4
    <3>3. Char(e, c - 1) # NL
      BY <1>3, <3>1, <3>2
    <3>4. Char(f, c) # NL
      BY <1>6, <3>2, <3>3
    <3>. QED
      BY <2>1, <3>4 DEF EndsLine
  <2>. QED
    BY <1>1, <1>4, <2>2, <2>3, <2>4
<1>9. Rests(e) => Rests(f)
  BY <1>6, <1>7, <1>8, RestsIf DEF Rests
<1>. QED
  BY <1>4, <1>6, <1>7, <1>9 DEF Fine, f

(* p and P with whole lines, before and behind the cursor's (put)          *)
LEMMA PutLinesDone ==
    ASSUME NEW e, Shape(e), InText(e), NEW r \in Registers, NEW after \in BOOLEAN
    PROVE  Fine(e, PutLines(e, r, after))
<1>. DEFINE pos == IF after THEN line_end(e, e.cursor)
                   ELSE line_start(e, e.cursor)
            at == IF after THEN pos + 1 ELSE pos
            opened == insert_text(save_undo(e), pos, <<NL>>)
            done == insert_text(opened, at, r.text)
            to == first_nonblank(done, at)
<1>1. PutLines(e, r, after) =
          IF ~ Fits(e, <<NL>>) \/ ~ Fits(opened, r.text) THEN opened
          ELSE set_column(clamp_cursor(At(done, to)))
  BY DEF PutLines
<1>2. pos \in {line_end(e, e.cursor), line_start(e, e.cursor)}
  OBVIOUS
<1>. HIDE DEF pos
<1>3. CASE ~ Fits(e, <<NL>>)
  <2>1. opened = save_undo(e)
    <3>1. Length(save_undo(e)) = Length(e)
      BY Saves
    <3>. QED
      BY <1>3, <3>1 DEF insert_text, Fits
  <2>2. Fine(e, opened)
    BY <2>1, Saves
  <2>. QED
    BY <1>1, <1>3, <2>2
<1>4. CASE Fits(e, <<NL>>)
  <2>1. pos \in 0 .. Length(e) /\ Fine(e, opened)
    BY <1>2, <1>4, OpenedRests
  <2>2. Length(opened) = Length(e) + 1 /\ Length(e) \in Nat /\ opened.undo = e.text /\ opened.has_undo
    <3>1. <<NL>> \in Texts /\ Len(<<NL>>) = 1
      <4>1. NL \in TextChars
        BY Zenon DEF TextChars
      <4>. QED
        BY <4>1 DEF Texts
    <3>. QED
      BY <1>4, <2>1, <3>1, InsertsAt, Size
  <2>. HIDE DEF opened
  <2>3. at \in 0 .. Length(opened)
    BY <2>1, <2>2
  <2>. HIDE DEF at
  <2>4. CASE ~ Fits(opened, r.text)
    BY <1>1, <2>1, <2>4
  <2>5. CASE Fits(opened, r.text)
    <3>1. r.text \in Texts
      BY DEF Registers, Texts
    <3>2. /\ Shape(done) /\ OtherText(opened, done) /\ done.modified
          /\ Length(done) = Length(opened) + Len(r.text)
      BY <2>1, <2>3, <2>5, <3>1, Inserts DEF Fine
    <3>. HIDE DEF done
    <3>3. Owed(e, done)
      BY <2>1, <2>2, <3>2 DEF Owed, Marked, Copied, OtherText, Fine
    <3>4. at \in 0 .. Length(done)
      <4>1. Len(r.text) \in Nat
        BY <3>1 DEF Texts
      <4>. QED
        BY <2>2, <2>3, <3>2, <4>1
    <3>5. to \in Int
      <4>1. at \in Nat /\ done.text \in Texts /\ Length(done) \in Nat
        BY <3>2, <3>4, Size
      <4>2. to \in line_start(done, at) .. Length(done)
        BY <3>4, <4>1, Nonblank
      <4>3. line_start(done, at) \in 0 .. at
        BY <4>1, LineStart
      <4>. HIDE DEF to
      <4>. QED
        BY <4>1, <4>2, <4>3
    <3>. HIDE DEF to
    <3>6. Fine(e, set_column(clamp_cursor(At(done, to))))
      BY <3>2, <3>3, <3>5, FineTo
    <3>. QED
      BY <1>1, <1>4, <2>5, <3>6
  <2>. QED
    BY <2>4, <2>5
<1>. QED
  BY <1>3, <1>4

(* p and P with chars (put)                                                *)
LEMMA PutCharsDone ==
    ASSUME NEW e, Shape(e), InText(e), NEW r \in Registers, NEW after \in BOOLEAN
    PROVE  Fine(e, PutChars(e, r, after))
<1>. DEFINE pos == IF after /\ e.cursor < line_end(e, e.cursor)
                   THEN e.cursor + 1 ELSE e.cursor
            f == insert_text(save_undo(e), pos, r.text)
            to == pos + Len(r.text) - 1
<1>1. PutChars(e, r, after) =
          IF ~ Fits(e, r.text) THEN save_undo(e)
          ELSE set_column(clamp_cursor(At(f, to)))
  BY DEF PutChars
<1>2. Length(e) \in Nat /\ e.cursor \in 0 .. Length(e) /\ e.text \in Texts
  BY Size DEF InText
<1>3. line_end(e, e.cursor) \in e.cursor .. Length(e)
  BY <1>2, LineEnd
<1>4. pos \in 0 .. Length(e)
  BY <1>2, <1>3
<1>. HIDE DEF pos
<1>5. r.text \in Texts /\ Len(r.text) \in Nat
  BY DEF Registers, Texts
<1>6. CASE Fits(e, r.text)
  <2>1. Shape(f) /\ Owed(e, f)
    BY <1>4, <1>5, <1>6, InsertsAt
  <2>2. to \in Int
    BY <1>2, <1>4, <1>5
  <2>. HIDE DEF f, to
  <2>3. Fine(e, set_column(clamp_cursor(At(f, to))))
    BY <2>1, <2>2, FineTo
  <2>. QED
    BY <1>1, <1>6, <2>3
<1>7. CASE ~ Fits(e, r.text)
  BY <1>1, <1>7, Saves
<1>. QED
  BY <1>6, <1>7

LEMMA PutDone ==
    ASSUME NEW e, Shape(e), InText(e), NEW r \in Registers, NEW after \in BOOLEAN
    PROVE  Fine(e, put(e, r, after))
<1>1. \/ put(e, r, after) = e
      \/ put(e, r, after) = PutLines(e, r, after)
      \/ put(e, r, after) = PutChars(e, r, after)
  BY DEF put
<1>. QED
  BY <1>1, NotDone, PutLinesDone, PutCharsDone

(* u goes to the copy and keeps the text it leaves as the new one (undo).  *)
LEMMA UndoDone ==
    ASSUME NEW e, Shape(e), InText(e)
    PROVE  Fine(e, set_column(clamp_cursor(undo(e))))
<1>. DEFINE f == undo(e)
            t == e.undo
            c == e.undo_cursor
            s == e.text
            d == e.cursor
<1>1. CASE ~ e.has_undo
  <2>1. f = e /\ Owed(e, e)
    BY <1>1 DEF undo, Owed, Marked, Left
  <2>. QED
    BY <2>1, FineClamped
<1>2. CASE e.has_undo
  <2>1. f = [e EXCEPT !.text = t, !.cursor = c, !.undo = s, !.undo_cursor = d,
                      !.modified = TRUE]
    BY <1>2 DEF undo
  <2>2. /\ t \in Texts /\ Len(t) <= EDIT_MAX /\ c \in Int
        /\ s \in Texts /\ Len(s) <= EDIT_MAX /\ d \in Nat
    BY Size DEF InText, Shape, EditorType, Length
  <2>3. s = e.text
    OBVIOUS
  <2>. HIDE DEF f, t, c, s, d
  <2>4. Shape(f) /\ f.undo = s /\ f.modified /\ f.has_undo /\ f.pending = e.pending /\ f.mode = e.mode
    BY <1>2, <2>1, <2>2 DEF Shape, EditorType
  <2>5. Owed(e, f)
    BY <2>3, <2>4 DEF Owed, Marked, Copied
  <2>6. Fine(e, set_column(clamp_cursor(f)))
    BY <2>4, <2>5, FineClamped
  <2>. QED
    BY <2>6 DEF f
<1>. QED
  BY <1>1, <1>2

(* i, a, I and A (start_insert)                                            *)
LEMMA StartsInsert ==
    ASSUME NEW e, Shape(e), InText(e), NEW pos \in 0 .. Length(e)
    PROVE  Fine(e, start_insert(e, pos))
<1>. DEFINE f == save_undo(e)
<1>1. Shape(f) /\ Fine(e, f) /\ Copied(e, f) /\ Length(f) = Length(e)
  BY Saves DEF Copied
<1>2. start_insert(e, pos) = [At(f, pos) EXCEPT !.mode = "insert"]
  BY <1>1 DEF start_insert, At, Shape, EditorType
<1>. HIDE DEF f
<1>3. pos \in 0 .. Length(f) /\ Owed(e, f)
  BY <1>1 DEF Fine
<1>. QED
  BY <1>1, <1>2, <1>3, Inserting

(* o and O (normal_key)                                                    *)
LEMMA NewLineDone ==
    ASSUME NEW e, Shape(e), InText(e), NEW pos \in 0 .. Length(e),
           NEW c \in 0 .. Length(e) + 1
    PROVE  Fine(e, NewLine(e, pos, c))
<1>. DEFINE f == insert_text(save_undo(e), pos, <<NL>>)
<1>1. CASE ~ Fits(e, <<NL>>)
  BY <1>1, Saves DEF NewLine
<1>2. CASE Fits(e, <<NL>>)
  <2>1. <<NL>> \in Texts /\ Len(<<NL>>) = 1
    <3>1. NL \in TextChars
      BY Zenon DEF TextChars
    <3>. QED
      BY <3>1 DEF Texts
  <2>2. /\ Shape(f) /\ Owed(e, f) /\ f.undo = e.text /\ f.has_undo
        /\ Length(f) = Length(e) + 1
    BY <1>2, <2>1, InsertsAt
  <2>3. NewLine(e, pos, c) = At([f EXCEPT !.mode = "insert"], c)
    BY <1>2 DEF NewLine
  <2>. HIDE DEF f
  <2>4. At([f EXCEPT !.mode = "insert"], c) = [At(f, c) EXCEPT !.mode = "insert"]
    BY <2>2 DEF At, Shape, EditorType
  <2>5. c \in 0 .. Length(f) /\ Copied(e, f)
    BY <2>2 DEF Copied
  <2>. QED
    BY <2>2, <2>3, <2>4, <2>5, Inserting
<1>. QED
  BY <1>1, <1>2

-----------------------------------------------------------------------------
(* Which commands replace the copy for nothing                             *)

(* a command that changed nothing has left the copy alone                  *)
Sparing(e, f) == f.text = e.text => Left(e, f)

LEMMA SparesMoved ==
    ASSUME NEW e, NEW f, NEW g, Sparing(e, f), SameBut(f, g)
    PROVE  Sparing(e, g)
BY DEF Sparing, Left, SameBut

LEMMA MovedSpares ==
    ASSUME NEW e, NEW f, SameBut(e, f)
    PROVE  Sparing(e, f)
BY DEF Sparing, Left, SameBut

(* x looks first whether the line has a char there (normal_key).           *)
LEMMA UnderSpares ==
    ASSUME NEW e, Shape(e), InText(e), NEW r, NEW n \in Nat \ {0}
    PROVE  Sparing(e, DeleteUnder(e, r, n).ed)
<1>. DEFINE c == e.cursor
            end == line_end(e, c)
            to == Least(c + n, end)
            f == delete_text(save_undo(e), c, to)
<1>1. Length(e) \in Nat /\ c \in 0 .. Length(e) /\ e.text \in Texts
  BY Size DEF InText
<1>2. end \in c .. Length(e)
  BY <1>1, LineEnd
<1>3. DeleteUnder(e, r, n).ed = IF c = end THEN e ELSE clamp_cursor(f)
  BY DEF DeleteUnder, Both
<1>. HIDE DEF end
<1>4. to \in c .. Length(e) /\ (c # end => to # c)
  BY <1>1, <1>2 DEF Least
<1>. HIDE DEF to
<1>5. Shape(f) /\ Length(f) = Length(e) - (to - c)
  BY <1>1, <1>4, DeletesFrom
<1>. HIDE DEF f, c
<1>6. ASSUME c # end PROVE Sparing(e, clamp_cursor(f))
  <2>1. f.text # e.text
    BY <1>1, <1>4, <1>5, <1>6 DEF Length
  <2>2. SameBut(f, clamp_cursor(f))
    BY <1>5, ClampIs DEF Moved
  <2>. QED
    BY <2>1, <2>2, SparesMoved DEF Sparing
<1>7. Sparing(e, e)
  BY DEF Sparing, Left
<1>. QED
  BY <1>3, <1>6, <1>7

(* X looks first whether the line has a char before (normal_key).          *)
LEMMA BeforeSpares ==
    ASSUME NEW e, Shape(e), InText(e), NEW r, NEW n \in Nat \ {0}
    PROVE  Sparing(e, DeleteBefore(e, r, n).ed)
<1>. DEFINE c == e.cursor
            s == line_start(e, c)
            from == Most(c - n, s)
            b == delete_text(save_undo(e), from, c)
            f == At(b, from)
<1>1. Length(e) \in Nat /\ c \in 0 .. Length(e) /\ e.text \in Texts
  BY Size DEF InText
<1>2. s \in 0 .. c
  BY <1>1, LineStart
<1>3. DeleteBefore(e, r, n).ed = IF c = s THEN e ELSE set_column(f)
  BY DEF DeleteBefore, Both
<1>. HIDE DEF s
<1>4. ASSUME c # s PROVE Sparing(e, set_column(f))
  <2>1. from \in s .. c - 1 /\ from \in 0 .. Length(e) /\ c \in from .. Length(e)
    BY <1>1, <1>2, <1>4 DEF Most
  <2>. HIDE DEF from
  <2>2. Shape(b) /\ Length(b) = Length(e) - (c - from)
    BY <2>1, DeletesFrom
  <2>. HIDE DEF b
  <2>3. Shape(f) /\ SameBut(b, f) /\ f.cursor = from
    BY <2>1, <2>2, AtIs
  <2>4. InText(f) /\ f.text # e.text
    BY <1>1, <2>1, <2>2, <2>3 DEF InText, SameBut, Length
  <2>. HIDE DEF f
  <2>5. SameBut(f, set_column(f))
    BY <2>3, <2>4, ColumnIs DEF Moved
  <2>. QED
    BY <2>4, <2>5, SparesMoved DEF Sparing
<1>5. Sparing(e, e)
  BY DEF Sparing, Left
<1>. QED
  BY <1>3, <1>4, <1>5

(* J looks first whether there is another line; then an '\n' has become a  *)
(* space (normal_key).                                                     *)
LEMMA JoinSpares ==
    ASSUME NEW e, Shape(e), InText(e), NEW n \in Nat \ {0}
    PROVE  Sparing(e, Join(e, n))
<1>. DEFINE end == line_end(e, e.cursor)
            start == IF end = Length(e) THEN e ELSE save_undo(e)
            Is(g) == g = [i \in 0 .. n |->
                             IF i = 0 THEN start ELSE JoinOne(g[i - 1])]
            joined == CHOOSE g : Is(g)
            f == joined[n]
<1>1. Length(e) \in Nat /\ e.cursor \in 0 .. Length(e) /\ e.text \in Texts
  BY Size DEF InText
<1>2. end \in 0 .. Length(e) /\ EndsLine(e, end)
  BY <1>1, LineEnd
<1>3. Fine(e, start) /\ (JoinOne(start) = start \/ Copied(e, start))
  BY Saves, NotDone DEF Copied, JoinOne
<1>4. /\ start.text = e.text /\ start.cursor = e.cursor
      /\ Length(start) = Length(e)
  BY Saves
<1>5. line_end(start, start.cursor) = end
  BY <1>4 DEF line_end, EndsLine, Char
<1>6. Join(e, n) = set_column(f)
  BY DEF Join
<1>7. end = Length(e) => start = e
  OBVIOUS
<1>. HIDE DEF start
<1>8. /\ Fine(e, f)
      /\ end = Length(e) => f = start
      /\ end # Length(e) => Passed(f, end)
  <2>1. n \in Nat /\ n # 0
    OBVIOUS
  <2>2. /\ Fine(e, f)
        /\ line_end(start, start.cursor) = Length(start) => f = start
        /\ line_end(start, start.cursor) # Length(start) /\ n # 0
               => Passed(f, line_end(start, start.cursor))
    BY <1>3, <2>1, JoinsOn
  <2>. HIDE DEF f, end
  <2>. QED
    BY <1>4, <1>5, <2>1, <2>2
<1>. HIDE DEF f, end
<1>9. Sparing(e, f)
  <2>1. CASE end = Length(e)
    BY <1>7, <1>8, <2>1 DEF Sparing, Left
  <2>2. CASE end # Length(e)
    <3>1. SPACE # NL
      BY Zenon DEF SPACE, NL
    <3>2. Char(e, end) = NL /\ Char(f, end) = SPACE
      BY <1>2, <1>8, <2>2 DEF EndsLine, Passed
    <3>. QED
      BY <3>1, <3>2 DEF Sparing, Char
  <2>. QED
    BY <2>1, <2>2
<1>10. SameBut(f, set_column(f))
  BY <1>8, ColumnIs DEF Fine, Moved
<1>. QED
  BY <1>6, <1>9, <1>10, SparesMoved

(* u exchanges two equal texts for nothing (undo).                         *)
LEMMA UndoSpares ==
    ASSUME NEW e, Shape(e), InText(e)
    PROVE  Sparing(e, set_column(clamp_cursor(undo(e))))
<1>. DEFINE f == undo(e)
            t == e.undo
            c == e.undo_cursor
            s == e.text
            d == e.cursor
<1>1. Shape(f) /\ Sparing(e, f)
  <2>1. CASE ~ e.has_undo
    BY <2>1 DEF undo, Sparing, Left
  <2>2. CASE e.has_undo
    <3>1. f = [e EXCEPT !.text = t, !.cursor = c, !.undo = s, !.undo_cursor = d,
                        !.modified = TRUE]
      BY <2>2 DEF undo
    <3>2. /\ t \in Texts /\ Len(t) <= EDIT_MAX /\ c \in Int
          /\ s \in Texts /\ Len(s) <= EDIT_MAX /\ d \in Nat
      BY Size DEF InText, Shape, EditorType, Length
    <3>3. s = e.text /\ t = e.undo
      OBVIOUS
    <3>. HIDE DEF f, t, c, s, d
    <3>4. /\ Shape(f) /\ f.text = t /\ f.undo = s /\ f.has_undo
          /\ f.mode = e.mode
      BY <2>2, <3>1, <3>2 DEF Shape, EditorType
    <3>. QED
      BY <2>2, <3>3, <3>4 DEF Sparing, Left, Shape, EditorType
  <2>. QED
    BY <2>1, <2>2
<1>. HIDE DEF f
<1>2. Moved(f, clamp_cursor(f))
  BY <1>1, ClampIs
<1>3. SameBut(clamp_cursor(f), set_column(clamp_cursor(f)))
  BY <1>2, ColumnIs DEF Moved
<1>4. Sparing(e, set_column(clamp_cursor(f)))
  BY <1>1, <1>2, <1>3, SparesMoved DEF Moved
<1>. QED
  BY <1>4 DEF f

(* y takes nothing out of the text (operator).                             *)
LEMMA YankSpares ==
    ASSUME NEW e, Shape(e), InText(e), NEW r, NEW key, NEW n \in Nat \ {0}
    PROVE  Sparing(e, operator(e, r, "y", key, n).ed)
<1>. DEFINE m == move_lines(e, -n)
            moved == motion(e, key, n)
            back == At(moved, e.cursor)
            end == Reach(e, key, moved.cursor)
            from == Least(e.cursor, end)
            out == operator(e, r, "y", key, n)
<1>1. out.ed \in {e, clamp_cursor(e), clamp_cursor(m), clamp_cursor(At(back, from))}
  BY DEF operator, OperatorLines, OperatorChars, Both
<1>2. Moved(e, m)
  <2>1. -n \in Int
    OBVIOUS
  <2>. QED
    BY <2>1, LineMoves
<1>3. Moved(e, moved)
  BY MotionMoves
<1>. HIDE DEF m, moved, out
<1>4. /\ Length(e) \in Nat /\ e.cursor \in 0 .. Length(e) /\ e.cursor \in Int
      /\ e.text \in Texts /\ moved.cursor \in 0 .. Length(e)
  BY <1>3, Size DEF Moved, SameBut, InText, Length
<1>5. from \in Int
  <2>1. line_end(e, e.cursor) \in 0 .. Length(e)
    BY <1>4, LineEnd
  <2>2. end \in 0 .. Length(e)
    BY <1>4, <2>1 DEF Reach, Least
  <2>. HIDE DEF end
  <2>. QED
    BY <1>4, <2>2 DEF Least
<1>. HIDE DEF from
<1>6. Shape(back) /\ SameBut(moved, back)
  BY <1>3, <1>4, AtIs DEF Moved
<1>. HIDE DEF back
<1>7. Shape(At(back, from)) /\ SameBut(back, At(back, from))
  BY <1>5, <1>6, AtIs
<1>8. SameBut(e, m) /\ SameBut(e, e) /\ SameBut(e, At(back, from))
  BY <1>2, <1>3, <1>6, <1>7 DEF Moved, SameBut
<1>9. ASSUME NEW g, Shape(g), SameBut(e, g) PROVE SameBut(e, clamp_cursor(g))
  BY <1>9, ClampIs DEF Moved, SameBut
<1>10. SameBut(e, out.ed)
  BY <1>1, <1>2, <1>7, <1>8, <1>9 DEF Moved
<1>. QED
  BY <1>10, MovedSpares DEF out

(* Every other command copies the text for a change (normal_key).          *)
LEMMA CommandSpares ==
    ASSUME NEW e, Shape(e), InText(e), e.mode = "normal",
           NEW r, NEW count \in Nat, NEW n \in Nat \ {0},
           NEW key, key \notin {"D", "C", "p", "P", "i", "a", "I", "A", "o", "O"}
    PROVE  Sparing(e, Command(e, r, key, count, n).ed)
<1>. DEFINE f == Command(e, r, key, count, n).ed
<1>1. CASE key \in {"g", "d", "c", "y"}
  <2>. DEFINE g == [e EXCEPT !.pending = key, !.count = count]
  <2>1. f = g
    BY <1>1 DEF Command, Both
  <2>2. /\ g.text = e.text /\ g.mode = e.mode /\ g.undo = e.undo
        /\ g.has_undo = e.has_undo
    BY DEF Shape, EditorType
  <2>. HIDE DEF f, g
  <2>3. Sparing(e, f)
    BY <2>1, <2>2 DEF Sparing, Left
  <2>. QED
    BY <2>3 DEF f
<1>2. CASE key = "G"
  <2>. DEFINE m == IF count > 0 THEN count - 1 ELSE edit_line_count(e) - 1
  <2>1. f = goto_line(e, m)
    BY <1>2 DEF Command, Both
  <2>2. m \in Nat
    <3>1. Length(e) \in Nat /\ e.text \in Texts
      BY Size
    <3>2. Length(e) <= Length(e)
      BY <3>1
    <3>3. Cardinality({p \in 1 .. Length(e) : e.text[p] = NL}) \in Nat
      BY <3>1, <3>2, Breaks
    <3>. QED
      BY <3>3 DEF edit_line_count
  <2>. HIDE DEF m
  <2>3. SameBut(e, goto_line(e, m))
    BY <2>2, GotoMoves DEF Moved
  <2>. QED
    BY <2>1, <2>3, MovedSpares
<1>3. CASE key = "x"
  <2>1. f = DeleteUnder(e, r, n).ed
    BY <1>3 DEF Command
  <2>. QED
    BY <2>1, UnderSpares
<1>4. CASE key = "X"
  <2>1. f = DeleteBefore(e, r, n).ed
    BY <1>4 DEF Command
  <2>. QED
    BY <2>1, BeforeSpares
<1>5. CASE key = "J"
  <2>1. f = Join(e, n)
    BY <1>5 DEF Command, Both
  <2>. QED
    BY <2>1, JoinSpares
<1>6. CASE key = ":"
  <2>. DEFINE g == [e EXCEPT !.mode = "command"]
  <2>1. f = g
    BY <1>6 DEF Command, Both
  <2>2. /\ g.text = e.text /\ g.mode = "command" /\ g.undo = e.undo
        /\ g.has_undo = e.has_undo
    BY DEF Shape, EditorType
  <2>. HIDE DEF f, g
  <2>3. Sparing(e, f)
    BY <2>1, <2>2 DEF Sparing, Left
  <2>. QED
    BY <2>3 DEF f
<1>7. CASE key = "u"
  <2>1. f = set_column(clamp_cursor(undo(e)))
    BY <1>7 DEF Command, Both
  <2>. QED
    BY <2>1, UndoSpares
<1>8. CASE key \notin {"g", "d", "c", "y", "G", "x", "X", "J", ":", "u"}
  <2>1. f = e
    BY <1>8 DEF Command, Both
  <2>. HIDE DEF f
  <2>2. Sparing(e, f)
    BY <2>1 DEF Sparing, Left
  <2>. QED
    BY <2>2 DEF f
<1>. QED
  BY <1>1, <1>2, <1>3, <1>4, <1>5, <1>6, <1>7, <1>8

(* The count and the pending key are taken before the key acts.            *)
LEMMA ClearedIs ==
    ASSUME NEW e0, Shape(e0), InText(e0)
    PROVE  LET e == [e0 EXCEPT !.count = 0, !.pending = NoKey]
           IN  /\ Shape(e) /\ InText(e) /\ e.pending = NoKey
               /\ e.text = e0.text /\ e.mode = e0.mode /\ e.cursor = e0.cursor
               /\ e.modified = e0.modified /\ e.undo = e0.undo
               /\ e.has_undo = e0.has_undo /\ (Rests(e0) => Rests(e))
<1>. DEFINE e == [e0 EXCEPT !.count = 0, !.pending = NoKey]
<1>1. /\ Shape(e) /\ e.pending = NoKey
      /\ e.text = e0.text /\ e.mode = e0.mode /\ e.cursor = e0.cursor
      /\ e.modified = e0.modified /\ e.undo = e0.undo
      /\ e.has_undo = e0.has_undo
  BY DEF Shape, EditorType, Pendings
<1>. HIDE DEF e
<1>2. InText(e) /\ e.text \in Texts /\ e0.text \in Texts
  BY <1>1, Size DEF InText, Length
<1>3. Rests(e0) => Rests(e)
  BY <1>1, <1>2, OnEndIs DEF InText, Length, Rests, EndsLine, StartsLine, Char
<1>. QED
  BY <1>1, <1>2, <1>3 DEF e

(* Only the keys that copy at once replace the copy for nothing            *)
(* (normal_key, operator).                                                 *)
LEMMA NormalSpares ==
    ASSUME NEW e0, Shape(e0), InText(e0), e0.mode = "normal",
           NEW r, NEW key, ~ Speculative(e0, key)
    PROVE  Sparing(e0, normal_key(e0, r, key).ed)
<1>. DEFINE e == [e0 EXCEPT !.count = 0, !.pending = NoKey]
            n == Most(e0.count, 1)
            f == normal_key(e0, r, key).ed
<1>1. /\ Shape(e) /\ InText(e) /\ e.mode = "normal"
      /\ e.text = e0.text /\ e.undo = e0.undo /\ e.has_undo = e0.has_undo
  BY ClearedIs
<1>2. e0.count \in Nat /\ e0.pending \in Pendings
  BY DEF Shape, EditorType
<1>3. n \in Nat \ {0}
  BY <1>2 DEF Most
<1>4. NoKey \notin {"g", "d", "c", "y"}
  BY Zenon DEF NoKey
<1>5. /\ IsDigit(e0, key) =>
             f = [e0 EXCEPT !.count = Least(@ * 10 + DigitValue[key], 99999)]
      /\ ~ IsDigit(e0, key) =>
             /\ e0.pending = "g" =>
                    f \in {e, goto_line(e, Most(e0.count - 1, 0))}
             /\ e0.pending \in {"d", "c", "y"} =>
                    f = operator(e, r, e0.pending, key, n).ed
             /\ e0.pending = NoKey /\ key \in Motions => f = motion(e, key, n)
             /\ e0.pending = NoKey /\ key \notin Motions =>
                    f = Command(e, r, key, e0.count, n).ed
  BY <1>4 DEF normal_key, Both
<1>. HIDE DEF e, n, f
<1>6. ASSUME Sparing(e, f) PROVE Sparing(e0, f)
  BY <1>1, <1>6 DEF Sparing, Left
<1>7. Sparing(e, e)
  BY DEF Sparing, Left
<1>8. CASE IsDigit(e0, key)
  <2>. DEFINE k == Least(e0.count * 10 + DigitValue[key], 99999)
  <2>1. f = [e0 EXCEPT !.count = k]
    BY <1>5, <1>8
  <2>. HIDE DEF k
  <2>2. /\ f.text = e0.text /\ f.mode = e0.mode /\ f.undo = e0.undo
        /\ f.has_undo = e0.has_undo
    BY <2>1 DEF Shape, EditorType
  <2>3. Sparing(e0, f)
    BY <2>2 DEF Sparing, Left
  <2>. QED
    BY <2>3 DEF f
<1>9. CASE ~ IsDigit(e0, key) /\ e0.pending = "g"
  <2>1. Most(e0.count - 1, 0) \in Nat
    BY <1>2 DEF Most
  <2>2. Sparing(e, goto_line(e, Most(e0.count - 1, 0)))
    BY <1>1, <2>1, GotoMoves, MovedSpares DEF Moved
  <2>3. Sparing(e, f)
    BY <1>5, <1>7, <1>9, <2>2
  <2>. QED
    BY <1>6, <2>3 DEF f
<1>10. CASE ~ IsDigit(e0, key) /\ e0.pending = "y"
  <2>1. f = operator(e, r, "y", key, n).ed
    BY <1>5, <1>10
  <2>2. Sparing(e, f)
    BY <1>1, <1>3, <2>1, YankSpares
  <2>. QED
    BY <1>6, <2>2 DEF f
<1>11. CASE ~ IsDigit(e0, key) /\ e0.pending \in {"d", "c"}
  <2>1. key \notin Motions \cup {e0.pending}
    BY <1>4, <1>11 DEF Speculative
  <2>2. f = e
    BY <1>5, <1>11, <2>1 DEF operator, Motions, Both
  <2>3. Sparing(e, f)
    BY <1>7, <2>2
  <2>. QED
    BY <1>6, <2>3 DEF f
<1>12. CASE ~ IsDigit(e0, key) /\ e0.pending = NoKey /\ key \in Motions
  <2>1. Sparing(e, motion(e, key, n))
    BY <1>1, <1>3, MotionMoves, MovedSpares DEF Moved
  <2>2. Sparing(e, f)
    BY <1>5, <1>12, <2>1
  <2>. QED
    BY <1>6, <2>2 DEF f
<1>13. CASE ~ IsDigit(e0, key) /\ e0.pending = NoKey /\ key \notin Motions
  <2>1. key \notin {"D", "C", "p", "P", "i", "a", "I", "A", "o", "O"}
    BY <1>13 DEF Speculative
  <2>2. Sparing(e, Command(e, r, key, e0.count, n).ed)
    BY <1>1, <1>2, <1>3, <2>1, CommandSpares
  <2>3. Sparing(e, f)
    BY <1>5, <1>13, <2>2
  <2>. QED
    BY <1>6, <2>3 DEF f
<1>. QED
  BY <1>2, <1>8, <1>9, <1>10, <1>11, <1>12, <1>13 DEF Pendings

-----------------------------------------------------------------------------
(* Keys                                                                    *)

(* what a key of normal mode may make of the editor                        *)
Turned(e, f) ==
    /\ Shape(f) /\ InText(f) /\ Marked(e, f)
    /\ Left(e, f) \/ Copied(e, f)
    /\ Rests(e) => Rests(f)
    /\ f.mode = "command" => f.text = e.text /\ f.cursor = e.cursor
    /\ f.mode = "insert" => f.pending = NoKey

Turns(e, out) == Turned(e, out.ed) /\ out.reg \in Registers

LEMMA BothTurns ==
    ASSUME NEW e, NEW f, Turned(e, f), NEW r \in Registers
    PROVE  Turns(e, Both(f, r))
BY DEF Turns, Both

LEMMA FineTurns ==
    ASSUME NEW e, e.mode = "normal", e.pending = NoKey, NEW f, Fine(e, f)
    PROVE  Turned(e, f)
BY DEF Turned, Fine, Owed

LEMMA DoesTurn ==
    ASSUME NEW e, e.mode = "normal", e.pending = NoKey, NEW out, Does(e, out)
    PROVE  Turns(e, out)
BY FineTurns DEF Turns, Does

(* Every command without a motion (normal_key)                             *)
LEMMA CommandTurns ==
    ASSUME NEW e, Shape(e), InText(e), e.mode = "normal", e.pending = NoKey,
           NEW r \in Registers, NEW key, NEW count \in Nat, NEW n \in Nat \ {0}
    PROVE  Turns(e, Command(e, r, key, count, n))
<1>. DEFINE out == Command(e, r, key, count, n)
            end == line_end(e, e.cursor)
            start == line_start(e, e.cursor)
<1>1. Length(e) \in Nat /\ e.cursor \in 0 .. Length(e) /\ e.text \in Texts
  BY Size DEF InText
<1>2. end \in e.cursor .. Length(e) /\ start \in 0 .. e.cursor
  BY <1>1, LineEnd, LineStart
<1>3. ASSUME NEW f, Fine(e, f), out = Both(f, r) PROVE Turns(e, out)
  <2>. HIDE DEF out
  <2>. QED
    BY <1>3, FineTurns, BothTurns
<1>4. CASE key \in {"g", "d", "c", "y"}
  <2>. DEFINE f == [e EXCEPT !.pending = key, !.count = count]
  <2>1. out = Both(f, r)
    BY <1>4 DEF Command
  <2>2. key \in Pendings
    BY <1>4 DEF Pendings
  <2>3. /\ Shape(f) /\ f.text = e.text /\ f.mode = e.mode /\ f.cursor = e.cursor
        /\ f.modified = e.modified /\ f.undo = e.undo /\ f.has_undo = e.has_undo
    BY <2>2 DEF Shape, EditorType
  <2>. HIDE DEF f, out
  <2>4. InText(f) /\ (Rests(e) => Rests(f))
    BY <1>1, <2>3, OnEndIs DEF InText, Length, Rests, EndsLine, StartsLine, Char
  <2>5. Turned(e, f)
    BY <2>3, <2>4 DEF Turned, Marked, Left
  <2>6. Turns(e, out)
    BY <2>1, <2>5, BothTurns
  <2>. QED
    BY <2>6 DEF out
<1>5. CASE key = "G"
  <2>. DEFINE m == IF count > 0 THEN count - 1 ELSE edit_line_count(e) - 1
              f == goto_line(e, m)
  <2>1. out = Both(f, r)
    BY <1>5 DEF Command
  <2>2. m \in Nat
    <3>1. Length(e) <= Length(e)
      BY <1>1
    <3>2. Cardinality({p \in 1 .. Length(e) : e.text[p] = NL}) \in Nat
      BY <1>1, <3>1, Breaks
    <3>. QED
      BY <3>2 DEF edit_line_count
  <2>. HIDE DEF m
  <2>3. Moved(e, f) /\ Rests(f)
    BY <2>2, GotoMoves
  <2>4. Fine(e, f)
    BY <2>3, MovedFine
  <2>. HIDE DEF f, out
  <2>5. Turns(e, out)
    BY <1>3, <2>1, <2>4
  <2>. QED
    BY <2>5 DEF out
<1>6. CASE key = "D"
  <2>1. out = operator(e, r, "d", "$", 1)
    BY <1>6 DEF Command
  <2>. QED
    BY <2>1, OperatorDone, DoesTurn
<1>7. CASE key = "C"
  <2>1. out = operator(e, r, "c", "$", 1)
    BY <1>7 DEF Command
  <2>. QED
    BY <2>1, OperatorDone, DoesTurn
<1>8. CASE key = "x"
  <2>1. out = DeleteUnder(e, r, n)
    BY <1>8 DEF Command
  <2>. QED
    BY <2>1, UnderDone, DoesTurn
<1>9. CASE key = "X"
  <2>1. out = DeleteBefore(e, r, n)
    BY <1>9 DEF Command
  <2>. QED
    BY <2>1, BeforeDone, DoesTurn
<1>10. CASE key = "J"
  <2>1. out = Both(Join(e, n), r)
    BY <1>10 DEF Command
  <2>. QED
    BY <1>3, <2>1, JoinDone
<1>11. CASE key \in {"p", "P"}
  <2>1. PICK after \in BOOLEAN : out = Both(put(e, r, after), r)
    BY <1>11 DEF Command
  <2>. QED
    BY <1>3, <2>1, PutDone
<1>12. CASE key = ":"
  <2>. DEFINE f == [e EXCEPT !.mode = "command"]
  <2>1. out = Both(f, r)
    BY <1>12 DEF Command
  <2>2. /\ Shape(f) /\ f.text = e.text /\ f.mode = "command"
        /\ f.cursor = e.cursor
        /\ f.modified = e.modified /\ f.undo = e.undo /\ f.has_undo = e.has_undo
    BY DEF Shape, EditorType, Modes
  <2>. HIDE DEF f, out
  <2>3. Turned(e, f)
    BY <2>2 DEF Turned, Marked, Left, Rests, InText, Length
  <2>4. Turns(e, out)
    BY <2>1, <2>3, BothTurns
  <2>. QED
    BY <2>4 DEF out
<1>13. CASE key = "u"
  <2>1. out = Both(set_column(clamp_cursor(undo(e))), r)
    BY <1>13 DEF Command
  <2>. QED
    BY <1>3, <2>1, UndoDone
<1>14. CASE key \in {"i", "a", "I", "A"}
  <2>1. PICK pos \in {e.cursor, Least(e.cursor + 1, end),
                      first_nonblank(e, e.cursor), end} :
            out = Both(start_insert(e, pos), r)
    BY <1>14 DEF Command
  <2>2. first_nonblank(e, e.cursor) \in start .. Length(e)
    BY <1>1, Nonblank
  <2>. HIDE DEF start, end
  <2>3. pos \in 0 .. Length(e)
    BY <1>1, <1>2, <2>2 DEF Least
  <2>. QED
    BY <1>3, <2>1, <2>3, StartsInsert
<1>15. CASE key \in {"o", "O"}
  <2>1. PICK pos \in {end, start}, c \in {end + 1, start} :
            out = Both(NewLine(e, pos, c), r)
    BY <1>15 DEF Command
  <2>. HIDE DEF start, end
  <2>2. pos \in 0 .. Length(e) /\ c \in 0 .. Length(e) + 1
    BY <1>1, <1>2
  <2>. QED
    BY <1>3, <2>1, <2>2, NewLineDone
<1>16. CASE key \notin {"g", "d", "c", "y", "G", "D", "C", "x", "X", "J", "p",
                        "P", ":", "u", "i", "a", "I", "A", "o", "O"}
  <2>1. out = Both(e, r)
    BY <1>16 DEF Command
  <2>. QED
    BY <1>3, <2>1, NotDone
<1>. QED
  BY <1>4, <1>5, <1>6, <1>7, <1>8, <1>9, <1>10, <1>11, <1>12, <1>13, <1>14,
     <1>15, <1>16

(* Every key of normal mode (normal_key)                                   *)
LEMMA NormalTurns ==
    ASSUME NEW e0, Shape(e0), InText(e0), e0.mode = "normal",
           NEW r \in Registers, NEW key
    PROVE  Turns(e0, normal_key(e0, r, key))
<1>. DEFINE e == [e0 EXCEPT !.count = 0, !.pending = NoKey]
            n == Most(e0.count, 1)
            out == normal_key(e0, r, key)
<1>1. /\ Shape(e) /\ InText(e) /\ e.pending = NoKey
      /\ e.text = e0.text /\ e.mode = "normal" /\ e.cursor = e0.cursor
      /\ e.modified = e0.modified /\ e.undo = e0.undo
      /\ e.has_undo = e0.has_undo /\ (Rests(e0) => Rests(e))
  BY ClearedIs
<1>2. e0.count \in Nat /\ e0.pending \in Pendings
  BY DEF Shape, EditorType
<1>3. n \in Nat \ {0}
  BY <1>2 DEF Most
<1>4. NoKey \notin {"g", "d", "c", "y"}
  BY Zenon DEF NoKey
<1>5. /\ IsDigit(e0, key) =>
             out = Both([e0 EXCEPT !.count =
                           Least(@ * 10 + DigitValue[key], 99999)], r)
      /\ ~ IsDigit(e0, key) =>
             /\ e0.pending = "g" =>
                    out = Both(IF key = "g" THEN goto_line(e, Most(e0.count - 1, 0))
                               ELSE e, r)
             /\ e0.pending \in {"d", "c", "y"} =>
                    out = operator(e, r, e0.pending, key, n)
             /\ e0.pending = NoKey /\ key \in Motions =>
                    out = Both(motion(e, key, n), r)
             /\ e0.pending = NoKey /\ key \notin Motions =>
                    out = Command(e, r, key, e0.count, n)
  BY <1>4 DEF normal_key
<1>. HIDE DEF e, n, out
<1>6. ASSUME Turns(e, out) PROVE Turns(e0, out)
  BY <1>1, <1>6 DEF Turns, Turned, Marked, Left, Copied
<1>7. ASSUME NEW f, Moved(e, f), Rests(e) => Rests(f), out = Both(f, r)
      PROVE  Turns(e0, out)
  <2>1. Turns(e, out)
    BY <1>1, <1>7, MovedFine, FineTurns, BothTurns
  <2>. QED
    BY <1>6, <2>1
<1>8. CASE IsDigit(e0, key)
  <2>. DEFINE k == Least(e0.count * 10 + DigitValue[key], 99999)
              f == [e0 EXCEPT !.count = k]
  <2>1. k \in Nat
    <3>1. DigitValue[key] \in Nat
      BY <1>8 DEF IsDigit, Digits, DigitValue
    <3>. QED
      BY <1>2, <3>1 DEF Least
  <2>2. out = Both(f, r)
    BY <1>5, <1>8
  <2>. HIDE DEF k
  <2>3. /\ Shape(f) /\ f.text = e0.text /\ f.mode = e0.mode
        /\ f.cursor = e0.cursor /\ f.modified = e0.modified
        /\ f.undo = e0.undo /\ f.has_undo = e0.has_undo
    BY <2>1 DEF Shape, EditorType
  <2>. HIDE DEF f
  <2>4. InText(f) /\ f.text \in Texts /\ e0.text \in Texts
    BY <2>3, Size DEF InText, Length
  <2>5. Rests(e0) => Rests(f)
    BY <2>3, <2>4, OnEndIs DEF InText, Length, Rests, EndsLine, StartsLine, Char
  <2>6. Turned(e0, f)
    BY <2>3, <2>4, <2>5 DEF Turned, Marked, Left
  <2>7. Turns(e0, out)
    BY <2>2, <2>6, BothTurns
  <2>. QED
    BY <2>7 DEF out
<1>9. CASE ~ IsDigit(e0, key) /\ e0.pending = "g"
  <2>. DEFINE f == IF key = "g" THEN goto_line(e, Most(e0.count - 1, 0)) ELSE e
  <2>1. out = Both(f, r)
    BY <1>5, <1>9
  <2>2. Most(e0.count - 1, 0) \in Nat
    BY <1>2 DEF Most
  <2>3. Moved(e, f) /\ (Rests(e) => Rests(f))
    BY <1>1, <2>2, GotoMoves, MovedNot
  <2>. HIDE DEF f
  <2>4. Turns(e0, out)
    BY <1>7, <2>1, <2>3
  <2>. QED
    BY <2>4 DEF out
<1>10. CASE ~ IsDigit(e0, key) /\ e0.pending \in {"d", "c", "y"}
  <2>1. out = operator(e, r, e0.pending, key, n)
    BY <1>5, <1>10
  <2>2. Does(e, out)
    BY <1>1, <1>3, <1>10, <2>1, OperatorDone
  <2>3. Turns(e0, out)
    BY <1>1, <1>6, <2>2, DoesTurn
  <2>. QED
    BY <2>3 DEF out
<1>11. CASE ~ IsDigit(e0, key) /\ e0.pending = NoKey /\ key \in Motions
  <2>1. out = Both(motion(e, key, n), r)
    BY <1>5, <1>11
  <2>2. Moved(e, motion(e, key, n)) /\ (Rests(e) => Rests(motion(e, key, n)))
    BY <1>1, <1>3, MotionMoves
  <2>3. Turns(e0, out)
    BY <1>7, <2>1, <2>2
  <2>. QED
    BY <2>3 DEF out
<1>12. CASE ~ IsDigit(e0, key) /\ e0.pending = NoKey /\ key \notin Motions
  <2>1. out = Command(e, r, key, e0.count, n)
    BY <1>5, <1>12
  <2>2. Turns(e, out)
    BY <1>1, <1>2, <1>3, <2>1, CommandTurns
  <2>3. Turns(e0, out)
    BY <1>6, <2>2
  <2>. QED
    BY <2>3 DEF out
<1>. QED
  BY <1>2, <1>8, <1>9, <1>10, <1>11, <1>12 DEF Pendings

(* what a key of insert mode may make of the editor                        *)
Written(e, f) ==
    /\ Shape(f) /\ InText(f) /\ Rests(f) /\ Marked(e, f)
    /\ f.undo = e.undo /\ f.has_undo = e.has_undo /\ f.pending = e.pending
    /\ f.mode \in {"insert", "normal"}

Writing(e, r, out) == Written(e, out.ed) /\ out.reg = r

LEMMA BothWritten ==
    ASSUME NEW e, NEW f, Written(e, f), NEW r
    PROVE  Writing(e, r, Both(f, r))
BY DEF Writing, Both

LEMMA WrittenMoved ==
    ASSUME NEW e, NEW f, NEW g, Written(e, f), Moved(f, g), Rests(g)
    PROVE  Written(e, g)
BY DEF Written, Moved, SameBut, Marked

(* The cursor steps back from behind the last char that was typed (esc).   *)
LEMMA LeavesInsert ==
    ASSUME NEW e, Shape(e), InText(e)
    PROVE  Written(e, LeaveInsert(e))
<1>. DEFINE s == IF e.cursor > line_start(e, e.cursor)
                 THEN At(e, e.cursor - 1) ELSE e
            d == [s EXCEPT !.mode = "normal"]
            g == clamp_cursor(d)
            f == set_column(g)
<1>1. Shape(s) /\ SameBut(e, s)
  <2>1. e.cursor - 1 \in Int
    BY Size
  <2>. QED
    BY <2>1, AtIs DEF SameBut
<1>2. LeaveInsert(e) = f
  BY DEF LeaveInsert
<1>. HIDE DEF s
<1>3. /\ Shape(d) /\ d.text = e.text /\ d.mode = "normal"
      /\ d.modified = e.modified /\ d.undo = e.undo
      /\ d.has_undo = e.has_undo /\ d.pending = e.pending
  BY <1>1 DEF Shape, EditorType, SameBut, Modes
<1>. HIDE DEF d
<1>4. Moved(d, g) /\ Rests(g)
  BY <1>3, ClampIs
<1>. HIDE DEF g
<1>5. Moved(g, f) /\ Rests(f)
  BY <1>4, ColumnIs DEF Moved
<1>. HIDE DEF f
<1>6. Written(e, f)
  BY <1>3, <1>4, <1>5 DEF Written, Moved, SameBut, Marked
<1>. QED
  BY <1>2, <1>6

(* A char or a tab is typed, as long as the buffer has room (insert_key).  *)
LEMMA TypedIs ==
    ASSUME NEW e, Shape(e), InText(e), e.mode = "insert", NEW str \in Texts
    PROVE  Written(e, Typed(e, str))
<1>. DEFINE c == e.cursor
            d == insert_text(e, c, str)
            to == c + Len(str)
            g == At(d, to)
            s == IF Fits(e, str) THEN g ELSE e
            f == set_column(s)
<1>1. Typed(e, str) = f
  BY DEF Typed
<1>2. Length(e) \in Nat /\ c \in 0 .. Length(e) /\ Len(str) \in Nat
  BY Size DEF InText, Texts
<1>3. Written(e, s)
  <2>1. CASE ~ Fits(e, str)
    BY <2>1 DEF Written, Marked, Rests
  <2>2. CASE Fits(e, str)
    <3>1. /\ Shape(d) /\ OtherText(e, d) /\ d.modified
          /\ Length(d) = Length(e) + Len(str)
      BY <1>2, <2>2, Inserts
    <3>. HIDE DEF d
    <3>2. to \in Int /\ to \in 0 .. Length(d)
      BY <1>2, <3>1
    <3>. HIDE DEF to
    <3>3. Shape(g) /\ SameBut(d, g) /\ g.cursor = to
      BY <3>1, <3>2, AtIs
    <3>. HIDE DEF g
    <3>4. Written(e, g)
      BY <3>1, <3>2, <3>3
         DEF Written, Marked, Rests, SameBut, OtherText, InText, Length
    <3>. QED
      BY <2>2, <3>4
  <2>. QED
    BY <2>1, <2>2
<1>. HIDE DEF s
<1>4. Moved(s, f) /\ Rests(f)
  BY <1>3, ColumnIs DEF Written
<1>. HIDE DEF f
<1>. QED
  BY <1>1, <1>3, <1>4, WrittenMoved

(* Every key of insert mode (insert_key)                                   *)
LEMMA InsertWrites ==
    ASSUME NEW e, Shape(e), InText(e), e.mode = "insert", e.pending = NoKey,
           NEW r \in Registers, NEW key \in InsertKeys
    PROVE  Writing(e, r, insert_key(e, r, key))
<1>. DEFINE c == e.cursor
            out == insert_key(e, r, key)
<1>1. Length(e) \in Nat /\ c \in 0 .. Length(e)
  BY Size DEF InText
<1>2. Written(e, e)
  BY DEF Written, Marked, Rests
<1>3. ASSUME NEW f, Written(e, f), out = Both(f, r) PROVE Writing(e, r, out)
  <2>. HIDE DEF out
  <2>. QED
    BY <1>3, BothWritten
<1>4. ASSUME NEW from \in 0 .. Length(e), NEW to \in from .. Length(e),
             to - from = 1, c \in {from, to}
      PROVE  LET d == delete_text(e, from, to)
             IN  /\ Written(e, At(d, from)) /\ (c = from => Written(e, d))
  <2>. DEFINE d == delete_text(e, from, to)
              g == At(d, from)
  <2>1. /\ Shape(d) /\ OtherText(e, d) /\ d.modified
        /\ Length(d) = Length(e) - 1
    BY <1>4, Deletes
  <2>. HIDE DEF d
  <2>2. from \in Int /\ from \in 0 .. Length(d)
    BY <1>1, <1>4, <2>1
  <2>3. Shape(g) /\ SameBut(d, g) /\ g.cursor = from
    BY <2>1, <2>2, AtIs
  <2>. HIDE DEF g
  <2>4. Written(e, g)
    BY <2>1, <2>2, <2>3
       DEF Written, Marked, Rests, SameBut, OtherText, InText, Length
  <2>5. ASSUME c = from PROVE Written(e, d)
    BY <2>1, <2>2, <2>5 DEF Written, Marked, Rests, OtherText, InText
  <2>. QED
    BY <2>4, <2>5 DEF g, d
<1>5. CASE key = "ESC"
  <2>1. out = Both(LeaveInsert(e), r)
    BY <1>5, KeysAssumption DEF insert_key, Arrows, TAB, NL
  <2>. QED
    BY <1>3, <2>1, LeavesInsert
<1>6. CASE key = "BS"
  <2>. DEFINE s == IF c > 0 THEN At(delete_text(e, c - 1, c), c - 1) ELSE e
              f == set_column(s)
  <2>1. out = Both(f, r)
    BY <1>6, KeysAssumption DEF insert_key, Arrows, TAB, NL
  <2>2. Written(e, s)
    <3>1. CASE c > 0
      <4>1. c - 1 \in 0 .. Length(e) /\ c \in c - 1 .. Length(e) /\ c - (c - 1) = 1
        BY <1>1, <3>1
      <4>. QED
        BY <1>4, <3>1, <4>1
    <3>2. CASE ~ (c > 0)
      BY <1>2, <3>2
    <3>. QED
      BY <3>1, <3>2
  <2>. HIDE DEF s
  <2>3. Moved(s, f) /\ Rests(f)
    BY <2>2, ColumnIs DEF Written
  <2>. HIDE DEF f
  <2>4. Written(e, f)
    BY <2>2, <2>3, WrittenMoved
  <2>. HIDE DEF out
  <2>5. Writing(e, r, out)
    BY <1>3, <2>1, <2>4
  <2>. QED
    BY <2>5 DEF out
<1>7. CASE key = "DELETE"
  <2>. DEFINE f == IF c < Length(e) THEN delete_text(e, c, c + 1) ELSE e
  <2>1. out = Both(f, r)
    BY <1>7, KeysAssumption DEF insert_key, Arrows, TAB, NL
  <2>2. Written(e, f)
    <3>1. CASE c < Length(e)
      <4>1. c + 1 \in c .. Length(e) /\ (c + 1) - c = 1
        BY <1>1, <3>1
      <4>. QED
        BY <1>1, <1>4, <3>1, <4>1
    <3>2. CASE ~ (c < Length(e))
      BY <1>2, <3>2
    <3>. QED
      BY <3>1, <3>2
  <2>. HIDE DEF f, out
  <2>3. Writing(e, r, out)
    BY <1>3, <2>1, <2>2
  <2>. QED
    BY <2>3 DEF out
<1>8. CASE key \in Arrows
  <2>. DEFINE e1 == [e EXCEPT !.count = 0, !.pending = NoKey]
              n == Most(e.count, 1)
              f == motion(e1, key, n)
  <2>1. out = normal_key(e, r, key)
    BY <1>8, KeysAssumption DEF insert_key, Arrows, TAB, NL
  <2>2. ~ IsDigit(e, key) /\ key \in Motions
    BY <1>8 DEF IsDigit, Digits, Arrows, Motions
  <2>3. NoKey \notin {"g", "d", "c", "y"}
    BY Zenon DEF NoKey
  <2>4. normal_key(e, r, key) = Both(f, r)
    BY <2>2, <2>3 DEF normal_key
  <2>5. n \in Nat \ {0}
    <3>1. e.count \in Nat
      BY DEF Shape, EditorType
    <3>. QED
      BY <3>1 DEF Most
  <2>6. /\ Shape(e1) /\ InText(e1) /\ e1.pending = NoKey
        /\ e1.text = e.text /\ e1.mode = "insert"
        /\ e1.modified = e.modified /\ e1.undo = e.undo
        /\ e1.has_undo = e.has_undo
    BY ClearedIs
  <2>. HIDE DEF e1, n
  <2>7. Moved(e1, f)
    BY <2>5, <2>6, MotionMoves
  <2>. HIDE DEF f
  <2>8. Written(e, f)
    BY <2>6, <2>7 DEF Written, Moved, SameBut, Marked, Rests
  <2>. HIDE DEF out
  <2>9. Writing(e, r, out)
    BY <1>3, <2>1, <2>4, <2>8
  <2>. QED
    BY <2>9 DEF out
<1>9. CASE key = TAB
  <2>1. <<SPACE, SPACE>> \in Texts
    <3>1. SPACE \in TextChars
      BY EditorAssumption, Zenon DEF TextChars
    <3>. QED
      BY <3>1 DEF Texts
  <2>2. out = Both(Typed(e, <<SPACE, SPACE>>), r)
    BY <1>9, KeysAssumption DEF insert_key, Arrows, TAB, NL
  <2>3. Written(e, Typed(e, <<SPACE, SPACE>>))
    BY <2>1, TypedIs
  <2>. HIDE DEF out
  <2>4. Writing(e, r, out)
    BY <1>3, <2>2, <2>3
  <2>. QED
    BY <2>4 DEF out
<1>10. CASE key \in TypedChars \cup {NL} /\ key \notin Arrows /\ key # TAB
            /\ key \notin {"ESC", "BS", "DELETE"}
  <2>1. <<key>> \in Texts
    <3>1. key \in TextChars
      BY <1>10, EditorAssumption, Zenon DEF TextChars
    <3>. QED
      BY <3>1 DEF Texts
  <2>2. out = Both(Typed(e, <<key>>), r)
    BY <1>10 DEF insert_key
  <2>3. Written(e, Typed(e, <<key>>))
    BY <2>1, TypedIs
  <2>. HIDE DEF out
  <2>4. Writing(e, r, out)
    BY <1>3, <2>2, <2>3
  <2>. QED
    BY <2>4 DEF out
<1>. QED
  BY <1>5, <1>6, <1>7, <1>8, <1>9, <1>10 DEF InsertKeys

-----------------------------------------------------------------------------
(* The file and the text that is read from it                              *)

Sequence(s) == s \in Seq({s[i] : i \in DOMAIN s})

LEMMA TextIsSequence ==
    ASSUME NEW t \in Texts
    PROVE  Sequence(t)
<1>1. Len(t) \in Nat /\ t \in [1 .. Len(t) -> TextChars] /\ DOMAIN t = 1 .. Len(t)
  BY LenProperties DEF Texts
<1>. DEFINE S == {t[i] : i \in DOMAIN t}
            n == Len(t)
<1>2. t \in [1 .. n -> S]
  BY <1>1
<1>. HIDE DEF S, n
<1>3. t \in Seq(S)
  BY <1>1, <1>2, SeqDef DEF n
<1>. QED
  BY <1>3 DEF Sequence, S

(* A function on 1 .. n is a sequence of that length.                      *)
LEMMA FunctionIsText ==
    ASSUME NEW n \in Nat, NEW f \in [1 .. n -> TextChars]
    PROVE  f \in Texts /\ Len(f) = n
<1>1. f \in Texts
  BY SeqDef DEF Texts
<1>2. Len(f) \in Nat /\ DOMAIN f = 1 .. Len(f)
  BY <1>1, LenProperties DEF Texts
<1>3. DOMAIN f = 1 .. n
  OBVIOUS
<1>4. Len(f) = n
  <2>1. \A i \in Int : i \in 1 .. Len(f) <=> i \in 1 .. n
    BY <1>2, <1>3
  <2>. DEFINE l == Len(f)
  <2>2. l \in Nat /\ \A i \in Int : i \in 1 .. l <=> i \in 1 .. n
    BY <1>2, <2>1
  <2>. HIDE DEF l
  <2>3. l = n
    BY <2>2
  <2>. QED
    BY <2>3 DEF l
<1>. QED
  BY <1>1, <1>4

(* Whatever the file holds, a text of printable chars that fits the buffer *)
(* is loaded (edit_load).                                                  *)
LEMMA LoadedIs ==
    ASSUME NEW data, Sequence(data)
    PROVE  LoadedText(data) \in Texts /\ Len(LoadedText(data)) <= EDIT_MAX
<1>. DEFINE S == {data[i] : i \in DOMAIN data}
            m == Least(Len(data), EDIT_MAX)
            part == SubSeq(data, 1, m)
            len == IF part # <<>> /\ part[Len(part)] = NL THEN Len(part) - 1
                   ELSE Len(part)
            t == [i \in 1 .. len |-> LoadedChar(part[i])]
<1>1. Len(data) \in Nat /\ EDIT_MAX \in Nat
  BY EditorAssumption DEF Sequence
<1>2. m \in Nat /\ m <= Len(data) /\ m <= EDIT_MAX
  BY <1>1 DEF Least
<1>3. LoadedText(data) = t
  BY DEF LoadedText
<1>. HIDE DEF m
<1>4. part \in Seq(S) /\ Len(part) = m
  <2>1. data \in Seq(S)
    BY DEF Sequence
  <2>. HIDE DEF S
  <2>2. \A i \in 1 .. m : data[i] \in S
    BY <1>1, <1>2, <2>1, ElementOfSeq
  <2>. QED
    BY <1>1, <1>2, <2>1, <2>2, SubSeqProperties
<1>. HIDE DEF part, S
<1>5. len \in Nat /\ len <= EDIT_MAX
  <2>1. part # <<>> => Len(part) \in Nat \ {0}
    BY <1>4, EmptySeq
  <2>. QED
    BY <1>2, <1>4, <2>1, EditorAssumption
<1>. HIDE DEF len
<1>6. \A c : LoadedChar(c) \in TextChars
  BY EditorAssumption, Zenon DEF LoadedChar, TextChars
<1>7. t \in [1 .. len -> TextChars]
  BY <1>6
<1>. HIDE DEF t
<1>8. t \in Texts /\ Len(t) = len
  BY <1>5, <1>7, FunctionIsText
<1>. QED
  BY <1>3, <1>5, <1>8

(* A text is written with a last '\n', an empty one without                *)
(* (edit_save_data).                                                       *)
LEMMA SavedIsText ==
    ASSUME NEW e, Shape(e)
    PROVE  edit_save_data(e) \in Texts
<1>1. NL \in TextChars
  BY Zenon DEF TextChars
<1>2. e.text \in Texts /\ <<>> \in Texts
  BY Size, EmptySeq DEF Texts
<1>. QED
  BY <1>1, <1>2 DEF edit_save_data, Texts

(* What is saved is loaded again as it was, as long as its last '\n' is    *)
(* among the bytes that are read (edit_save_data, edit_load).              *)
LEMMA SavedLoads ==
    ASSUME NEW e, Shape(e)
    PROVE  /\ Sequence(edit_save_data(e))
           /\ Length(e) < EDIT_MAX => LoadedText(edit_save_data(e)) = e.text
<1>. DEFINE t == e.text
            n == Length(e)
            data == edit_save_data(e)
            m == Least(Len(data), EDIT_MAX)
            part == SubSeq(data, 1, m)
            len == IF part # <<>> /\ part[Len(part)] = NL THEN Len(part) - 1
                   ELSE Len(part)
<1>1. /\ n \in Nat /\ EDIT_MAX \in Nat /\ t \in Texts /\ n = Len(t)
      /\ t \in [1 .. n -> TextChars] /\ t = [i \in 1 .. n |-> t[i]]
      /\ t = <<>> <=> n = 0
  <2>1. n \in Nat /\ EDIT_MAX \in Nat /\ t \in Texts /\ n = Len(t)
    BY Size DEF Length
  <2>2. t \in [1 .. n -> TextChars]
    BY <2>1, LenProperties DEF Texts
  <2>3. t = <<>> <=> n = 0
    BY <2>1, EmptySeq DEF Texts
  <2>. HIDE DEF t, n
  <2>4. t = [i \in 1 .. n |-> t[i]]
    BY <2>2
  <2>. QED
    BY <2>1, <2>2, <2>3, <2>4
<1>2. data = IF t = <<>> THEN <<>> ELSE Append(t, NL)
  BY DEF edit_save_data
<1>3. NL \in TextChars
  BY Zenon DEF TextChars
<1>4. LoadedText(data) = [i \in 1 .. len |-> LoadedChar(part[i])]
  BY DEF LoadedText
<1>. HIDE DEF t, n, data
<1>5. /\ data \in Texts
      /\ t = <<>> => Len(data) = 0
      /\ t # <<>> => /\ Len(data) = n + 1 /\ data[n + 1] = NL
                     /\ \A i \in 1 .. n : data[i] = t[i]
  <2>1. <<>> \in Texts /\ Len(<<>>) = 0
    BY EmptySeq DEF Texts
  <2>2. /\ Append(t, NL) \in Texts /\ Len(Append(t, NL)) = n + 1
        /\ Append(t, NL)[n + 1] = NL
        /\ \A i \in 1 .. n : Append(t, NL)[i] = t[i]
    BY <1>1, <1>3 DEF Texts
  <2>. QED
    BY <1>2, <2>1, <2>2
<1>6. ASSUME n < EDIT_MAX PROVE LoadedText(data) = t
  <2>1. Len(data) \in Nat /\ m = Len(data)
    <3>1. Len(data) \in Nat /\ Len(data) <= EDIT_MAX
      BY <1>1, <1>5, <1>6
    <3>. QED
      BY <1>1, <3>1 DEF Least
  <2>. HIDE DEF m
  <2>2. \A i \in 1 .. m : data[i] \in TextChars
    BY <1>5, <2>1, ElementOfSeq DEF Texts
  <2>3. part \in Texts /\ Len(part) = m /\ \A i \in 1 .. m : part[i] = data[i]
    <3>1. /\ part \in Texts /\ Len(part) = IF 1 <= m THEN m - 1 + 1 ELSE 0
          /\ \A i \in 1 .. m - 1 + 1 : part[i] = data[1 + i - 1]
      BY <2>1, <2>2, SubSeqProperties DEF Texts
    <3>. HIDE DEF part
    <3>. QED
      BY <2>1, <3>1
  <2>. HIDE DEF part
  <2>4. len = n
    <3>1. CASE t = <<>>
      <4>1. Len(part) = 0
        BY <1>5, <2>1, <2>3, <3>1
      <4>2. part = <<>>
        BY <2>3, <4>1, EmptySeq DEF Texts
      <4>. QED
        BY <1>1, <3>1, <4>1, <4>2
    <3>2. CASE t # <<>>
      <4>1. Len(part) = n + 1 /\ part[n + 1] = NL
        BY <1>1, <1>5, <2>1, <2>3, <3>2
      <4>2. part # <<>>
        BY <1>1, <4>1, EmptySeq
      <4>. QED
        BY <1>1, <4>1, <4>2
    <3>. QED
      BY <3>1, <3>2
  <2>. HIDE DEF len
  <2>5. ASSUME NEW i \in 1 .. n PROVE LoadedChar(part[i]) = t[i]
    <3>1. t # <<>> /\ i \in 1 .. m
      BY <1>1, <1>5, <2>1
    <3>2. part[i] = t[i] /\ t[i] \in TextChars
      BY <1>1, <1>5, <2>3, <3>1
    <3>. QED
      BY <3>2, Zenon DEF LoadedChar, TextChars
  <2>. QED
    BY <1>1, <1>4, <2>4, <2>5
<1>7. Sequence(data)
  BY <1>5, TextIsSequence
<1>. QED
  BY <1>6, <1>7 DEF data, n, t

-----------------------------------------------------------------------------
(* The window and its editor                                               *)

Windowed ==
    /\ Shape(ed) /\ InText(ed) /\ reg \in Registers /\ Sequence(file)
    /\ window \in {"closed", "open", "asking"} /\ failed \in BOOLEAN

(* what the copy for u holds; while text is inserted it is the text the    *)
(* insertion began with, whether anything was typed or not                 *)
Undoable(e, b, s, i) ==
    /\ e.mode # "insert" =>
           IF e.has_undo THEN e.undo = b \/ (i /\ e.undo = e.text)
           ELSE e.text = b
    /\ e.mode = "insert" =>
           /\ e.has_undo /\ e.undo = s /\ e.pending = NoKey
           /\ b = s \/ (i /\ e.text = s)

(* an unmarked text is the one of its file                                 *)
Stored(e, data, lost) ==
    ~ e.modified /\ ~ lost /\ Length(e) < EDIT_MAX => e.text = LoadedText(data)

(* also under a command line the cursor keeps its place                    *)
Resting(e) == e.mode # "insert" => ~ OnLineEnd(e)

EditInv ==
    /\ Windowed
    /\ window # "closed" =>
           Undoable(ed, before, begun, idle) /\ Stored(ed, file, failed)

RestInv ==
    window # "closed" => Resting(ed)

LEMMA MarkedStored ==
    ASSUME NEW e, NEW f, NEW data, NEW lost,
           Marked(e, f), Stored(e, data, lost)
    PROVE  Stored(f, data, lost)
BY DEF Marked, Stored, Length

LEMMA MovedKeeps ==
    ASSUME NEW e, NEW f, SameBut(e, f)
    PROVE  /\ \A b, s, i : Undoable(e, b, s, i) => Undoable(f, b, s, i)
           /\ \A data, lost : Stored(e, data, lost) => Stored(f, data, lost)
BY DEF SameBut, Undoable, Stored, Length

LEMMA TurnedKeeps ==
    ASSUME NEW e, Shape(e), InText(e), e.mode = "normal", NEW f, Turned(e, f),
           NEW b, NEW s, NEW i, NEW j, Sparing(e, f) \/ j
    PROVE  /\ Undoable(e, b, s, i) =>
                  Undoable(f, IF f.text # e.text THEN e.text ELSE b, e.text,
                           f.text = e.text /\ (i \/ j))
           /\ Resting(e) => Resting(f)
<1>1. ASSUME Undoable(e, b, s, i)
      PROVE  Undoable(f, IF f.text # e.text THEN e.text ELSE b, e.text,
                      f.text = e.text /\ (i \/ j))
  <2>1. CASE f.text # e.text
    <3>1. Copied(e, f)
      BY <2>1 DEF Turned, Left
    <3>. QED
      BY <2>1, <3>1 DEF Turned, Undoable, Copied
  <2>2. CASE f.text = e.text /\ Left(e, f)
    BY <1>1, <2>2 DEF Undoable, Left
  <2>3. CASE f.text = e.text /\ ~ Left(e, f)
    <3>1. Copied(e, f) /\ j
      BY <2>3 DEF Turned, Sparing
    <3>. QED
      BY <2>3, <3>1 DEF Turned, Undoable, Copied
  <2>. QED
    BY <2>1, <2>2, <2>3
<1>2. ASSUME Resting(e) PROVE Resting(f)
  <2>1. Shape(f) /\ InText(f) /\ f.mode \in Modes /\ e.text \in Texts /\ f.text \in Texts
    BY Size DEF Turned, Shape, EditorType
  <2>2. CASE f.mode = "normal"
    BY <1>2, <2>2 DEF Resting, Rests, Turned
  <2>3. CASE f.mode = "insert"
    BY <2>3 DEF Resting
  <2>4. CASE f.mode = "command"
    <3>1. f.text = e.text /\ f.cursor = e.cursor /\ ~ OnLineEnd(e)
      BY <1>2, <2>4 DEF Turned, Resting
    <3>2. ~ OnLineEnd(f)
      BY <2>1, <3>1, OnEndIs DEF InText, Length, EndsLine, StartsLine, Char
    <3>. QED
      BY <3>2 DEF Resting
  <2>. QED
    BY <2>1, <2>2, <2>3, <2>4 DEF Modes
<1>. QED
  BY <1>1, <1>2

(* The command line is left, for a command or without one (edit_key).      *)
LEMMA ModeBack ==
    ASSUME NEW e, Shape(e), InText(e), e.mode # "insert"
    PROVE  LET f == [e EXCEPT !.mode = "normal"]
           IN  /\ Shape(f) /\ InText(f) /\ f.mode = "normal"
               /\ f.text = e.text /\ f.modified = e.modified
               /\ \A b, s, i : Undoable(e, b, s, i) => Undoable(f, b, s, i)
               /\ \A data, lost : Stored(e, data, lost) => Stored(f, data, lost)
               /\ Resting(e) => Resting(f)
<1>. DEFINE f == [e EXCEPT !.mode = "normal"]
<1>1. /\ Shape(f) /\ f.mode = "normal"
      /\ f.text = e.text /\ f.modified = e.modified /\ f.undo = e.undo
      /\ f.has_undo = e.has_undo /\ f.cursor = e.cursor
  BY DEF Shape, EditorType, Modes
<1>. HIDE DEF f
<1>2. InText(f) /\ f.text \in Texts /\ e.text \in Texts
  BY <1>1, Size DEF InText, Length
<1>3. \A b, s, i : Undoable(e, b, s, i) => Undoable(f, b, s, i)
  BY <1>1 DEF Undoable
<1>4. \A data, lost : Stored(e, data, lost) => Stored(f, data, lost)
  BY <1>1 DEF Stored, Length
<1>5. Resting(e) => Resting(f)
  BY <1>1, <1>2, OnEndIs DEF Resting, InText, Length, EndsLine, StartsLine, Char
<1>. QED
  BY <1>1, <1>2, <1>3, <1>4, <1>5 DEF f

LEMMA EditInit ==
    Init => EditInv /\ RestInv
<1>. SUFFICES ASSUME Init PROVE EditInv /\ RestInv
  OBVIOUS
<1>1. EDIT_MAX \in Nat /\ <<>> \in Texts /\ Len(<<>>) = 0
  BY EditorAssumption, EmptySeq DEF Texts
<1>2. Shape(Closed) /\ InText(Closed)
  BY <1>1 DEF Closed, Shape, EditorType, Modes, Pendings, InText, Length
<1>3. Sequence(file)
  BY EditorAssumption DEF Init, Sequence
<1>4. reg \in Registers
  BY EditorAssumption DEF Init
<1>. QED
  BY <1>2, <1>3, <1>4 DEF Init, EditInv, RestInv, Windowed

(* open_text                                                               *)
LEMMA OpenKeeps ==
    ASSUME EditInv, open_text
    PROVE  EditInv' /\ RestInv'
<1>. DEFINE t == LoadedText(file)
            e == edit_load(file)
<1>1. t \in Texts /\ Len(t) <= EDIT_MAX
  BY LoadedIs DEF EditInv, Windowed
<1>2. e = [Closed EXCEPT !.text = t]
  BY DEF edit_load
<1>3. ed' = e /\ before' = t /\ begun' = t /\ idle' = FALSE
      /\ failed' = FALSE /\ window' = "open"
      /\ UNCHANGED <<reg, file>>
  BY DEF open_text
<1>4. t = LoadedText(file')
  BY <1>3
<1>5. Len(t) \in Nat /\ EDIT_MAX \in Nat /\ <<>> \in Texts /\ Len(<<>>) = 0
  BY <1>1, EditorAssumption, EmptySeq DEF Texts
<1>. HIDE DEF t, e
<1>6. /\ Shape(e) /\ e.text = t /\ e.mode = "normal" /\ ~ e.modified
      /\ e.cursor = 0 /\ ~ e.has_undo
  <2>1. /\ Shape(Closed) /\ Closed.mode = "normal" /\ Closed.modified = FALSE
        /\ Closed.cursor = 0 /\ Closed.has_undo = FALSE
    BY <1>5 DEF Closed, Shape, EditorType, Modes, Pendings
  <2>. QED
    BY <1>1, <1>2, <2>1 DEF Shape, EditorType
<1>7. InText(e)
  BY <1>5, <1>6 DEF InText, Length
<1>8. Undoable(e, t, t, FALSE) /\ Stored(e, file', FALSE)
  BY <1>4, <1>6 DEF Undoable, Stored
<1>9. Resting(e)
  <2>1. StartsLine(e, 0)
    BY DEF StartsLine
  <2>. QED
    BY <1>1, <1>6, <1>7, <2>1, OnEndIs DEF Resting, InText
<1>. QED
  BY <1>3, <1>6, <1>7, <1>8, <1>9 DEF EditInv, RestInv, Windowed

(* edit_key in normal mode                                                 *)
LEMMA NormalKeeps ==
    ASSUME EditInv, NEW key, NormalKey(key)
    PROVE  EditInv' /\ (RestInv => RestInv')
<1>. DEFINE out == normal_key(ed, reg, key)
            f == out.ed
            b == IF f.text # ed.text THEN ed.text ELSE before
            i == f.text = ed.text /\ (idle \/ Speculative(ed, key))
<1>1. /\ Shape(ed) /\ InText(ed) /\ reg \in Registers /\ Sequence(file)
      /\ failed \in BOOLEAN
      /\ window = "open" /\ ed.mode = "normal"
      /\ Undoable(ed, before, begun, idle) /\ Stored(ed, file, failed)
      /\ RestInv => Resting(ed)
  BY DEF EditInv, Windowed, NormalKey, RestInv
<1>2. Turned(ed, f) /\ out.reg \in Registers
  BY <1>1, NormalTurns DEF Turns
<1>3. /\ ed' = f /\ reg' = out.reg /\ before' = b /\ begun' = ed.text
      /\ idle' = i /\ UNCHANGED <<file, window, failed>>
  BY <1>1 DEF NormalKey, Takes
<1>4. Sparing(ed, f) \/ Speculative(ed, key)
  BY <1>1, NormalSpares
<1>. HIDE DEF out, f
<1>5. /\ Undoable(f, b, ed.text, i) /\ (Resting(ed) => Resting(f))
      /\ Stored(f, file, failed)
  BY <1>1, <1>2, <1>4, TurnedKeeps, MarkedStored DEF Turned
<1>6. Shape(f) /\ InText(f)
  BY <1>2 DEF Turned
<1>. HIDE DEF b, i
<1>. QED
  BY <1>1, <1>2, <1>3, <1>5, <1>6 DEF EditInv, RestInv, Windowed

(* edit_key in insert mode                                                 *)
LEMMA InsertKeeps ==
    ASSUME EditInv, NEW key \in InsertKeys, InsertKey(key)
    PROVE  EditInv' /\ RestInv'
<1>. DEFINE out == insert_key(ed, reg, key)
            f == out.ed
            b == IF f.text # ed.text THEN begun ELSE before
            i == f.text = ed.text /\ idle
<1>1. /\ Shape(ed) /\ InText(ed) /\ reg \in Registers /\ Sequence(file)
      /\ failed \in BOOLEAN
      /\ window = "open" /\ ed.mode = "insert" /\ ed.pending = NoKey
      /\ Undoable(ed, before, begun, idle) /\ Stored(ed, file, failed)
  BY DEF EditInv, Windowed, InsertKey, Undoable
<1>2. Written(ed, f) /\ out.reg = reg
  BY <1>1, InsertWrites DEF Writing
<1>3. /\ ed' = f /\ reg' = out.reg /\ before' = b /\ begun' = begun
      /\ idle' = i /\ UNCHANGED <<file, window, failed>>
  BY <1>1 DEF InsertKey, Takes, Speculative
<1>. HIDE DEF out, f
<1>4. Undoable(f, b, begun, i) /\ Resting(f) /\ Stored(f, file, failed)
  BY <1>1, <1>2, MarkedStored DEF Written, Undoable, Resting, Rests
<1>. HIDE DEF b, i
<1>5. Shape(f) /\ InText(f)
  BY <1>2 DEF Written
<1>. QED
  BY <1>1, <1>2, <1>3, <1>4, <1>5 DEF EditInv, RestInv, Windowed

(* The command line: left, a line number, q, w and a write that fails      *)
(* (run_command, save_text)                                                *)
LEMMA CommandKeeps ==
    ASSUME EditInv, CommandLeft \/ \E c \in Commands :
               CommandMoves(c) \/ CommandQuits(c) \/ CommandSaves(c) \/ CommandSaveFails(c)
    PROVE  EditInv' /\ (RestInv => RestInv')
<1>. DEFINE e == [ed EXCEPT !.mode = "normal"]
<1>1. /\ Shape(ed) /\ InText(ed) /\ reg \in Registers /\ Sequence(file)
      /\ failed \in BOOLEAN
      /\ window = "open" /\ ed.mode = "command"
      /\ Undoable(ed, before, begun, idle) /\ Stored(ed, file, failed)
      /\ RestInv => Resting(ed)
  BY DEF EditInv, Windowed, CommandLeft, CommandMoves, CommandQuits,
         CommandSaves, CommandSaveFails, RestInv
<1>2. /\ Shape(e) /\ InText(e) /\ e.mode = "normal"
      /\ e.text = ed.text /\ e.modified = ed.modified
      /\ Undoable(e, before, begun, idle) /\ Stored(e, file, failed)
      /\ Resting(ed) => Resting(e)
  BY <1>1, ModeBack
<1>3. CASE CommandLeft
  <2>1. ed' = e /\ UNCHANGED <<reg, file, window, before, begun, idle, failed>>
    BY <1>3 DEF CommandLeft
  <2>. HIDE DEF e
  <2>. QED
    BY <1>1, <1>2, <2>1 DEF EditInv, RestInv, Windowed
<1>4. ASSUME NEW c \in Commands, CommandMoves(c)
      PROVE  EditInv' /\ (RestInv => RestInv')
  <2>. DEFINE f == IF c \in DOMAIN CommandLine THEN goto_line(e, CommandLine[c]) ELSE e
  <2>1. ed' = f /\ UNCHANGED <<reg, file, window, before, begun, idle, failed>>
    BY <1>4 DEF CommandMoves
  <2>. HIDE DEF e
  <2>2. Moved(e, f) /\ (Rests(e) => Rests(f))
    <3>1. c \in DOMAIN CommandLine => CommandLine[c] \in Nat
      BY DEF CommandLine
    <3>. QED
      BY <1>2, <3>1, GotoMoves, MovedNot
  <2>. HIDE DEF f
  <2>3. /\ Shape(f) /\ InText(f) /\ Undoable(f, before, begun, idle) /\ Stored(f, file, failed)
        /\ f.mode = "normal" /\ (Resting(e) => Resting(f))
    BY <1>2, <2>2, MovedKeeps DEF Moved, SameBut, Rests, Resting
  <2>. QED
    BY <1>1, <1>2, <2>1, <2>3 DEF EditInv, RestInv, Windowed
<1>5. ASSUME NEW c \in Commands, CommandQuits(c)
      PROVE  EditInv' /\ (RestInv => RestInv')
  <2>1. ed' = e /\ window' = "closed" /\ UNCHANGED <<reg, file, failed>>
    BY <1>5 DEF CommandQuits
  <2>. HIDE DEF e
  <2>. QED
    BY <1>1, <1>2, <2>1 DEF EditInv, RestInv, Windowed
<1>6. ASSUME NEW c \in Commands, CommandSaves(c)
      PROVE  EditInv' /\ (RestInv => RestInv')
  <2>. DEFINE f == edit_saved(e)
              data == edit_save_data(ed)
  <2>1. /\ ed' = f /\ file' = data /\ failed' = FALSE
        /\ window' \in {"closed", "open"} /\ UNCHANGED <<reg, before, begun, idle>>
    BY <1>6 DEF CommandSaves
  <2>. HIDE DEF e
  <2>2. /\ Shape(f) /\ f.text = e.text /\ f.mode = "normal" /\ f.cursor = e.cursor
        /\ f.undo = e.undo /\ f.has_undo = e.has_undo
    BY <1>2 DEF edit_saved, Shape, EditorType
  <2>. HIDE DEF f
  <2>3. InText(f) /\ Undoable(f, before, begun, idle) /\ f.text \in Texts /\ e.text \in Texts
    BY <1>2, <2>2, Size DEF InText, Length, Undoable
  <2>4. Resting(e) => Resting(f)
    BY <1>2, <2>2, <2>3, OnEndIs
       DEF Resting, InText, Length, EndsLine, StartsLine, Char
  <2>5. Sequence(data) /\ (Length(ed) < EDIT_MAX => LoadedText(data) = ed.text)
    BY <1>1, SavedLoads
  <2>. HIDE DEF data
  <2>6. Stored(f, data, FALSE)
    BY <1>2, <2>2, <2>5 DEF Stored, Length
  <2>. QED
    BY <1>1, <1>2, <2>1, <2>2, <2>3, <2>4, <2>5, <2>6
       DEF EditInv, RestInv, Windowed
<1>7. ASSUME NEW c \in Commands, CommandSaveFails(c)
      PROVE  EditInv' /\ (RestInv => RestInv')
  <2>. DEFINE data == edit_save_data(ed)
  <2>1. /\ ed' = e /\ failed' = TRUE
        /\ file' \in {file, <<>>} \cup {SubSeq(data, 1, n) : n \in 1 .. Len(data) - 1}
        /\ UNCHANGED <<reg, window, before, begun, idle>>
    BY <1>7 DEF CommandSaveFails, AfterFailedWrite
  <2>. HIDE DEF e
  <2>2. Sequence(file')
    <3>1. <<>> \in Texts
      BY EmptySeq DEF Texts
    <3>2. Sequence(<<>>)
      BY <3>1, TextIsSequence
    <3>3. data \in Texts
      BY <1>1, SavedIsText
    <3>. HIDE DEF data
    <3>4. ASSUME NEW n \in 1 .. Len(data) - 1 PROVE Sequence(SubSeq(data, 1, n))
      <4>1. SubSeq(data, 1, n) \in Texts
        BY <3>3 DEF Texts
      <4>. QED
        BY <4>1, TextIsSequence
    <3>. QED
      BY <1>1, <2>1, <3>2, <3>4
  <2>3. Stored(e, file', TRUE)
    BY DEF Stored
  <2>. QED
    BY <1>1, <1>2, <2>1, <2>2, <2>3 DEF EditInv, RestInv, Windowed
<1>. QED
  BY <1>3, <1>4, <1>5, <1>6, <1>7

(* The close box and the answer to its alert (request_close, alert_done)   *)
LEMMA CloseKeeps ==
    ASSUME EditInv, request_close \/ \E ok \in BOOLEAN : alert_done(ok)
    PROVE  EditInv' /\ (RestInv => RestInv')
<1>1. /\ UNCHANGED <<ed, reg, file, before, begun, idle, failed>> /\ window # "closed"
      /\ window' \in {"closed", "open", "asking"}
  BY DEF request_close, alert_done
<1>2. Windowed'
  BY <1>1 DEF EditInv, Windowed
<1>. QED
  BY <1>1, <1>2 DEF EditInv, RestInv

(* A click (edit_click).  The cursor is clamped unless a command is typed. *)
LEMMA ClickKeeps ==
    ASSUME EditInv, edit_click
    PROVE  EditInv' /\ ("command" \notin ClickModes => RestInv')
<1>1. /\ Shape(ed) /\ InText(ed) /\ reg \in Registers /\ Sequence(file)
      /\ failed \in BOOLEAN
      /\ window = "open" /\ ed.mode \in ClickModes
      /\ Undoable(ed, before, begun, idle) /\ Stored(ed, file, failed)
  BY DEF EditInv, Windowed, edit_click
<1>2. PICK pos \in 0 .. Length(ed) : ed' = set_column(clamp_cursor(At(ed, pos)))
  BY DEF edit_click
<1>3. pos \in Int
  BY <1>1, Size
<1>. DEFINE f == set_column(clamp_cursor(At(ed, pos)))
<1>4. Moved(ed, f) /\ Rests(f)
  BY <1>1, <1>3, MovesTo
<1>. HIDE DEF f
<1>5. ed' = f /\ UNCHANGED <<reg, file, window, before, begun, idle, failed>>
  BY <1>2 DEF f, edit_click
<1>6. /\ Shape(f) /\ InText(f) /\ Undoable(f, before, begun, idle) /\ Stored(f, file, failed)
      /\ f.mode = ed.mode
  BY <1>1, <1>4, MovedKeeps DEF Moved, SameBut
<1>7. "command" \notin ClickModes => Resting(f)
  BY <1>1, <1>4, <1>6 DEF Rests, Resting, Shape, EditorType, Modes
<1>. QED
  BY <1>1, <1>5, <1>6, <1>7 DEF EditInv, RestInv, Windowed

LEMMA EditNext ==
    /\ EditInv /\ [Next]_vars => EditInv'
    /\ "command" \notin ClickModes /\ EditInv /\ RestInv /\ [Next]_vars => RestInv'
<1>. SUFFICES ASSUME EditInv, [Next]_vars
              PROVE  /\ EditInv'
                     /\ "command" \notin ClickModes /\ RestInv => RestInv'
  OBVIOUS
<1>1. CASE UNCHANGED vars
  BY <1>1 DEF vars, EditInv, RestInv, Windowed
<1>2. CASE open_text
  BY <1>2, OpenKeeps
<1>3. ASSUME NEW key \in NormalKeys, NormalKey(key)
      PROVE  EditInv' /\ (RestInv => RestInv')
  BY <1>3, NormalKeeps
<1>4. ASSUME NEW key \in InsertKeys, InsertKey(key)
      PROVE  EditInv' /\ RestInv'
  BY <1>4, InsertKeeps
<1>5. CASE CommandLeft \/ \E c \in Commands :
               CommandMoves(c) \/ CommandQuits(c) \/ CommandSaves(c) \/ CommandSaveFails(c)
  BY <1>5, CommandKeeps
<1>6. CASE request_close \/ \E ok \in BOOLEAN : alert_done(ok)
  BY <1>6, CloseKeeps
<1>7. CASE edit_click
  BY <1>7, ClickKeeps
<1>. QED
  BY <1>1, <1>2, <1>3, <1>4, <1>5, <1>6, <1>7 DEF Next

(* EditInv holds whatever is typed, clicked, saved and opened.             *)
THEOREM EditInductive ==
    Spec => []EditInv
BY EditInit, EditNext, PTL DEF Spec

(* No command, insertion, paste or file leaves the buffers of the text, of *)
(* its copy or of the register, or puts the cursor behind the text         *)
(* (insert_text, delete_text, undo, edit_load).                            *)
THEOREM BuffersHold ==
    Spec => []TypeOK
<1>1. EditInv => TypeOK
  <2>. SUFFICES ASSUME EditInv PROVE TypeOK
    OBVIOUS
  <2>1. Shape(ed) /\ InText(ed) /\ reg \in Registers
        /\ window \in {"closed", "open", "asking"} /\ failed \in BOOLEAN
    BY DEF EditInv, Windowed
  <2>2. Length(ed) <= EDIT_MAX /\ ed.cursor <= Length(ed) /\ ed.cursor \in Nat
        /\ Len(ed.undo) <= EDIT_MAX
    BY <2>1, Size DEF InText, Shape
  <2>3. ed \in [text : Seq(TextChars), mode : {"normal", "insert", "command"},
                modified : BOOLEAN, cursor : Nat, column : Int, count : Nat,
                pending : {NoKey, "g", "d", "c", "y"}, undo : Seq(TextChars),
                undo_cursor : Nat, has_undo : BOOLEAN]
    BY <2>1, <2>2 DEF Shape, EditorType, Texts, Modes, Pendings
  <2>4. reg \in [text : Seq(TextChars), lines : BOOLEAN] /\ Len(reg.text) <= EDIT_MAX
    BY <2>1 DEF Registers
  <2>. QED
    BY <2>1, <2>2, <2>3, <2>4 DEF TypeOK
<1>. QED
  BY <1>1, EditInductive, PTL

(* After every key and click in normal mode the cursor is on a char or on  *)
(* an empty line, as clamp_cursor's comment says; a click while a command  *)
(* is typed is left out (clamp_cursor looks at the mode).                  *)
THEOREM CursorOnChar ==
    ASSUME "command" \notin ClickModes
    PROVE  Spec => []CursorRests
<1>1. RestInv => CursorRests
  BY DEF RestInv, Resting, CursorRests
<1>. QED
  BY <1>1, EditInit, EditNext, EditInductive, PTL DEF Spec

(* u goes back to the text from before the last change, and back again; or,*)
(* when a command or insertion that copies the text at once has since come *)
(* to nothing, nowhere (save_undo, undo, normal_key).                      *)
THEOREM UndoRestores ==
    Spec => []LastChangeUndone
<1>1. EditInv => LastChangeUndone
  BY DEF EditInv, Undoable, LastChangeUndone
<1>. QED
  BY <1>1, EditInductive, PTL

(* A window without [+] shows what open_text would read from its file, as  *)
(* long as no save has failed and the buffer is not full (insert_text,     *)
(* delete_text, undo, edit_saved).                                         *)
THEOREM NothingUnmarked ==
    Spec => []UnmodifiedIsSaved
<1>1. EditInv => UnmodifiedIsSaved
  BY DEF EditInv, Stored, UnmodifiedIsSaved
<1>. QED
  BY <1>1, EditInductive, PTL

(* Changes are written, or dropped by q! or by the answer to the alert     *)
(* (run_command, request_close, alert_done).                               *)
THEOREM ChangesNotLost ==
    Spec => ChangesKept
<1>. DEFINE Step == (window # "closed" /\ window' = "closed" /\ ed.modified) =>
                        \/ file' = edit_save_data(ed)
                        \/ window = "asking"
                        \/ CommandQuits("q!")
<1>1. ASSUME [Next]_vars, window # "closed", window' = "closed", ed.modified
      PROVE  \/ file' = edit_save_data(ed)
             \/ window = "asking"
             \/ CommandQuits("q!")
  <2>1. ~ UNCHANGED window
    BY <1>1
  <2>2. ASSUME NEW key, NEW out, Takes(key, out) PROVE FALSE
    BY <2>1, <2>2 DEF Takes
  <2>3. ASSUME NEW c \in Commands, CommandQuits(c) PROVE CommandQuits("q!")
    <3>1. c = "q!"
      BY <1>1, <2>3 DEF CommandQuits, Writes, Quits
    <3>. QED
      BY <2>3, <3>1
  <2>4. ASSUME NEW c \in Commands,
               CommandMoves(c) \/ CommandSaves(c) \/ CommandSaveFails(c)
        PROVE  file' = edit_save_data(ed)
    BY <2>1, <2>4 DEF CommandMoves, CommandSaves, CommandSaveFails
  <2>5. CASE request_close
    BY <1>1, <2>5 DEF request_close
  <2>6. ASSUME NEW ok \in BOOLEAN, alert_done(ok) PROVE window = "asking"
    BY <2>6 DEF alert_done
  <2>. QED
    BY <1>1, <2>1, <2>2, <2>3, <2>4, <2>5, <2>6
       DEF Next, vars, open_text, NormalKey, InsertKey, CommandLeft, edit_click
<1>. HIDE DEF Step
<1>2. [Next]_vars => [Step]_vars
  BY <1>1 DEF Step
<1>3. ChangesKept <=> [][Step]_vars
  BY DEF ChangesKept, Step
<1>. QED
  BY <1>2, <1>3, PTL DEF Spec
=============================================================================
