------------------------------- MODULE Editor -------------------------------
(* The text editor node bound to a document (node_text_editor.c): keys and   *)
(* characters move the caret and edit the text.  The node keeps a copy of    *)
(* the document's text, renewed by text_editor_sync_cache after an edit, and *)
(* holds every caret within the copy it has at that moment.  Document has    *)
(* the undo history.                                                         *)
EXTENDS TextModel
LOCAL INSTANCE FiniteSetsExt
LOCAL INSTANCE SequencesExt

-----------------------------------------------------------------------------
(* Where the caret goes and what a deletion takes (editor_commands.c).       *)

Class(text, o) == ClassOf(At(text, o))

\* The run of characters of one class before an offset, blanks skipped: no run
\* or the one, as <<from, to, class>>.
Solid(text, a, b) == {o \in a .. b - 1 : Class(text, o) # "whitespace"}

Alike(text, a, b) == \A i \in a .. b : Class(text, i) = Class(text, a)

RunTo(text, last) ==
  <<Min({a \in 0 .. last : Alike(text, a, last)}), last + 1, Class(text, last)>>
RunFrom(text, first) ==
  <<first, Max({b \in first .. Len(text) - 1 : Alike(text, first, b)}) + 1, Class(text, first)>>

PrevRun(text, position) ==
  {RunTo(text, o) : o \in {o \in Solid(text, 0, position) : Solid(text, o + 1, position) = {}}}
NextRun(text, position) ==
  {RunFrom(text, o) : o \in {o \in Solid(text, position, Len(text)) : Solid(text, position, o) = {}}}

\* One separator between two words belongs to the move across them.
Bridge(text, run) ==
  /\ run[3] = "separator"
  /\ run[2] = run[1] + 1
  /\ run[1] > 0 /\ run[2] < Len(text)
  /\ Class(text, run[1] - 1) = "regular" /\ Class(text, run[2]) = "regular"

\* The run a move goes to: the one it found, or the one across the bridge.
PrevOver(text, runs) ==
  {IF Bridge(text, run) THEN Only(PrevRun(text, run[1])) ELSE run : run \in runs}
NextOver(text, runs) ==
  {IF Bridge(text, run) THEN Only(NextRun(text, run[2])) ELSE run : run \in runs}

Side(runs, i, none) == IF runs = {} THEN none ELSE Only(runs)[i]

\* The run that starts or ends at the position already is passed.
PrevPast(text, position, runs) ==
  UNION {IF run[2] = position THEN PrevRun(text, run[1]) ELSE {run} : run \in runs}
NextPast(text, position, runs) ==
  UNION {IF run[1] <= position THEN NextRun(text, run[2]) ELSE {run} : run \in runs}

WordLeft(text, position) == Side(PrevOver(text, PrevRun(text, position)), 1, 0)
WordRight(text, position) == Side(NextOver(text, NextRun(text, position)), 2, Len(text))

WordLeftEnd(text, position) ==
  Side(PrevOver(text, PrevPast(text, position, PrevRun(text, position))), 2, 0)
WordRightStart(text, position) ==
  Side(NextOver(text, NextPast(text, position, NextRun(text, position))), 1, Len(text))

----------------------------------------------------------------------------
Lower == {"a", "b"}
Upper == {"A", "B"}
Digits == {"0"}

\* A new part of a name begins at a boundary: a hump, or the last capital of an
\* acronym.
Hump(text, b, end) ==
  \/ At(text, b - 1) \in Lower \cup Digits /\ At(text, b) \in Upper
  \/ /\ At(text, b - 1) \in Upper /\ At(text, b) \in Upper
     /\ b + 1 < end /\ At(text, b + 1) \in Lower \cup Digits

AfterMark(text, b) == \E m \in {"_", "-"} : At(text, b - 1) = m /\ At(text, b) # m
BeforeMark(text, b) == \E m \in {"_", "-"} : At(text, b - 1) # m /\ At(text, b) = m

SegmentLeft(text, position) ==
  LET l == LineAt(text, position)
      from == LineStart(text, l)
      cuts == {b \in from + 1 .. position - 1 :
                 AfterMark(text, b) \/ Hump(text, b, LineEnd(text, l))}
  IN  IF position = from THEN IF l > 1 THEN LineEnd(text, l - 1) ELSE 0
      ELSE IF cuts = {} THEN from ELSE Max(cuts)

SegmentRight(text, position) ==
  LET l == LineAt(text, position)
      to == LineEnd(text, l)
      cuts == {b \in position + 1 .. to - 1 : BeforeMark(text, b) \/ Hump(text, b, to)}
  IN  IF position = to THEN IF l < LineCount(text) THEN LineStart(text, l + 1) ELSE Len(text)
      ELSE IF cuts = {} THEN to ELSE Min(cuts)

PartLeft(text, position) ==
  Max({WordLeft(text, position), WordLeftEnd(text, position), SegmentLeft(text, position)})

PartRight(text, position) ==
  Min({WordRight(text, position), WordRightStart(text, position),
       SegmentRight(text, position)})

Target(text, unit, left, position) ==
  CASE unit = "char" -> IF left THEN Greatest(position, 1) - 1
                        ELSE Least(position + 1, Len(text))
    [] unit = "word" -> IF left THEN WordLeft(text, position) ELSE WordRight(text, position)
    [] unit = "part" -> IF left THEN PartLeft(text, position) ELSE PartRight(text, position)

----------------------------------------------------------------------------
\* Tab and shift-tab.  What stands before a line that outdenting takes away:
\* a tab, or so many spaces.
OutdentPrefix(text, line, size) ==
  LET from == LineStart(text, line)
      to == LineEnd(text, line)
  IN  IF from < to /\ At(text, from) = "\t" THEN 1
      ELSE Max({n \in 0 .. Least(size, to - from) :
                  \A i \in from .. from + n - 1 : At(text, i) = " "})

\* The lines of a selection; not the last one when it ends at its start.
BlockLines(text, start, end) ==
  LET first == LineAt(text, start)
      last == LineAt(text, end)
      short == last > first /\ end = LineStart(text, last)
  IN  first .. IF short THEN last - 1 ELSE last

Sum(f, S) == FoldSet(LAMBDA i, total : total + f[i], 0, S)

\* An offset moves by what is put before it, an offset at the start of a line
\* stays there.
IndentedOffset(text, lines, width, offset) ==
  offset + width * Cardinality({l \in lines : LineStart(text, l) < offset})

OutdentedOffset(text, lines, removed, offset) ==
  LET before == {l \in lines : LineStart(text, l) < offset}
  IN  offset - Sum([l \in before |-> Least(removed[l], offset - LineStart(text, l))], before)

Joined(text, lines, Line(_)) ==
  FoldLeft(LAMBDA done, l : done \o (IF l = Min(lines) THEN <<>> ELSE <<"\n">>) \o Line(l),
           <<>>, SetToSortSeq(lines, <))

Blanks(n) == [i \in 1 .. n |-> " "]

\* build_tab_edit: no edit, or what to put where and the caret after it.
TabEdit(text, anchor, active, size, spaces, outdent) ==
  LET start == Least(anchor, active)
      end == Greatest(anchor, active)
      fill == size - ((PositionAt(text, start).column - 1) % size)
      here == IF spaces THEN Blanks(fill) ELSE <<"\t">>
      lines == BlockLines(text, start, end)
      from == LineStart(text, Min(lines))
      to == LineEnd(text, Max(lines))
      prefix == IF spaces THEN Blanks(size) ELSE <<"\t">>
      removed == [l \in lines |-> OutdentPrefix(text, l, size)]
      Whole(l) == prefix \o Slice(text, LineStart(text, l), LineEnd(text, l))
      Rest(l) == Slice(text, LineStart(text, l) + removed[l], LineEnd(text, l))
  IN  IF outdent
      THEN {[from |-> from, to |-> to, new |-> Joined(text, lines, Rest),
             anchor |-> OutdentedOffset(text, lines, removed, anchor),
             active |-> OutdentedOffset(text, lines, removed, active)] :
               x \in {l \in lines : removed[l] # 0}}
      ELSE IF start = end
      THEN {[from |-> start, to |-> start, new |-> here,
             anchor |-> start + Len(here), active |-> start + Len(here)]}
      ELSE {[from |-> from, to |-> to, new |-> Joined(text, lines, Whole),
             anchor |-> IndentedOffset(text, lines, Len(prefix), anchor),
             active |-> IndentedOffset(text, lines, Len(prefix), active)]}

-----------------------------------------------------------------------------
(* The node                                                                  *)

CONSTANTS Alphabet, \* characters that are typed
          Openings, \* texts of a document as it is bound
          MaxLen,   \* bound on the length of the text
          TabSize, UseSpaces

VARIABLES text,      \* the copy of the document's text
          anchor,    \* sel_start
          active,    \* sel_end, the caret
          preferred  \* preferred_column, 0 for none

vars == <<text, anchor, active, preferred>>

Init ==
  /\ text \in Openings
  /\ anchor = 0 /\ active = 0 /\ preferred = 0

SelMin == Least(anchor, active)
SelMax == Greatest(anchor, active)

----------------------------------------------------------------------------
\* A caret set before the copy is renewed is held to the length of the old one,
\* and then to that of the new one.
Within(o, old, new) == Least(Least(o, Len(old)), Len(new))

\* The caret an edit asks for, set first; the copy is renewed after it.
SetThenSync(new, a, c) ==
  /\ Len(new) <= MaxLen
  /\ text' = new
  /\ anchor' = Within(a, text, new) /\ active' = Within(c, text, new)
  /\ preferred' = 0

Char(c) == SetThenSync(Spliced(text, SelMin, SelMax, <<c>>), SelMin + 1, SelMin + 1)

ReplaceSelection(new) ==
  SetThenSync(Spliced(text, SelMin, SelMax, new), SelMin + Len(new), SelMin + Len(new))

DeleteSelection ==
  anchor # active /\ SetThenSync(Spliced(text, SelMin, SelMax, <<>>), SelMin, SelMin)

\* Backspace and delete take the selection if there is one.
Delete(unit, left) ==
  LET to == Target(text, unit, left, active)
      a == IF anchor # active THEN SelMin ELSE Least(active, to)
      b == IF anchor # active THEN SelMax ELSE Greatest(active, to)
  IN  a # b /\ SetThenSync(Spliced(text, a, b, <<>>), a, a)

Tab(outdent) ==
  \E e \in TabEdit(text, anchor, active, TabSize, UseSpaces, outdent) :
    SetThenSync(Spliced(text, e.from, e.to, e.new), e.anchor, e.active)

----------------------------------------------------------------------------
\* apply_move: the other end of the selection comes along unless it is held.
MoveTo(o, selecting, column) ==
  /\ active' = o
  /\ anchor' = IF selecting THEN anchor ELSE o
  /\ preferred' = column
  /\ UNCHANGED text

\* Left and right by a character, a word or a part of one; a selection that is
\* not held collapses to its end.
Move(unit, left, selecting) ==
  LET to == Target(text, unit, left, active)
      rest == unit = "char" /\ to = active
  IN  IF anchor # active /\ ~selecting THEN MoveTo(IF left THEN SelMin ELSE SelMax, FALSE, 0)
      ELSE MoveTo(to, selecting, IF rest THEN preferred ELSE 0)

\* Seeded fault: each vertical move starts from the column it came to.
FaultyVerticalTarget(t, o, column, up) ==
  LET here == PositionAt(t, o)
      line == IF up THEN Greatest(here.line, 2) - 1 ELSE Least(here.line + 1, LineCount(t))
  IN  [to |-> OffsetAt(t, line, here.column), column |-> here.column]

\* Up and down aim at the column the first of them started from.
VerticalTarget(t, o, column, up) ==
  LET here == PositionAt(t, o)
      aim == IF column = 0 THEN here.column ELSE column
      line == IF up THEN Greatest(here.line, 2) - 1 ELSE Least(here.line + 1, LineCount(t))
  IN  [to |-> OffsetAt(t, line, aim), column |-> aim]

Vertical(up, selecting) ==
  LET v == VerticalTarget(text, active, preferred, up)
  IN  MoveTo(v.to, selecting, v.column)

Home(selecting) == MoveTo(LineStart(text, LineAt(text, active)), selecting, 0)
End(selecting) == MoveTo(LineEnd(text, LineAt(text, active)), selecting, 0)

Select(a, b) ==
  /\ anchor' = a /\ active' = b /\ preferred' = 0
  /\ UNCHANGED text

SelectAll == Select(0, Len(text))
SelectWord(o) == \E r \in WordRange(text, o) : Select(r[1], r[2])

\* A press collapses the selection where it hits, a drag holds the anchor.
Press(o) == Select(o, o)
Drag(o) == Select(anchor, o)

Next ==
  \/ \E c \in Alphabet : Char(c) \/ ReplaceSelection(<<c, c>>)
  \/ DeleteSelection
  \/ \E unit \in {"char", "word", "part"}, left \in BOOLEAN :
       \/ Delete(unit, left)
       \/ \E selecting \in BOOLEAN : Move(unit, left, selecting)
  \/ \E outdent \in BOOLEAN : Tab(outdent)
  \/ \E selecting \in BOOLEAN :
       Vertical(TRUE, selecting) \/ Vertical(FALSE, selecting) \/ Home(selecting) \/ End(selecting)
  \/ SelectAll
  \/ \E o \in 0 .. Len(text) : SelectWord(o) \/ Press(o) \/ Drag(o)

Spec == Init /\ [][Next]_vars

----------------------------------------------------------------------------
\* A run of up and down moves keeps to the column it started from, over lines
\* shorter than that: going up and down again comes back, and a column is kept
\* only while the caret is where that run of moves left it, whatever was typed,
\* deleted or selected before (editor_commands.c:699-755,
\* node_text_editor.c:1365-1412).
KeepsColumn ==
  /\ \A o \in 0 .. Len(text) :
       LET up == VerticalTarget(text, o, 0, TRUE)
           twice == VerticalTarget(text, up.to, up.column, TRUE)
           back == VerticalTarget(text, twice.to, twice.column, FALSE)
           home == VerticalTarget(text, back.to, back.column, FALSE)
       IN  PositionAt(text, o).line > 2 => back.to = up.to /\ home.to = o
  /\ preferred # 0 => active = OffsetAt(text, PositionAt(text, active).line, preferred)

\* Every word move gets on, part moves never pass the word they are in, the word
\* around an offset is a word of one line, and shift-tab undoes tab
\* (editor_commands.c:297-585, editor_text_model.c:431-489).
MovesAreSound ==
  \A o \in 0 .. Len(text) :
    /\ o = OffsetAt(text, PositionAt(text, o).line, PositionAt(text, o).column)
    /\ o > 0 => /\ WordLeft(text, o) <= PartLeft(text, o) /\ PartLeft(text, o) < o
                /\ WordLeftEnd(text, o) < o
    /\ o < Len(text) => /\ o < PartRight(text, o) /\ PartRight(text, o) <= WordRight(text, o)
                        /\ o < WordRightStart(text, o)
    /\ \A r \in WordRange(text, o) :
         /\ r[1] <= o /\ o <= r[2] /\ r[1] < r[2]
         /\ \A i \in r[1] .. r[2] - 1 : IsWord(text, i)

TabIsUndone ==
  \A e \in TabEdit(text, anchor, active, TabSize, UseSpaces, FALSE) :
    LET in == Spliced(text, e.from, e.to, e.new)
    IN  anchor # active =>
          \E d \in TabEdit(in, e.anchor, e.active, TabSize, UseSpaces, TRUE) :
            /\ Spliced(in, d.from, d.to, d.new) = text
            /\ d.anchor = anchor /\ d.active = active

EditorLaws == KeepsColumn /\ MovesAreSound /\ TabIsUndone

============================================================================
