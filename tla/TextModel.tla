----------------------------- MODULE TextModel -----------------------------
(* Offsets, lines and positions of a text (editor_text_model.c): offsets     *)
(* count codepoints from 0, lines and columns from 1.                        *)
EXTENDS Naturals, FiniteSets, Sequences
LOCAL INSTANCE FiniteSetsExt

Least(a, b) == IF a <= b THEN a ELSE b
Greatest(a, b) == IF a <= b THEN b ELSE a
Clamp(n, lo, hi) == Greatest(lo, Least(n, hi))

\* The element of a set that has one.
Only(S) == CHOOSE x \in S : TRUE

At(text, o) == text[o + 1]
Offsets(text) == 0 .. Len(text) - 1
Slice(text, a, b) == SubSeq(text, a + 1, b)
Spliced(text, a, b, new) == Slice(text, 0, a) \o new \o Slice(text, b, Len(text))

Newlines(text) == {o \in Offsets(text) : At(text, o) = "\n"}
LineCount(text) == Cardinality(Newlines(text)) + 1

\* The line an offset is on: line breaks before it.
LineAt(text, o) == Cardinality({n \in Newlines(text) : n < o}) + 1

LineStart(text, line) ==
  LET l == Clamp(line, 1, LineCount(text))
  IN  Min({o \in 0 .. Len(text) : LineAt(text, o) = l})

LineEnd(text, line) ==
  LET l == Clamp(line, 1, LineCount(text))
  IN  Max({o \in 0 .. Len(text) : LineAt(text, o) = l})

PositionAt(text, offset) ==
  LET o == Clamp(offset, 0, Len(text))
      l == LineAt(text, o)
  IN  [line |-> l, column |-> o - LineStart(text, l) + 1]

\* A column past the end of its line is its end.
OffsetAt(text, line, column) ==
  LET start == LineStart(text, line)
      length == LineEnd(text, line) - start
  IN  start + Clamp(column, 1, length + 1) - 1

----------------------------------------------------------------------------
Spaces == {" ", "\t", "\n"}
Separators == {"-", ".", "(", ")", "[", "]"}

ClassOf(c) == IF c \in Spaces THEN "whitespace"
              ELSE IF c \in Separators THEN "separator"
              ELSE "regular"

IsWord(text, o) == ClassOf(At(text, o)) = "regular"

\* The word around an offset, or the one that ends there; {} if there is none.
WordRange(text, o) ==
  LET l == LineAt(text, o)
      from == LineStart(text, l)
      to == LineEnd(text, l)
      probe == IF o < to /\ IsWord(text, o) THEN {o}
               ELSE IF o > from /\ IsWord(text, o - 1) THEN {o - 1} ELSE {}
      Word(a, b) == \A i \in a .. b - 1 : IsWord(text, i)
  IN  {<<Min({a \in from .. p : Word(a, p)}), Max({b \in p + 1 .. to : Word(p, b)})>> :
         p \in probe}

============================================================================
