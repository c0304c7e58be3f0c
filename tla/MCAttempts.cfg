\* Two rows, each there or not: a read of one and a write of the other by
\* someone else is a conflict, a read of the same value is not.  Three calls per
\* attempt and three frames: a row read, written and read again across a nested
\* frame; one retry.
SPECIFICATION Spec
CONSTANTS
  Keys = {k1, k2}
  Values = {v1}
  Absent = Absent
  Intents = {i1, i2}
  MaxRetries = 1
  MaxDepth = 3
  MaxCalls = 3
SYMMETRY Symmetry
INVARIANTS Opaque IntentsInOrder RetriesSpent
PROPERTIES CommittedIsSerial ConflictIsReal
