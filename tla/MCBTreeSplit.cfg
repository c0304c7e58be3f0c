\* Cells of one and of two units in leaves of three.
SPECIFICATION Spec
CONSTANTS
  Keys = {1, 2, 3, 4}
  Vals = {1, 2}
  LeafRoom = 3
  IntRoom = 2
  Batches = {{1, 3}}
  NoKey = NoKey
INVARIANT EntriesCounted
