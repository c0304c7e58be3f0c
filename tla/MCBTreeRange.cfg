\* Cells of one size, so that no split loses any.
SPECIFICATION Spec
CONSTANTS
  Keys = {1, 2, 3, 4}
  Vals = {1}
  LeafRoom = 2
  IntRoom = 2
  Batches = {{1, 3}}
  NoKey = NoKey
PROPERTY RangeEmptied
