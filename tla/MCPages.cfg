\* Two readers, two databases, a writer with one nested child.  Bounds: three
\* pages, so that a leaf of each database and a replaced one exist at once and
\* the free list runs dry; two commits before the last writer, so that a page
\* is deferred, held by an older reader, reclaimed and used again.
SPECIFICATION Spec
CONSTANTS
  Dbis = {d1, d2}
  Values = {v1, v2}
  Readers = {r1, r2}
  NoPage = NoPage
  NoValue = NoValue
  Garbage = Garbage
  Closed = Closed
  MaxPages = 3
  MaxTxnid = 2
  MaxNesting = 2
SYMMETRY Symmetry
INVARIANTS FreeListSound
PROPERTIES NothingPinned ImplementsSnapshots
