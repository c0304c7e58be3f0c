\* One part at a time; an idle queue and a full table may rest.
SPECIFICATION Spec
CHECK_DEADLOCK FALSE
INVARIANTS
  NobodyStranded
  OwnersApart
  RowsAgree
  AsSequence
  ClonesApart
  WatchersHear
PROPERTY ImplementsMap
