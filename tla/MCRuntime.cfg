\* One part at a time; a text that is typed out may rest.
SPECIFICATION Spec
CHECK_DEADLOCK FALSE
INVARIANTS
  EditorLaws
  DocumentLaws
  LinesLaws
  SyntaxLaws
  PlansHold
  WireLaws
  TextsLast
