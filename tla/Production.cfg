CONSTANTS
  Materials = {"m"}
  Picks = {p1, p2}
  Refunds = {r1}
  Checks = {c1}
  Ins = {i1, i2, i3}
  Amounts = {2, 3}
  Qualities = {1, 2}
  Quantities = {1, 2}
  LateEdits = FALSE
  Floor = 0
  Opening <- MCOpening
  StaleForms = FALSE
SYMMETRY Symmetry
CHECK_DEADLOCK FALSE
SPECIFICATION Spec
INVARIANTS
  TypeOK
  BooksAgree
  PickedWithinNeed
  ConfirmedHangsOnConfirmed
  StockedWithinInspected
