CONSTANTS
  Materials = {"m"}
  Picks = {p1}
  Refunds = {r1}
  Checks = {c1, c2}
  Ins = {i1, i2}
  Amounts = {1, 2}
  Qualities = {2}
  Quantities = {1}
  LateEdits = FALSE
  Floor = 0
  Opening <- MCOpening
  Bom <- MCBom
  StaleForms = FALSE
SYMMETRY Symmetry
CHECK_DEADLOCK FALSE
SPECIFICATION OusSpec
INVARIANTS
  BooksAgree
  ConfirmedHangsOnConfirmed
