CONSTANTS
  Materials = {"m"}
  MoveIns = {s1}
  MoveOuts = {o1}
  Quantities = {1}
  MaxMoves = 2
  Picks = {p1, p2}
  Ins = {i1, i2}
  Amounts = {1, 2}
  Bom <- MCBom
  LateEdits = FALSE
  Opening <- MCOpening
SYMMETRY Symmetry
CHECK_DEADLOCK FALSE
SPECIFICATION Spec
INVARIANTS
  TypeOK
  BooksAgree
  ConfirmedHangsOnConfirmed
  WithinTheOrder
