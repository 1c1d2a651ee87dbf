CONSTANTS
  Lines <- MCLines
  Docs = {d1, d2, d3}
  OrderQuantities <- MCOrderQuantities
  DocQuantities = {1}
  MaxPays = 1
  NoDoc = NoDoc
  StaleForms = FALSE
  Unit = 2
SYMMETRY Symmetry
SPECIFICATION Spec
INVARIANTS
  TypeOK
  LedgerWithinBuyQty
  LedgerWithinOrder
  NotStockMeansEmptyLedger
  MoveFollowsDocument
CHECK_DEADLOCK FALSE
