CONSTANTS
  Lines <- MCLines
  Outs = {o1, o2, o3}
  Reviews = {r1, r2}
  Goods = {"g1", "g2"}
  GoodsOf <- MCGoodsOf
  WarehouseOf <- MCWarehouseOf
  Checked = {"ms1"}
  Places = {"ms1", "none"}
  OrderQuantities <- MCOrderQuantities
  OutQuantities = {1}
  Receipts = {6}
  MaxReceived = 6
  Unit = 4
  StaleForms = FALSE
SYMMETRY Symmetry
CHECK_DEADLOCK FALSE
SPECIFICATION Spec
INVARIANTS
  TypeOK
  OutQtyIsDelivered
  LedgerMatchesDocuments
  NeverOverDelivered
  DraftOrderIsUndelivered
  StockNeverNegativePerLine
PROPERTY ConfirmedStatementKeepsDelivery
