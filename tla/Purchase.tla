------------------------------ MODULE Purchase ------------------------------
(***************************************************************************)
(* One purchase order of jinling_buy and everything that receives it:      *)
(*                                                                         *)
(*   jl.buy.order          orderState, orderStock, qty, buy_qty            *)
(*   jl.buy.warehousing    docState, isReturn, origin: receipts, and the   *)
(*                         returns made from them                          *)
(*   jl.move, jl.move.line moveState, docLines, docQty, lineType,          *)
(*                         lineState: the stock ledger of each document    *)
(*   jl.buy.payment.apply  pays                                            *)
(*                                                                         *)
(* A handler is one transaction, hence one action.  A row of jl.move that  *)
(* create_warehousing leaves without lines (it creates the row before it   *)
(* knows whether anything remains) is not modelled: nothing reads it.      *)
(***************************************************************************)
EXTENDS Quantity, Forms, Sums, Sequences

CONSTANTS
  Lines,            \* the lines of the order
  Docs,             \* ids a jl.buy.warehousing row may take (a bound)
  OrderQuantities,  \* what a user may enter on each order line (a bound)
  DocQuantities,    \* what a user may enter on a document's line (a bound)
  MaxPays,          \* payment applications of one document (a bound)
  NoDoc             \* the origin of a document made from no other

ASSUME LinesAssumption == IsFiniteSet(Lines) /\ Lines # {}
ASSUME DocsAssumption == IsFiniteSet(Docs) /\ NoDoc \notin Docs
ASSUME QuantitiesAssumption ==
  /\ OrderQuantities \in [Lines -> (SUBSET (Nat \ {0})) \ {{}}]
  /\ DocQuantities \subseteq Nat /\ MaxPays \in Nat

VARIABLES
  orderState,  \* jl.buy.order.state
  orderStock,  \* jl.buy.order.order_state
  qty,         \* jl.buy.order.line.qty
  buy_qty,     \* jl.buy.order.line.buy_qty
  docState,    \* state of each jl.buy.warehousing, "none" when there is no row
  isReturn,    \* jl.buy.warehousing.is_return
  origin,      \* origin_id, the receipt a return was made from
  docLines,    \* the order lines each document has a line for
  docQty,      \* goods_qty of those lines, 0 elsewhere
  lineType,    \* type of the document's move lines
  lineState,   \* state of the document's move lines: the report counts "done"
  moveState,   \* state of its jl.move
  strayMove,   \* a done jl.move of the order has lost its document
  pays         \* the states of its payment applications

orderVars == <<orderState, orderStock, qty, buy_qty>>
docVars == <<docState, isReturn, origin>>
ledgerVars == <<docLines, docQty, lineType, lineState, moveState, strayMove>>
vars == <<orderVars, docVars, ledgerVars, pays>>

Receipts == {d \in Docs : docState[d] # "none" /\ ~isReturn[d]}
Returns == {d \in Docs : docState[d] # "none" /\ isReturn[d]}

-----------------------------------------------------------------------------
(* Helpers of the handlers. *)

\* get_move_line refuses a line when, in whole pieces, it is over-received.
LineRefused(l, bought) == RoundToPiece(qty[l]) - RoundToPiece(bought[l]) < 0

\* create_warehousing, from the states `state`: a draft receipt of all that is
\* still to come once `bought` has arrived, or nothing when nothing is.
CreateWarehousing(state, bought) ==
  LET open == {l \in Lines : qty[l] - bought[l] > 0}
      rest == [l \in Lines |-> IF l \in open THEN qty[l] - bought[l] ELSE 0]
  IN
  /\ \A l \in open : ~LineRefused(l, bought)
  /\ IF open = {}
     THEN docState' = state /\ UNCHANGED <<docLines, docQty>>
     ELSE \E n \in Docs :
            /\ state[n] = "none"
            /\ docState' = [state EXCEPT ![n] = "draft"]
            /\ docLines' = [docLines EXCEPT ![n] = open]
            /\ docQty' = [docQty EXCEPT ![n] = rest]

\* The rows of the documents in D are deleted, and what cascades from them.
Unlink(D) ==
  /\ docState' = [d \in Docs |-> IF d \in D THEN "none" ELSE docState[d]]
  /\ isReturn' = [d \in Docs |-> d \notin D /\ isReturn[d]]
  /\ origin' = [d \in Docs |-> IF {d, origin[d]} \cap D = {} THEN origin[d] ELSE NoDoc]
  /\ docLines' = [d \in Docs |-> IF d \in D THEN {} ELSE docLines[d]]
  /\ docQty' = [d \in Docs |-> IF d \in D THEN [l \in Lines |-> 0] ELSE docQty[d]]
  /\ lineType' = [d \in Docs |-> IF d \in D THEN "in" ELSE lineType[d]]
  /\ lineState' = [d \in Docs |-> IF d \in D THEN "draft" ELSE lineState[d]]
  /\ moveState' = [d \in Docs |-> IF d \in D THEN "draft" ELSE moveState[d]]
  /\ strayMove' = (strayMove \/ \E d \in D : moveState[d] = "done")
  /\ pays' = [d \in Docs |-> IF d \in D THEN <<>> ELSE pays[d]]

\* What has arrived of each line once receipt d is confirmed, or undone.
MutUndone(d) == [l \in Lines |-> buy_qty[l] - qty[l]]
Confirmed(d) == [l \in Lines |-> buy_qty[l] + docQty[d][l]]
Undone(d) == [l \in Lines |-> buy_qty[l] - docQty[d][l]]

MutCanReceive(d) ==
  /\ docLines[d] # {}
  /\ \A l \in docLines[d] : docQty[d][l] <= qty[l]

\* button_done of a receipt refuses an empty one and an excess over the order.
CanReceive(d) ==
  /\ docLines[d] # {}
  /\ \A l \in docLines[d] : buy_qty[l] + docQty[d][l] <= qty[l]

\* button_draft of a receipt refuses once a payment application left draft.
PaymentsOpen(d) == \A i \in DOMAIN pays[d] : pays[d][i] = "draft"

\* button_draft takes back the done lines it finds by way of the done moves.
MutLinesAfterUndo(d) == IF moveState[d] = "draft" THEN "draft" ELSE lineState[d]
LinesAfterUndo(d) == IF moveState[d] = "done" THEN "draft" ELSE lineState[d]

\* order_state: after a receipt, from the lines of that receipt; after an
\* undo, from all the lines of the order.
StockAfterReceipt(d, bought) ==
  IF \A l \in docLines[d] : bought[l] = qty[l] THEN "done_stock" ELSE "part_stock"
MutStockAfterUndo(d, bought) ==
  IF \A l \in docLines[d] : bought[l] = 0 THEN "not_stock" ELSE "part_stock"
StockAfterUndo(d, bought) ==
  IF \A l \in Lines : bought[l] = 0 THEN "not_stock" ELSE "part_stock"

-----------------------------------------------------------------------------
(* jl.buy.order *)

OrderDone ==
  /\ Shown({"draft"}, orderState) /\ orderState # "done"
  /\ CreateWarehousing(docState, buy_qty)
  /\ orderState' = "done"
  /\ UNCHANGED <<orderStock, qty, buy_qty, isReturn, origin, lineType, lineState, moveState, strayMove, pays>>

\* Undo: every document of the order must be a draft, and goes.
OrderDraft ==
  /\ Shown({"done"}, orderState)
  /\ \A d \in Docs : docState[d] \in {"none", "draft"}
  /\ orderState' = "draft"
  /\ Unlink(Docs)
  /\ UNCHANGED <<orderStock, qty, buy_qty>>

OrderCancel ==
  /\ Shown({"draft"}, orderState)
  /\ orderState' = "cancel"
  /\ UNCHANGED <<orderStock, qty, buy_qty, docVars, ledgerVars, pays>>

EditOrderLine(l, q) ==
  /\ Shown({"draft"}, orderState)
  /\ q \in OrderQuantities[l]
  /\ qty' = [qty EXCEPT ![l] = q]
  /\ UNCHANGED <<orderState, orderStock, buy_qty, docVars, ledgerVars, pays>>

-----------------------------------------------------------------------------
(* jl.buy.warehousing, as a receipt *)

DocDone(d) ==
  /\ d \in Receipts /\ Shown({"draft"}, docState[d]) /\ docState[d] # "done"
  /\ CanReceive(d)
  /\ buy_qty' = Confirmed(d)
  /\ orderStock' = StockAfterReceipt(d, Confirmed(d))
  /\ CreateWarehousing([docState EXCEPT ![d] = "done"], Confirmed(d))
  /\ moveState' = [moveState EXCEPT ![d] = "done"]
  /\ lineState' = [lineState EXCEPT ![d] = "done"]
  /\ UNCHANGED <<orderState, qty, isReturn, origin, lineType, strayMove, pays>>

DocDraft(d) ==
  /\ d \in Receipts /\ Shown({"done"}, docState[d])
  /\ PaymentsOpen(d)
  /\ buy_qty' = Undone(d)
  /\ orderStock' = StockAfterUndo(d, Undone(d))
  /\ pays' = [pays EXCEPT ![d] = <<>>]
  /\ lineState' = [lineState EXCEPT ![d] = LinesAfterUndo(d)]
  /\ moveState' = [moveState EXCEPT ![d] = "draft"]
  /\ docState' = [docState EXCEPT ![d] = "draft"]
  /\ UNCHANGED <<orderState, qty, isReturn, origin, docLines, docQty, lineType, strayMove>>

\* The goods are refused: the lines become 'rejection' lines, done at once.
DocRejection(d) ==
  /\ d \in Receipts /\ Shown({"draft"}, docState[d])
  /\ moveState[d] = "draft" /\ lineState[d] = "draft" /\ docLines[d] # {}
  /\ lineType' = [lineType EXCEPT ![d] = "rejection"]
  /\ lineState' = [lineState EXCEPT ![d] = "done"]
  /\ docState' = [docState EXCEPT ![d] = "rejection"]
  /\ UNCHANGED <<orderVars, isReturn, origin, docLines, docQty, moveState, strayMove, pays>>

\* A draft return of every line.  The search that should find an earlier draft
\* return asks for the receipt itself, which is none: it never refuses.
DocReturn(d) ==
  /\ d \in Receipts /\ Shown({"done"}, docState[d])
  /\ docLines[d] # {}
  /\ \E n \in Docs :
       /\ docState[n] = "none"
       /\ docState' = [docState EXCEPT ![n] = "draft"]
       /\ isReturn' = [isReturn EXCEPT ![n] = TRUE]
       /\ origin' = [origin EXCEPT ![n] = d]
       /\ docLines' = [docLines EXCEPT ![n] = docLines[d]]
       /\ docQty' = [docQty EXCEPT ![n] = docQty[d]]
       /\ lineType' = [lineType EXCEPT ![n] = "out"]
  /\ UNCHANGED <<orderVars, lineState, moveState, strayMove, pays>>

Payment(d) ==
  /\ d \in Receipts /\ Shown({"draft", "done"}, docState[d])
  /\ Len(pays[d]) < MaxPays
  /\ pays' = [pays EXCEPT ![d] = Append(@, "draft")]
  /\ UNCHANGED <<orderVars, docVars, ledgerVars>>

-----------------------------------------------------------------------------
(* jl.buy.warehousing, as a return: nothing but its own rows is looked at. *)

SetReturn(d, from, to) ==
  /\ d \in Returns /\ Shown({from}, docState[d])
  /\ lineState' = [lineState EXCEPT ![d] = to]
  /\ moveState' = [moveState EXCEPT ![d] = to]
  /\ docState' = [docState EXCEPT ![d] = to]
  /\ UNCHANGED <<orderVars, isReturn, origin, docLines, docQty, lineType, strayMove, pays>>

ReturnDone(d)  == SetReturn(d, "draft", "done")
ReturnDraft(d) == SetReturn(d, "done", "draft")

-----------------------------------------------------------------------------
(* jl.buy.warehousing, as either *)

DocCancel(d) ==
  /\ docState[d] # "none" /\ Shown({"draft"}, docState[d])
  /\ docState' = [docState EXCEPT ![d] = "cancel"]
  /\ UNCHANGED <<orderVars, isReturn, origin, ledgerVars, pays>>

EditDocLine(d, l, q) ==
  /\ Shown({"draft"}, docState[d]) /\ l \in docLines[d]
  /\ docQty' = [docQty EXCEPT ![d] = [@ EXCEPT ![l] = q]]
  /\ UNCHANGED <<orderVars, docVars, docLines, lineType, lineState, moveState, strayMove, pays>>

RemoveDocLine(d, l) ==
  /\ Shown({"draft"}, docState[d]) /\ l \in docLines[d]
  /\ docLines' = [docLines EXCEPT ![d] = @ \ {l}]
  /\ docQty' = [docQty EXCEPT ![d] = [@ EXCEPT ![l] = 0]]
  /\ UNCHANGED <<orderVars, docVars, lineType, lineState, moveState, strayMove, pays>>

\* Its forms, unlike the others, do not say delete="0": the user may delete a
\* document in any state, and the model does not override unlink.
DocUnlink(d) ==
  /\ docState[d] # "none"
  /\ Unlink({d})
  /\ UNCHANGED orderVars

\* sell.apply.button_draft deletes the moves whose order_id, a purchase order,
\* is its own id: the application with the id of this order takes its moves,
\* and the documents that cascade from them, unless a move is done.
SellApplyDraft ==
  /\ ~strayMove /\ \A d \in Docs : moveState[d] # "done"
  /\ Unlink(Docs)
  /\ UNCHANGED orderVars

-----------------------------------------------------------------------------
(* jl.buy.payment.apply: three buttons, none of which looks at anything else. *)

SetPay(d, i, from, to) ==
  /\ Shown({from}, pays[d][i])
  /\ pays' = [pays EXCEPT ![d] = [@ EXCEPT ![i] = to]]
  /\ UNCHANGED <<orderVars, docVars, ledgerVars>>

PayDone(d, i)   == SetPay(d, i, "draft", "done")
PayDraft(d, i)  == SetPay(d, i, "done", "draft")
MutPayCancel(d, i) == SetPay(d, i, "draft", "cencal")
PayCancel(d, i) == SetPay(d, i, "draft", "cancel")

-----------------------------------------------------------------------------
\* jl.buy.apply.button_done creates the order in draft, with its lines.
Init ==
  /\ orderState = "draft"
  /\ orderStock = "not_stock"
  /\ qty \in {f \in [Lines -> UNION {OrderQuantities[l] : l \in Lines}] :
              \A l \in Lines : f[l] \in OrderQuantities[l]}
  /\ buy_qty = [l \in Lines |-> 0]
  /\ docState = [d \in Docs |-> "none"]
  /\ isReturn = [d \in Docs |-> FALSE] /\ origin = [d \in Docs |-> NoDoc]
  /\ strayMove = FALSE
  /\ docLines = [d \in Docs |-> {}]
  /\ docQty = [d \in Docs |-> [l \in Lines |-> 0]]
  /\ lineType = [d \in Docs |-> "in"]
  /\ lineState = [d \in Docs |-> "draft"]
  /\ moveState = [d \in Docs |-> "draft"]
  /\ pays = [d \in Docs |-> <<>>]

Next ==
  \/ OrderDone \/ OrderDraft \/ OrderCancel \/ SellApplyDraft
  \/ \E l \in Lines : \E q \in OrderQuantities[l] : EditOrderLine(l, q)
  \/ \E d \in Docs :
       \/ DocDone(d) \/ DocDraft(d) \/ DocRejection(d) \/ DocReturn(d) \/ Payment(d)
       \/ ReturnDone(d) \/ ReturnDraft(d)
       \/ DocCancel(d) \/ DocUnlink(d)
       \/ \E l \in Lines, q \in DocQuantities : EditDocLine(d, l, q)
       \/ \E l \in Lines : RemoveDocLine(d, l)
       \/ \E i \in DOMAIN pays[d] : PayDone(d, i) \/ PayDraft(d, i) \/ PayCancel(d, i)

Spec == Init /\ [][Next]_vars

-----------------------------------------------------------------------------
(* What must hold. *)

\* Every variable keeps its type: states, quantities, document rows.
TypeOK ==
  /\ orderState \in {"draft", "done", "cancel"}
  /\ orderStock \in {"not_stock", "part_stock", "done_stock"}
  /\ qty \in [Lines -> Nat] /\ buy_qty \in [Lines -> Int]
  /\ docState \in [Docs -> {"none", "draft", "done", "rejection", "cancel"}]
  /\ isReturn \in [Docs -> BOOLEAN] /\ strayMove \in BOOLEAN
  /\ origin \in [Docs -> Docs \cup {NoDoc}]
  /\ docLines \in [Docs -> SUBSET Lines]
  /\ docQty \in [Docs -> [Lines -> Nat]]
  /\ lineType \in [Docs -> {"in", "out", "rejection"}]
  /\ lineState \in [Docs -> {"draft", "done"}]
  /\ moveState \in [Docs -> {"draft", "done"}]
  /\ pays \in [Docs -> Seq({"draft", "done", "cancel"})]

\* What the stock ledger says has come in of an order line.
InStock == {d \in Docs : lineType[d] = "in" /\ lineState[d] = "done"}
InLedger(l) == Total([d \in InStock |-> docQty[d][l]])

\* The stock ledger never holds more of an order line than the order knows it
\* received, through confirmations, undos, refusals and deletions.
LedgerWithinBuyQty == \A l \in Lines : InLedger(l) <= buy_qty[l]

\* The ledger never holds more of an order line than was ordered, although an
\* order can be undone, edited down and confirmed again.
LedgerWithinOrder == \A l \in Lines : InLedger(l) <= qty[l]

\* An order that reads '未入库' has nothing in the ledger: the undo of one
\* receipt looks at every line of the order, not only at its own.
NotStockMeansEmptyLedger ==
  orderStock = "not_stock" => \A l \in Lines : InLedger(l) = 0

\* A document, its jl.move and its move lines tell the same story: the move is
\* done with the document, the lines with it or when the goods are refused,
\* although each handler finds the rows by a search of its own.
MoveFollowsDocument ==
  \A d \in Docs :
    /\ moveState[d] = "done" <=> docState[d] = "done"
    /\ lineState[d] = "done" <=> docState[d] \in {"done", "rejection"}
=============================================================================
