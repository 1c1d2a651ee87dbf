---------------------------- MODULE SellDelivery ----------------------------
(***************************************************************************)
(* One sales order of jinling_sell and everything its delivery touches:    *)
(*                                                                         *)
(*   sell.order           orderState, outState, qty, out_qty, reviews      *)
(*   sell.order.out       docState, docLines  (the delivery documents)     *)
(*   jl.move (done)       moves               (the stock ledger entries)   *)
(*   jl.reconciliation    recs                (the statements of account)  *)
(*                                                                         *)
(* Every button is one database transaction, so every handler is one       *)
(* action; a UserError rolls the transaction back, so it is a conjunct of  *)
(* the guard.                                                              *)
(***************************************************************************)
EXTENDS Quantity, Forms, Sums, Sequences, Functions

CONSTANTS
  Lines,        \* ids of the sell.order.line rows, in the order of creation
  Outs,         \* ids a sell.order.out row may take (a bound)
  Reviews,      \* ids a sell.order.review row may take (a bound)
  Goods,        \* products
  GoodsOf,      \* the product of each order line
  WarehouseOf,  \* the warehouse of each order line
  Checked,      \* warehouses 1, 2, 3: the columns of the balance report
  Places,       \* what a user may enter as the warehouse of a delivery line
  OrderQuantities, \* what a user may enter on each order line (a bound)
  OutQuantities,   \* what a user may enter on a delivery line (a bound)
  Receipts,     \* what other documents may put in stock at once (a bound)
  MaxReceived   \* the most they put in stock (a bound)

NoPlace == "none"    \* the warehouse of the line was left empty
NoLine == [qty |-> 0, place |-> "absent"]

ASSUME LinesAssumption == Lines \subseteq Nat /\ IsFiniteSet(Lines) /\ Lines # {}
ASSUME DocumentsAssumption == IsFiniteSet(Outs)
ASSUME GoodsAssumption == GoodsOf \in [Lines -> Goods]
ASSUME PlacesAssumption == Checked \subseteq Places /\ {NoPlace, "absent"} \cap Checked = {} /\ "absent" \notin Places
ASSUME WarehouseAssumption == WarehouseOf \in [Lines -> Places]
ASSUME QuantitiesAssumption ==
  /\ OrderQuantities \in [Lines -> (SUBSET (Nat \ {0})) \ {{}}]
  /\ OutQuantities \subseteq Nat \ {0} /\ Receipts \subseteq Nat \ {0}
  /\ MaxReceived \in Nat

VARIABLES
  newGoods,    \* sell.order.goods_state is 'new': the order needs a review
  orderState,  \* sell.order.state
  outState,    \* sell.order.out_state
  qty,         \* sell.order.line.qty
  out_qty,     \* sell.order.line.out_qty
  reviews,     \* state of each sell.order.review, "none" when there is no row
  docState,    \* state of each sell.order.out, "none" when there is no row
  docLines,    \* its lines, by the order line they deliver
  moves,       \* the done stock moves of each delivery: copies of its lines
  recs,        \* the states of the statements of account of each delivery
  received     \* what all other documents left in stock

orderVars == <<orderState, outState, qty, out_qty>>
docVars == <<docState, docLines, moves, recs>>
vars == <<newGoods, orderVars, reviews, docVars, received>>

DocStates == {"none", "draft", "done", "cancel"}
\* A delivery carries at most one line per order line, and may carry fewer.
OutLine == [qty : Nat, place : Places \cup {"absent"}]
LineMap == [Lines -> OutLine]
NoLines == [l \in Lines |-> NoLine]
Present(m) == {l \in Lines : m[l] # NoLine}

-----------------------------------------------------------------------------
(* The stock ledger: jl_warehouse_balance_report. *)

\* What a copy of lines takes of a product from a warehouse, and what the
\* copies of each delivery take.
Taken(copy, g, w) == Total([l \in {k \in Lines : GoodsOf[k] = g /\ copy[k].place = w} |-> copy[l].qty])
TakenBy(copies, g, w) == [d \in Outs |-> [i \in DOMAIN copies[d] |-> Taken(copies[d][i], g, w)]]

Balance(g, w) == received[<<g, w>>] - RowsTotal(TakenBy(moves, g, w))

-----------------------------------------------------------------------------
(* Helpers of the handlers. *)

\* What button_out still has to deliver once `shipped` has left.
Remaining(shipped) ==
  [l \in Lines |-> IF qty[l] - shipped[l] > 0
                  THEN [qty |-> qty[l] - shipped[l], place |-> WarehouseOf[l]]
                  ELSE NoLine]

\* get_order_line refuses a line by comparing the ordered quantity with the
\* delivered one rounded to a whole piece.
LineRefused(l, shipped) == qty[l] - RoundToPiece(shipped[l]) < 0

\* sell.order.button_out, from any delivery documents `state`, `lines`: a
\* draft delivery of all that remains, or nothing when nothing does.
FollowUp(state, lines, shipped) ==
  /\ \A l \in Present(Remaining(shipped)) : ~LineRefused(l, shipped)
  /\ IF Present(Remaining(shipped)) = {}
     THEN docState' = state /\ docLines' = lines
     ELSE \E n \in Outs :
            /\ state[n] = "none"
            /\ docState' = [state EXCEPT ![n] = "draft"]
            /\ docLines' = [lines EXCEPT ![n] = Remaining(shipped)]

\* What each order line has delivered once delivery d is confirmed, or undone.
Confirmed(d) == [l \in Lines |-> out_qty[l] + docLines[d][l].qty]
MutUndone(d) == [l \in Lines |-> IF docLines[d][l].qty = qty[l] THEN 0 ELSE out_qty[l]]
Undone(d) == [l \in Lines |-> out_qty[l] - docLines[d][l].qty]

\* button_draft of an order refuses once a delivery of it is done, and
\* button_draft of a delivery once its statement of account is.
MutNothingDelivered == outState # "done"
NothingDelivered == \A d \in Outs : docState[d] # "done"
MutStatementOpen(d) == DOMAIN recs[d] # {}
StatementOpen(d) == \A i \in DOMAIN recs[d] : recs[d][i] # "done"

LastLine(S) == CHOOSE l \in S : \A k \in S : k <= l

-----------------------------------------------------------------------------
(* sell.order *)

OrderDone ==
  /\ Shown({"draft", "review"}, orderState)
  /\ IF orderState = "review"
     THEN \A r \in Reviews : reviews[r] # "draft"
     ELSE newGoods => \E r \in Reviews : reviews[r] \in {"draft", "done"}
  /\ orderState' = "done"
  /\ UNCHANGED <<newGoods, outState, qty, out_qty, reviews, docVars, received>>

\* Undo: every delivery and review of the order goes, unless one is done;
\* what hangs on a deleted delivery (moves, statements) cascades.
OrderDraft ==
  /\ Shown({"done", "review"}, orderState)
  /\ NothingDelivered
  /\ \A r \in Reviews : reviews[r] # "done"
  /\ orderState' = "draft"
  /\ docState' = [d \in Outs |-> "none"]
  /\ docLines' = [d \in Outs |-> NoLines]
  /\ moves' = [d \in Outs |-> <<>>]
  /\ recs' = [d \in Outs |-> <<>>]
  /\ reviews' = [r \in Reviews |-> "none"]
  /\ UNCHANGED <<newGoods, outState, qty, out_qty, received>>

OrderCancel ==
  /\ Shown({"draft"}, orderState)
  /\ orderState' = "cancel"
  /\ UNCHANGED <<newGoods, outState, qty, out_qty, reviews, docVars, received>>

OrderOut ==
  /\ Shown({"done"}, orderState)
  /\ FollowUp(docState, docLines, out_qty)
  /\ UNCHANGED <<newGoods, orderVars, reviews, moves, recs, received>>

\* create_order_review: one draft review per order line.  Its button has both
\* states="draft" and attrs, and Odoo appends the first to the domain of the
\* second: hidden when (draft or new) and not draft.  An order of old goods
\* offers it in every state.
CreateOrderReview ==
  /\ newGoods => Shown({"draft"}, orderState)
  /\ \E S \in SUBSET {r \in Reviews : reviews[r] = "none"} :
       /\ Cardinality(S) = Cardinality(Lines)
       /\ reviews' = [r \in Reviews |-> IF r \in S THEN "draft" ELSE reviews[r]]
  /\ orderState' = "review"
  /\ UNCHANGED <<newGoods, outState, qty, out_qty, docVars, received>>

\* The user saves another quantity on a line of the order form.
EditOrderLine(l, q) ==
  /\ Shown({"draft"}, orderState)
  /\ q \in OrderQuantities[l]
  /\ qty' = [qty EXCEPT ![l] = q]
  /\ UNCHANGED <<newGoods, orderState, outState, out_qty, reviews, docVars, received>>

-----------------------------------------------------------------------------
(* sell.order.review: three buttons, none of which looks at anything else. *)

SetReview(r, from, to) ==
  /\ reviews[r] # "none"
  /\ Shown(from, reviews[r])
  /\ reviews' = [reviews EXCEPT ![r] = to]
  /\ UNCHANGED <<newGoods, orderVars, docVars, received>>

ReviewDone(r)   == SetReview(r, {"draft"}, "done")
ReviewDraft(r)  == SetReview(r, {"done"}, "draft")
ReviewCancel(r) == SetReview(r, {"draft"}, "cancel")

-----------------------------------------------------------------------------
(* sell.order.out *)

\* The checks of the loop of button_done: within the order, from a warehouse,
\* in stock there if the report has a column for it.
MutCanShipUncounted(d) ==
  /\ Present(docLines[d]) # {}
  /\ \A l \in Present(docLines[d]) :
       LET line == docLines[d][l] IN
       /\ line.qty <= qty[l]
       /\ line.place # NoPlace
       /\ line.place \in Checked => line.qty <= Balance(GoodsOf[l], line.place)

MutCanShipReceived(d) ==
  /\ Present(docLines[d]) # {}
  /\ \A l \in Present(docLines[d]) :
       LET line == docLines[d][l] IN
       /\ line.qty + out_qty[l] <= qty[l]
       /\ line.place # NoPlace
       /\ line.place \in Checked => line.qty <= received[<<GoodsOf[l], line.place>>]

CanShip(d) ==
  /\ Present(docLines[d]) # {}
  /\ \A l \in Present(docLines[d]) :
       LET line == docLines[d][l] IN
       /\ line.qty + out_qty[l] <= qty[l]
       /\ line.place # NoPlace
       /\ line.place \in Checked => line.qty <= Balance(GoodsOf[l], line.place)

OutDone(d) ==
  LET shipped == Confirmed(d)
      last == LastLine(Present(docLines[d]))
  IN
  /\ docState[d] # "none"
  /\ Shown({"draft"}, docState[d])
  /\ CanShip(d)
  /\ out_qty' = shipped
  /\ moves' = [moves EXCEPT ![d] = Append(@, docLines[d])]
  /\ FollowUp([docState EXCEPT ![d] = "done"], docLines, shipped)
  \* The loop writes out_state once per line: the last line decides.
  /\ outState' = IF shipped[last] = qty[last] THEN "done" ELSE "part"
  /\ recs' = [recs EXCEPT ![d] = Append(@, "draft")]
  /\ UNCHANGED <<newGoods, orderState, qty, reviews, received>>

\* Undo: quantities go back, the moves, the statements and EVERY draft
\* delivery of the order are deleted.
OutDraft(d) ==
  LET shipped == Undone(d)
      mine == Present(docLines[d])
      drafts == {n \in Outs : docState[n] = "draft"}
  IN
  /\ Shown({"done"}, docState[d])
  /\ StatementOpen(d)
  /\ out_qty' = shipped
  /\ outState' = IF \A l \in mine : shipped[l] = 0 THEN "draft"
                 ELSE IF \A l \in mine : shipped[l] \notin {0, qty[l]} THEN "part"
                 ELSE "done"
  /\ docState' = [n \in Outs |-> IF n = d THEN "draft"
                                 ELSE IF n \in drafts THEN "none" ELSE docState[n]]
  /\ docLines' = [n \in Outs |-> IF n \in drafts THEN NoLines ELSE docLines[n]]
  /\ moves' = [n \in Outs |-> IF n \in drafts \cup {d} THEN <<>> ELSE moves[n]]
  /\ recs' = [n \in Outs |-> IF n \in drafts \cup {d} THEN <<>> ELSE recs[n]]
  /\ UNCHANGED <<newGoods, orderState, qty, reviews, received>>

MutOutCancel(d) ==
  /\ docState[d] # "none"
  /\ Shown({"draft", "done"}, docState[d])
  /\ docState' = [docState EXCEPT ![d] = "cancel"]
  /\ UNCHANGED <<newGoods, orderVars, reviews, docLines, moves, recs, received>>

OutCancel(d) ==
  /\ docState[d] # "none"
  /\ Shown({"draft"}, docState[d])
  /\ docState' = [docState EXCEPT ![d] = "cancel"]
  /\ UNCHANGED <<newGoods, orderVars, reviews, docLines, moves, recs, received>>

\* The user saves another quantity or warehouse on a line of the delivery
\* (clearing the warehouse is left out: it is empty when the order's is).
EditOutLine(d, l, q, w) ==
  /\ docState[d] # "none"
  /\ Shown({"draft"}, docState[d])
  /\ l \in Present(docLines[d])
  /\ q \in OutQuantities \cup {docLines[d][l].qty}
  /\ w \in Places \ {NoPlace}
  /\ docLines' = [docLines EXCEPT ![d] = [@ EXCEPT ![l] = [qty |-> q, place |-> w]]]
  /\ UNCHANGED <<newGoods, orderVars, reviews, docState, moves, recs, received>>

\* The user removes a line from the delivery.
RemoveOutLine(d, l) ==
  /\ docState[d] # "none"
  /\ Shown({"draft"}, docState[d])
  /\ l \in Present(docLines[d])
  /\ docLines' = [docLines EXCEPT ![d] = [@ EXCEPT ![l] = NoLine]]
  /\ UNCHANGED <<newGoods, orderVars, reviews, docState, moves, recs, received>>

-----------------------------------------------------------------------------
(* jl.reconciliation: three buttons, none of which looks at anything else. *)

SetRec(d, i, from, to) ==
  /\ i \in DOMAIN recs[d]
  /\ Shown(from, recs[d][i])
  /\ recs' = [recs EXCEPT ![d] = [@ EXCEPT ![i] = to]]
  /\ UNCHANGED <<newGoods, orderVars, reviews, docState, docLines, moves, received>>

RecDone(d, i)   == SetRec(d, i, {"draft"}, "done")
RecDraft(d, i)  == SetRec(d, i, {"done"}, "draft")
MutRecCancel(d, i) == SetRec(d, i, {"draft"}, "cencal")
RecCancel(d, i) == SetRec(d, i, {"draft"}, "cancel")

-----------------------------------------------------------------------------
\* Any other document that puts goods in stock (purchase, production, manual).
Receive(g, w, q) ==
  /\ received[<<g, w>>] + q <= MaxReceived
  /\ received' = [received EXCEPT ![<<g, w>>] = @ + q]
  /\ UNCHANGED <<newGoods, orderVars, reviews, docVars>>

\* sell.apply.button_done creates the order with its lines and, for new goods,
\* its reviews.
Init ==
  /\ newGoods \in BOOLEAN
  /\ orderState = IF newGoods THEN "review" ELSE "draft"
  /\ outState = "draft"
  /\ qty \in {f \in [Lines -> UNION Range(OrderQuantities)] :
              \A l \in Lines : f[l] \in OrderQuantities[l]}
  /\ out_qty = [l \in Lines |-> 0]
  /\ \E S \in SUBSET Reviews :
       /\ Cardinality(S) = IF newGoods THEN Cardinality(Lines) ELSE 0
       /\ reviews = [r \in Reviews |-> IF r \in S THEN "draft" ELSE "none"]
  /\ docState = [d \in Outs |-> "none"]
  /\ docLines = [d \in Outs |-> NoLines]
  /\ moves = [d \in Outs |-> <<>>]
  /\ recs = [d \in Outs |-> <<>>]
  /\ received = [p \in Goods \X Checked |-> 0]

Next ==
  \/ OrderDone \/ OrderDraft \/ OrderCancel \/ OrderOut \/ CreateOrderReview
  \/ \E l \in Lines : \E q \in OrderQuantities[l] : EditOrderLine(l, q)
  \/ \E r \in Reviews : ReviewDone(r) \/ ReviewDraft(r) \/ ReviewCancel(r)
  \/ \E d \in Outs :
       \/ OutDone(d) \/ OutDraft(d) \/ OutCancel(d)
       \/ \E l \in Present(docLines[d]), w \in Places :
            \E q \in OutQuantities \cup {docLines[d][l].qty} : EditOutLine(d, l, q, w)
       \/ \E l \in Present(docLines[d]) : RemoveOutLine(d, l)
       \/ \E i \in DOMAIN recs[d] : RecDone(d, i) \/ RecDraft(d, i) \/ RecCancel(d, i)
  \/ \E g \in Goods, w \in Checked, q \in Receipts : Receive(g, w, q)

Spec == Init /\ [][Next]_vars

-----------------------------------------------------------------------------
(* What must hold. *)

DoneDocs == {d \in Outs : docState[d] = "done"}

\* The units of an order line that have left: one pair per document and unit.
DeliveredUnits(l) == UNION {{d} \X (1..docLines[d][l].qty) : d \in DoneDocs}

\* Every variable keeps its type: quantities, documents, ledger copies.
TypeOK ==
  /\ newGoods \in BOOLEAN
  /\ orderState \in {"draft", "review", "done", "cancel"}
  /\ outState \in {"draft", "part", "done"}
  /\ qty \in [Lines -> Nat]
  /\ out_qty \in [Lines -> Int]
  /\ reviews \in [Reviews -> DocStates]
  /\ docState \in [Outs -> DocStates]
  /\ docLines \in [Outs -> LineMap]
  /\ moves \in [Outs -> Seq(LineMap)]
  /\ recs \in [Outs -> Seq({"draft", "done", "cancel"})]
  /\ received \in [Goods \X Checked -> Nat]

\* The delivered quantity kept on an order line (out_qty, written back by
\* button_done and button_draft of every delivery) is what the confirmed
\* deliveries carry, whatever was confirmed, undone, edited or deleted.
OutQtyIsDelivered == \A l \in Lines : out_qty[l] = Cardinality(DeliveredUnits(l))

\* A confirmed delivery has exactly one stock move, with its present lines,
\* and exactly one statement of account; any other document has neither.
LedgerMatchesDocuments ==
  \A d \in Outs :
    IF docState[d] = "done"
    THEN moves[d] = <<docLines[d]>> /\ Len(recs[d]) = 1
    ELSE moves[d] = <<>> /\ recs[d] = <<>>

\* No order line is delivered beyond the ordered quantity, even though an
\* undone order may be edited down after it was partly delivered.
NeverOverDelivered == \A l \in Lines : 0 <= out_qty[l] /\ out_qty[l] <= qty[l]

\* An order whose lines can be edited again, or that was cancelled, has no
\* trace of a delivery: no document, nothing delivered, and '未发货' as state.
DraftOrderIsUndelivered ==
  orderState \in {"draft", "cancel"} =>
    /\ \A d \in Outs : docState[d] = "none"
    /\ \A l \in Lines : out_qty[l] = 0
    /\ outState = "draft"

\* Deliveries never take a checked warehouse below zero, whatever was confirmed
\* and undone in whatever order, as long as no two lines order one product: the
\* check of button_done reads the balance that the moves of all deliveries left.
StockNeverNegative == \A g \in Goods, w \in Checked : Balance(g, w) >= 0
StockNeverNegativePerLine ==
  (\A k, l \in Lines : k # l => GoodsOf[k] # GoodsOf[l]) => StockNeverNegative

\* What the customer's confirmed statement of account says was delivered is
\* not taken back: no step changes or removes the move, the lines or the
\* statement of such a delivery ('不允许删除已确认对账单').
ConfirmedStatementKeepsDelivery ==
  [][\A d \in Outs :
       (\E i \in DOMAIN recs[d] : recs[d][i] = "done") =>
         /\ docState'[d] = docState[d] /\ docLines'[d] = docLines[d]
         /\ moves'[d] = moves[d] /\ Len(recs'[d]) = Len(recs[d])]_vars
=============================================================================
