------------------------------ MODULE Samples ------------------------------
(***************************************************************************)
(* One sample application of jinling_sample with what comes of it, drawing *)
(* its material from a stock that manual documents change as well:         *)
(*                                                                         *)
(*   jl.sample.apply    asks for qty of a product                          *)
(*   jl.sample.order    made when it is confirmed, its lines of the bill   *)
(*                      of material: qty (need), neck_qty, done_qty        *)
(*   jl.sample.picking  material out of stock, "pick"                      *)
(*   jl.sample.in       the product into stock, "in"                       *)
(*                                                                         *)
(* Forms show the present state of their row; users leave the counters of  *)
(* an order line to the program.                                           *)
(***************************************************************************)
EXTENDS StockDocuments

CONSTANTS
  Picks, Ins,   \* ids the rows of each document may take (bounds)
  Amounts,      \* what a user may ask for (a bound)
  Bom,          \* the bill of material: what one product needs
  LateEdits,    \* whether users edit confirmed stock-ins, which the form allows
  Opening       \* what all other documents left of each material in stock

ASSUME SamplesAssumption ==
  /\ IsFiniteSet(Picks) /\ IsFiniteSet(Ins)
  /\ Amounts \subseteq Nat /\ LateEdits \in BOOLEAN
  /\ Bom \in [Materials -> Nat] /\ Opening \in [Materials -> Nat]

VARIABLES
  apply,            \* the application: state, qty, product and warehouse chosen
  order, lines,     \* its order and the counters of the order's lines
  pick, pickMoves,  \* each picking and its done stock moves
  in, inMoves       \* each stock-in and the quantities of its done moves

pickVars == <<pick, pickMoves>>
inVars == <<in, inMoves>>
vars == <<apply, order, lines, pickVars, inVars, stockVars>>

NoOrder == [state |-> "none", qty |-> 0, in_qty |-> 0]
NoLines == [m \in Materials |-> [need |-> 0, neck |-> 0, picked |-> 0]]
NoIn == [state |-> "none", qty |-> 0]

\* A new picking with a line of amount[m] for each m in S, without warehouses.
NewPick(S, amount) ==
  [state |-> "draft", mats |-> S,
   lines |-> [m \in Materials |->
                IF m \in S THEN [qty |-> amount[m], placed |-> FALSE] ELSE Absent]]

\* The stock: what was picked left it, manual documents bring and take.
Picked(m) == RowsTotal(AmountsOf(pickMoves, m))
Stocked == RowsTotal(inMoves)
Balance(m) == Opening[m] + Carried(MoveIns, m) - Carried(MoveOuts, m) - Picked(m)

\* An undo deletes drafts and refuses a document in any other state.
AllDraft(rows) == \A d \in DOMAIN rows : rows[d].state \in {"none", "draft"}

-----------------------------------------------------------------------------
(* jl.sample.apply *)

ApplyDone ==
  /\ apply.state = "draft"
  /\ apply.filled
  /\ order' = [state |-> "draft", qty |-> apply.qty, in_qty |-> 0]
  /\ lines' = [m \in Materials |-> [need |-> Bom[m] * apply.qty, neck |-> 0, picked |-> 0]]
  /\ apply' = [apply EXCEPT !.state = "done"]
  /\ UNCHANGED <<pickVars, inVars, stockVars>>

MutApplyDraft ==
  /\ apply.state = "done"
  /\ order' = IF order.state = "draft" THEN NoOrder ELSE order
  /\ lines' = IF order.state = "draft" THEN NoLines ELSE lines
  /\ apply' = [apply EXCEPT !.state = "draft"]
  /\ UNCHANGED <<pickVars, inVars, stockVars>>
ApplyDraft ==
  /\ apply.state = "done"
  /\ order.state \in {"none", "draft"}
  /\ order' = NoOrder /\ lines' = NoLines
  /\ apply' = [apply EXCEPT !.state = "draft"]
  /\ UNCHANGED <<pickVars, inVars, stockVars>>

ApplyCancel ==
  /\ apply.state = "draft"
  /\ apply' = [apply EXCEPT !.state = "cancel"]
  /\ UNCHANGED <<order, lines, pickVars, inVars, stockVars>>

EditApply(q, filled) ==
  /\ apply.state = "draft"
  /\ apply' = [apply EXCEPT !.qty = q, !.filled = filled]
  /\ UNCHANGED <<order, lines, pickVars, inVars, stockVars>>

-----------------------------------------------------------------------------
(* jl.sample.order *)

\* All material is to be picked, and one draft picking asks for all of it.
OrderDone ==
  /\ order.state = "draft"
  /\ lines' = [m \in Materials |-> [lines[m] EXCEPT !.neck = lines[m].need]]
  /\ \E p \in Picks :
       /\ pick[p].state = "none"
       /\ pick' = [pick EXCEPT ![p] = NewPick(Materials, [m \in Materials |-> lines[m].need])]
  /\ order' = [order EXCEPT !.state = "done"]
  /\ UNCHANGED <<apply, pickMoves, inVars, stockVars>>

\* "Undo" deletes the draft pickings and stock-ins and refuses any others.  It
\* then writes 'done', not 'draft': the order stays what it was.
OrderDraft ==
  /\ order.state = "done"
  /\ AllDraft(pick) /\ AllDraft(in)
  /\ pick' = [p \in Picks |-> NoSheet] /\ pickMoves' = [p \in Picks |-> <<>>]
  /\ in' = [d \in Ins |-> NoIn] /\ inMoves' = [d \in Ins |-> <<>>]
  /\ order' = [order EXCEPT !.state = "done"]
  /\ UNCHANGED <<apply, lines, stockVars>>

OrderCancel ==
  /\ order.state = "draft"
  /\ order' = [order EXCEPT !.state = "cancel"]
  /\ UNCHANGED <<apply, lines, pickVars, inVars, stockVars>>

\* A draft stock-in of what is missing, a further one with every press.
OrderSampleIn ==
  /\ order.state = "done"
  /\ order.qty > 0 /\ order.qty > order.in_qty
  /\ \E d \in Ins :
       /\ in[d].state = "none"
       /\ in' = [in EXCEPT ![d] = [state |-> "draft", qty |-> order.qty - order.in_qty]]
  /\ UNCHANGED <<apply, order, lines, pickVars, inMoves, stockVars>>

\* A draft picking of what is still to be picked replaces the draft ones.
OrderSamplePicking ==
  LET drafts == {p \in Picks : pick[p].state = "draft"}
      open == {m \in Materials : lines[m].neck > 0}
  IN
  /\ order.state = "done"
  /\ \E n \in Picks :
       /\ pick[n].state \in {"none", "draft"}
       /\ pick' = [p \in Picks |->
            IF p = n THEN NewPick(open, [m \in Materials |-> lines[m].neck])
            ELSE IF p \in drafts THEN NoSheet ELSE pick[p]]
  /\ pickMoves' = [p \in Picks |-> IF p \in drafts THEN <<>> ELSE pickMoves[p]]
  /\ UNCHANGED <<apply, order, lines, inVars, stockVars>>

EditNeed(m, q) ==
  /\ order.state = "draft"
  /\ lines' = [lines EXCEPT ![m].need = q]
  /\ UNCHANGED <<apply, order, pickVars, inVars, stockVars>>

-----------------------------------------------------------------------------
(* jl.sample.picking *)

\* Compares what will be picked in all with what is still to be picked.
CanPick(p) ==
  /\ Placed(pick[p])
  /\ \A m \in pick[p].mats :
       /\ pick[p].lines[m].qty <= Balance(m)
       /\ pick[p].lines[m].qty + lines[m].picked <= lines[m].neck

PickDone(p) ==
  /\ pick[p].state = "draft"
  /\ CanPick(p)
  /\ lines' = [m \in Materials |->
       [lines[m] EXCEPT !.neck = @ - pick[p].lines[m].qty, !.picked = @ + pick[p].lines[m].qty]]
  /\ pickMoves' = [pickMoves EXCEPT ![p] = Append(@, Amount(pick[p]))]
  /\ pick' = [pick EXCEPT ![p].state = "done"]
  /\ UNCHANGED <<apply, order, inVars, stockVars>>

PickDraft(p) ==
  /\ pick[p].state = "done"
  /\ lines' = [m \in Materials |->
       [lines[m] EXCEPT !.neck = @ + pick[p].lines[m].qty, !.picked = @ - pick[p].lines[m].qty]]
  /\ pickMoves' = [pickMoves EXCEPT ![p] = <<>>]
  /\ pick' = [pick EXCEPT ![p].state = "draft"]
  /\ UNCHANGED <<apply, order, inVars, stockVars>>

MutPickCancel(p) ==
  /\ pick[p].state = "draft"
  /\ pick' = [pick EXCEPT ![p].state = "cencal"]
  /\ UNCHANGED <<apply, order, lines, pickMoves, inVars, stockVars>>
PickCancel(p) ==
  /\ pick[p].state = "draft"
  /\ pick' = [pick EXCEPT ![p].state = "cancel"]
  /\ UNCHANGED <<apply, order, lines, pickMoves, inVars, stockVars>>

\* The user enters a quantity and a warehouse on a line, or removes it.
EditPickLine(p, m, q) ==
  /\ pick[p].state = "draft" /\ m \in pick[p].mats
  /\ pick' = [pick EXCEPT ![p].lines[m] = [qty |-> q, placed |-> TRUE]]
  /\ UNCHANGED <<apply, order, lines, pickMoves, inVars, stockVars>>

RemovePickLine(p, m) ==
  /\ pick[p].state = "draft" /\ m \in pick[p].mats
  /\ pick' = [pick EXCEPT ![p] = [pick[p] EXCEPT !.mats = @ \ {m}, !.lines[m] = Absent]]
  /\ UNCHANGED <<apply, order, lines, pickMoves, inVars, stockVars>>

-----------------------------------------------------------------------------
(* jl.sample.in *)

MutCanStock(d) == in[d].qty <= order.qty
CanStock(d) == in[d].qty + order.in_qty <= order.qty

\* What is then missing becomes a new draft stock-in.
InDone(d) ==
  /\ in[d].state = "draft"
  /\ CanStock(d)
  /\ LET total == order.in_qty + in[d].qty
         confirmed == [in EXCEPT ![d].state = "done"]
     IN
     /\ order' = [order EXCEPT !.in_qty = total]
     /\ IF order.qty > total
        THEN \E n \in Ins :
               /\ in[n].state = "none"
               /\ in' = [confirmed EXCEPT ![n] = [state |-> "draft", qty |-> order.qty - total]]
        ELSE in' = confirmed
  /\ inMoves' = [inMoves EXCEPT ![d] = Append(@, in[d].qty)]
  /\ UNCHANGED <<apply, lines, pickVars, stockVars>>

\* Undo: every draft stock-in of the order goes, and its own move.
InDraft(d) ==
  /\ in[d].state = "done"
  /\ order' = [order EXCEPT !.in_qty = @ - in[d].qty]
  /\ in' = [n \in Ins |-> IF n = d THEN [in[d] EXCEPT !.state = "draft"]
                          ELSE IF in[n].state = "draft" THEN NoIn ELSE in[n]]
  /\ inMoves' = [n \in Ins |-> IF n = d \/ in[n].state = "draft" THEN <<>> ELSE inMoves[n]]
  /\ UNCHANGED <<apply, lines, pickVars, stockVars>>

InCancel(d) ==
  /\ in[d].state = "draft"
  /\ in' = [in EXCEPT ![d].state = "cancel"]
  /\ UNCHANGED <<apply, order, lines, pickVars, inMoves, stockVars>>

\* The quantity of a stock-in is never read-only.
EditIn(d, q) ==
  /\ in[d].state # "none" /\ (LateEdits \/ in[d].state = "draft")
  /\ in' = [in EXCEPT ![d].qty = q]
  /\ UNCHANGED <<apply, order, lines, pickVars, inMoves, stockVars>>

-----------------------------------------------------------------------------
Init ==
  /\ apply = [state |-> "draft", qty |-> 0, filled |-> FALSE]
  /\ order = NoOrder /\ lines = NoLines
  /\ pick = [p \in Picks |-> NoSheet] /\ pickMoves = [p \in Picks |-> <<>>]
  /\ in = [d \in Ins |-> NoIn] /\ inMoves = [d \in Ins |-> <<>>]
  /\ StockInit

Next ==
  \/ ApplyDone \/ ApplyDraft \/ ApplyCancel
  \/ \E q \in Amounts, filled \in BOOLEAN : EditApply(q, filled)
  \/ OrderDone \/ OrderDraft \/ OrderCancel \/ OrderSampleIn \/ OrderSamplePicking
  \/ \E m \in Materials, q \in Quantities : EditNeed(m, q)
  \/ \E p \in Picks :
       \/ PickDone(p) \/ PickDraft(p) \/ PickCancel(p)
       \/ \E m \in Materials, q \in Quantities : EditPickLine(p, m, q)
       \/ \E m \in Materials : RemovePickLine(p, m)
  \/ \E d \in Ins :
       \/ InDone(d) \/ InDraft(d) \/ InCancel(d)
       \/ \E q \in Quantities : EditIn(d, q)
  \/ StockNext /\ UNCHANGED <<apply, order, lines, pickVars, inVars>>

Spec == Init /\ [][Next]_vars

-----------------------------------------------------------------------------
(* What must hold. *)

\* Every variable keeps its type: states, counters, rows of documents.
TypeOK ==
  /\ apply \in [state : DocStates \ {"none"}, qty : Nat, filled : BOOLEAN]
  /\ order \in [state : DocStates, qty : Nat, in_qty : Int]
  /\ lines \in [Materials -> [need : Nat, neck : Int, picked : Int]]
  /\ pick \in [Picks -> Sheet]
  /\ pickMoves \in [Picks -> Seq([Materials -> Nat])]
  /\ in \in [Ins -> [state : DocStates, qty : Nat]]
  /\ inMoves \in [Ins -> Seq(Nat)]
  /\ StockTypeOK

\* The counters of the order, its sheets and the manual documents agree with
\* the stock ledger: what a line says was picked left the stock, the rest of
\* its need is still to be picked, what the order says is in stock came in, and
\* every confirmed sheet has its one move, with its present quantities.
BooksAgree ==
  /\ \A m \in Materials :
       /\ lines[m].picked = Picked(m)
       /\ order.state = "done" => lines[m].neck + lines[m].picked = lines[m].need
  /\ order.in_qty = Stocked
  /\ \A p \in Picks :
       pickMoves[p] = IF pick[p].state = "done" THEN <<Amount(pick[p])>> ELSE <<>>
  /\ \A d \in Ins : inMoves[d] = IF in[d].state = "done" THEN <<in[d].qty>> ELSE <<>>
  /\ DocumentLedger

\* What is confirmed hangs on what is confirmed: an order exists for a confirmed
\* application only, a picking or stock-in for a confirmed order only.
ConfirmedHangsOnConfirmed ==
  /\ order.state # "none" => apply.state = "done"
  /\ order.state # "done" =>
       /\ \A p \in Picks : pick[p].state = "none"
       /\ \A d \in Ins : in[d].state = "none"

\* However often pickings and stock-ins are split, undone and made anew: not
\* more is picked than the samples need, nor more brought in than was asked for.
WithinTheOrder ==
  /\ \A m \in Materials : 0 <= lines[m].picked /\ lines[m].picked <= lines[m].need
  /\ 0 <= order.in_qty /\ order.in_qty <= order.qty
=============================================================================
