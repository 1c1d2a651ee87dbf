----------------------------- MODULE Production -----------------------------
(***************************************************************************)
(* One production order of jinling_manufacture with its documents:         *)
(*                                                                         *)
(*   jl.mes.plm           state, qty, done_qty, buy_qty, and per material  *)
(*                        need (qty), neck (neck_qty: still to be picked), *)
(*                        picked (done_qty), refunded (refund_qty)         *)
(*   jl.mes.plm.picking   material out of stock, "pick"                    *)
(*   jl.mes.plm.refund    material back into stock, "refund"               *)
(*   jl.quality           an inspection: qty, qualified_qty, in_qty        *)
(*   jl.mes.plm.in        the inspected product into stock, "in"           *)
(*                                                                         *)
(* The order has its warehouse (button_start refuses one without), and its *)
(* user leaves the three counters of a material line to the program.       *)
(***************************************************************************)
EXTENDS Forms, Sums, Sequences

CONSTANTS
  Materials,     \* ids of the material lines
  Picks, Refunds, Checks, Ins,  \* ids the rows of each document may take (bounds)
  Amounts,       \* what a user may enter on the order (a bound)
  Qualities,     \* what an inspection may find qualified (a bound)
  Quantities,    \* what a user may enter on any other sheet (a bound)
  LateEdits,     \* whether users edit confirmed sheets, where the form lets them
  Floor,         \* how low an undo may leave a counter then (a bound)
  Opening        \* what all other documents left of each material in stock

NoCheckId == "no inspection"  \* the inspection of a stock-in without one

ASSUME MaterialsAssumption == IsFiniteSet(Materials) /\ Materials # {}
ASSUME EditsAssumption == LateEdits \in BOOLEAN
ASSUME RowsAssumption ==
  /\ \A S \in {Picks, Refunds, Checks, Ins} : IsFiniteSet(S)
  /\ NoCheckId \notin Checks
ASSUME QuantitiesAssumption ==
  /\ Amounts \cup Qualities \cup Quantities \subseteq Nat
  /\ Floor \in Int /\ Opening \in [Materials -> Nat]

VARIABLES
  state,      \* jl.mes.plm.state
  qty,        \* jl.mes.plm.qty, to be made
  done_qty,   \* jl.mes.plm.done_qty, made, as the user enters it
  buy_qty,    \* jl.mes.plm.buy_qty, put in stock
  lines,      \* the counters of each material line
  pick, pickMoves,      \* each picking and its done stock moves
  refund, refundMoves,  \* each refund and its done stock moves
  check,      \* each inspection
  in, inMoves           \* each stock-in and the quantities of its done moves

orderVars == <<state, qty, done_qty, buy_qty, lines>>
pickVars == <<pick, pickMoves>>
refundVars == <<refund, refundMoves>>
inVars == <<in, inMoves>>
vars == <<orderVars, pickVars, refundVars, check, inVars>>

DocStates == {"none", "draft", "done", "cancel"}
\* A line of a picking or a refund; the user must choose its warehouse.
Line == [qty : Nat, placed : BOOLEAN]
Absent == [qty |-> 0, placed |-> FALSE]
Sheet == [state : DocStates, mats : SUBSET Materials, lines : [Materials -> Line]]
NoSheet == [state |-> "none", mats |-> {}, lines |-> [m \in Materials |-> Absent]]
NoCheck == [state |-> "none", qty |-> 0, qualified |-> 0, in_qty |-> 0]
NoIn == [state |-> "none", qty |-> 0, check |-> NoCheckId]

\* A new sheet with a line of amount[m] for each m in S, without warehouses.
NewSheet(S, amount) ==
  [state |-> "draft", mats |-> S,
   lines |-> [m \in Materials |->
                IF m \in S THEN [qty |-> amount[m], placed |-> FALSE] ELSE Absent]]

Amount(sheet) == [m \in Materials |-> sheet.lines[m].qty]

-----------------------------------------------------------------------------
(* The stock ledger of a material: what was picked left, refunds came back. *)

Moved(moves, m) == RowsTotal(AmountsOf(moves, m))
Balance(m) == Opening[m] - Moved(pickMoves, m) + Moved(refundMoves, m)

\* What the given stock-ins brought into stock.
Stocked(S) == RowsTotal([d \in S |-> inMoves[d]])

-----------------------------------------------------------------------------
(* Helpers of the handlers. *)

Need == [m \in Materials |-> lines[m].need]
Neck == [m \in Materials |-> lines[m].neck]
Placed(sheet) == sheet.mats # {} /\ \A m \in sheet.mats : sheet.lines[m].placed

\* The guard of a picking compares what will be picked in all with what is
\* still to be picked, which earlier pickings have already reduced.
MutCanPick(p) ==
  /\ Placed(pick[p])
  /\ \A m \in pick[p].mats :
       /\ pick[p].lines[m].qty <= Balance(m)
       /\ pick[p].lines[m].qty <= lines[m].need
CanPick(p) ==
  /\ Placed(pick[p])
  /\ \A m \in pick[p].mats :
       /\ pick[p].lines[m].qty <= Balance(m)
       /\ pick[p].lines[m].qty + lines[m].picked <= lines[m].neck

CanRefund(r) ==
  /\ Placed(refund[r])
  /\ \A m \in refund[r].mats :
       refund[r].lines[m].qty + lines[m].refunded <= lines[m].picked

\* A stock-in stays within the inspected quantity together with the earlier
\* ones of its inspection, and within the qualified quantity by itself.
MutCanStock(d) ==
  LET c == check[in[d].check] IN
  in[d].qty <= c.qty /\ in[d].qty <= c.qualified
CanStock(d) ==
  LET c == check[in[d].check] IN
  in[d].qty + c.in_qty <= c.qty /\ in[d].qty <= c.qualified

\* What the undo of an order deletes must be a draft: button_draft refuses a
\* sheet in any other state.
AllDraft(rows) == \A d \in DOMAIN rows : rows[d].state \in {"none", "draft"}

-----------------------------------------------------------------------------
(* jl.mes.plm *)

\* Every material is to be picked in full, and one draft picking asks for it.
Start ==
  /\ Shown({"draft"}, state)
  /\ lines' = [m \in Materials |-> [lines[m] EXCEPT !.neck = lines[m].need]]
  /\ \E p \in Picks : /\ pick[p].state = "none"
                      /\ pick' = [pick EXCEPT ![p] = NewSheet(Materials, Need)]
  /\ state' = "start"
  /\ UNCHANGED <<qty, done_qty, buy_qty, pickMoves, refundVars, check, inVars>>

SetState(from, to) ==
  /\ Shown(from, state)
  /\ state' = to
  /\ UNCHANGED <<qty, done_qty, buy_qty, lines, pickVars, refundVars, check, inVars>>

Stop     == SetState({"start"}, "stop")
Continue == SetState({"stop"}, "start")
Cancel   == SetState({"draft"}, "cancel")
Done     == done_qty > 0 /\ qty <= done_qty /\ SetState({"start"}, "done")

\* Undo: inspections, pickings and refunds go, which must all be drafts; a
\* stock-in goes with its inspection, unless a move holds it.
Draft ==
  LET gone == {d \in Ins : in[d].check # NoCheckId} IN
  /\ Shown({"done", "start"}, state) /\ state # "draft"
  /\ AllDraft(check) /\ AllDraft(pick) /\ AllDraft(refund)
  /\ \A d \in gone : inMoves[d] = <<>>
  /\ check' = [c \in Checks |-> NoCheck]
  /\ pick' = [p \in Picks |-> NoSheet] /\ pickMoves' = [p \in Picks |-> <<>>]
  /\ refund' = [r \in Refunds |-> NoSheet] /\ refundMoves' = [r \in Refunds |-> <<>>]
  /\ in' = [d \in Ins |-> IF d \in gone THEN NoIn ELSE in[d]]
  /\ state' = "draft"
  /\ UNCHANGED <<qty, done_qty, buy_qty, lines, inMoves>>

\* An inspection of what is not in stock yet replaces the draft ones; not
\* while a picking is a draft, nor once more was made than ordered.
CreateQuality ==
  LET drafts == {c \in Checks : check[c].state = "draft"}
      gone == {d \in Ins : in[d].check \in drafts}
  IN
  /\ Shown({"start", "done"}, state)
  /\ done_qty <= qty
  /\ \A p \in Picks : pick[p].state # "draft"
  /\ \A d \in gone : inMoves[d] = <<>>
  /\ \E n \in Checks :
       /\ check[n].state \in {"none", "draft"}
       /\ check' = [c \in Checks |->
            IF c = n THEN [NoCheck EXCEPT !.state = "draft", !.qty = qty - buy_qty]
            ELSE IF c \in drafts THEN NoCheck ELSE check[c]]
  /\ in' = [d \in Ins |-> IF d \in gone THEN NoIn ELSE in[d]]
  /\ UNCHANGED <<orderVars, pickVars, refundVars, inMoves>>

\* A draft refund of all that was needed.
MesPlmRefund ==
  /\ Shown({"done"}, state)
  /\ \E r \in Refunds : /\ refund[r].state = "none"
                        /\ refund' = [refund EXCEPT ![r] = NewSheet(Materials, Need)]
  /\ UNCHANGED <<orderVars, pickVars, refundMoves, check, inVars>>

\* A draft picking of what is still to be picked replaces the draft ones.
MesPlmPicking ==
  LET drafts == {p \in Picks : pick[p].state = "draft"}
      open == {m \in Materials : lines[m].neck > 0}
  IN
  /\ Shown({"start"}, state)
  /\ \E n \in Picks :
       /\ pick[n].state \in {"none", "draft"}
       /\ pick' = [p \in Picks |-> IF p = n THEN NewSheet(open, Neck)
                                   ELSE IF p \in drafts THEN NoSheet ELSE pick[p]]
  /\ pickMoves' = [p \in Picks |-> IF p \in drafts THEN <<>> ELSE pickMoves[p]]
  /\ UNCHANGED <<orderVars, refundVars, check, inVars>>

\* The order form: the quantity in draft and while stopped, what was made until
\* the order is done, what is needed of a material in draft.
EditQty(q) ==
  /\ Shown({"draft", "stop"}, state)
  /\ qty' = q
  /\ UNCHANGED <<state, done_qty, buy_qty, lines, pickVars, refundVars, check, inVars>>

EditDoneQty(q) ==
  /\ Shown({"draft", "start", "stop"}, state)
  /\ done_qty' = q
  /\ UNCHANGED <<state, qty, buy_qty, lines, pickVars, refundVars, check, inVars>>

EditNeed(m, q) ==
  /\ Shown({"draft"}, state)
  /\ lines' = [lines EXCEPT ![m].need = q]
  /\ UNCHANGED <<state, qty, done_qty, buy_qty, pickVars, refundVars, check, inVars>>

-----------------------------------------------------------------------------
(* jl.mes.plm.picking *)

PickDone(p) ==
  /\ pick[p].state # "none" /\ Shown({"draft"}, pick[p].state)
  /\ CanPick(p)
  /\ lines' = [m \in Materials |->
       [lines[m] EXCEPT !.neck = @ - pick[p].lines[m].qty, !.picked = @ + pick[p].lines[m].qty]]
  /\ pickMoves' = [pickMoves EXCEPT ![p] = Append(@, Amount(pick[p]))]
  /\ pick' = [pick EXCEPT ![p].state = "done"]
  /\ UNCHANGED <<state, qty, done_qty, buy_qty, refundVars, check, inVars>>

PickDraft(p) ==
  /\ Shown({"done"}, pick[p].state)
  /\ lines' = [m \in Materials |->
       [lines[m] EXCEPT !.neck = @ + pick[p].lines[m].qty, !.picked = @ - pick[p].lines[m].qty]]
  /\ pickMoves' = [pickMoves EXCEPT ![p] = <<>>]
  /\ pick' = [pick EXCEPT ![p].state = "draft"]
  /\ UNCHANGED <<state, qty, done_qty, buy_qty, refundVars, check, inVars>>

PickCancel(p) ==
  /\ pick[p].state # "none" /\ Shown({"draft"}, pick[p].state)
  /\ pick' = [pick EXCEPT ![p].state = "cancel"]
  /\ UNCHANGED <<orderVars, pickMoves, refundVars, check, inVars>>

\* The user enters a quantity and a warehouse on a line, or removes it.
EditPickLine(p, m, q) ==
  /\ Shown({"draft"}, pick[p].state) /\ m \in pick[p].mats
  /\ pick' = [pick EXCEPT ![p].lines[m] = [qty |-> q, placed |-> TRUE]]
  /\ UNCHANGED <<orderVars, pickMoves, refundVars, check, inVars>>

RemovePickLine(p, m) ==
  /\ Shown({"draft"}, pick[p].state) /\ m \in pick[p].mats
  /\ pick' = [pick EXCEPT ![p].mats = @ \ {m}, ![p].lines[m] = Absent]
  /\ UNCHANGED <<orderVars, pickMoves, refundVars, check, inVars>>

-----------------------------------------------------------------------------
(* jl.mes.plm.refund *)

RefundDone(r) ==
  /\ refund[r].state # "none" /\ Shown({"draft"}, refund[r].state)
  /\ CanRefund(r)
  /\ lines' = [m \in Materials |-> [lines[m] EXCEPT !.refunded = @ + refund[r].lines[m].qty]]
  /\ refundMoves' = [refundMoves EXCEPT ![r] = Append(@, Amount(refund[r]))]
  /\ refund' = [refund EXCEPT ![r].state = "done"]
  /\ UNCHANGED <<state, qty, done_qty, buy_qty, pickVars, check, inVars>>

RefundDraft(r) ==
  /\ Shown({"done"}, refund[r].state)
  /\ \A m \in Materials : lines[m].refunded - refund[r].lines[m].qty >= Floor
  /\ lines' = [m \in Materials |-> [lines[m] EXCEPT !.refunded = @ - refund[r].lines[m].qty]]
  /\ refundMoves' = [refundMoves EXCEPT ![r] = <<>>]
  /\ refund' = [refund EXCEPT ![r].state = "draft"]
  /\ UNCHANGED <<state, qty, done_qty, buy_qty, pickVars, check, inVars>>

RefundCancel(r) ==
  /\ refund[r].state # "none" /\ Shown({"draft"}, refund[r].state)
  /\ refund' = [refund EXCEPT ![r].state = "cancel"]
  /\ UNCHANGED <<orderVars, pickVars, refundMoves, check, inVars>>

\* The lines of a refund, unlike those of a picking, are never read-only.
Editable(docState) == docState # "none" /\ (LateEdits \/ docState = "draft")

EditRefundLine(r, m, q) ==
  /\ Editable(refund[r].state) /\ m \in refund[r].mats
  /\ refund' = [refund EXCEPT ![r].lines[m] = [qty |-> q, placed |-> TRUE]]
  /\ UNCHANGED <<orderVars, pickVars, refundMoves, check, inVars>>

RemoveRefundLine(r, m) ==
  /\ Editable(refund[r].state) /\ m \in refund[r].mats
  /\ refund' = [refund EXCEPT ![r].mats = @ \ {m}, ![r].lines[m] = Absent]
  /\ UNCHANGED <<orderVars, pickVars, refundMoves, check, inVars>>

-----------------------------------------------------------------------------
(* jl.quality *)

QualityDone(c) ==
  /\ check[c].state # "none" /\ Shown({"draft"}, check[c].state)
  /\ check[c].qualified > 0
  /\ \E n \in Ins :
       /\ in[n].state = "none"
       /\ in' = [in EXCEPT ![n] = [state |-> "draft", qty |-> check[c].qualified, check |-> c]]
  /\ check' = [check EXCEPT ![c].state = "done"]
  /\ UNCHANGED <<orderVars, pickVars, refundVars, inMoves>>

\* Undo: its stock-ins go, which must all be drafts.
MutQualityDraft(c) ==
  /\ Shown({"done"}, check[c].state) /\ check[c].state # "draft"
  /\ in' = [d \in Ins |-> IF in[d].check = c /\ in[d].state = "draft" THEN NoIn ELSE in[d]]
  /\ check' = [check EXCEPT ![c].state = "draft"]
  /\ UNCHANGED <<orderVars, pickVars, refundVars, inMoves>>
QualityDraft(c) ==
  LET gone == {d \in Ins : in[d].check = c} IN
  /\ Shown({"done"}, check[c].state) /\ check[c].state \notin {"none", "draft"}
  /\ \A d \in gone : in[d].state = "draft" /\ inMoves[d] = <<>>
  /\ in' = [d \in Ins |-> IF d \in gone THEN NoIn ELSE in[d]]
  /\ check' = [check EXCEPT ![c].state = "draft"]
  /\ UNCHANGED <<orderVars, pickVars, refundVars, inMoves>>

MutQualityCancel(c) ==
  /\ check[c].state # "none" /\ Shown({"draft"}, check[c].state)
  /\ check' = [check EXCEPT ![c].state = "cencal"]
  /\ UNCHANGED <<orderVars, pickVars, refundVars, inVars>>
QualityCancel(c) ==
  /\ check[c].state # "none" /\ Shown({"draft"}, check[c].state)
  /\ check' = [check EXCEPT ![c].state = "cancel"]
  /\ UNCHANGED <<orderVars, pickVars, refundVars, inVars>>

EditQualified(c, q) ==
  /\ check[c].state # "none" /\ Shown({"draft"}, check[c].state)
  /\ check' = [check EXCEPT ![c].qualified = q]
  /\ UNCHANGED <<orderVars, pickVars, refundVars, inVars>>

-----------------------------------------------------------------------------
(* jl.mes.plm.in *)

\* The rest of the inspected quantity becomes a new draft stock-in as long as
\* less than the qualified quantity is in stock.
InDone(d) ==
  LET c == in[d].check
      total == check[c].in_qty + in[d].qty
  IN
  /\ in[d].state \notin {"none", "done"} /\ Shown({"draft"}, in[d].state)
  /\ CanStock(d)
  /\ check' = [check EXCEPT ![c].in_qty = total]
  /\ buy_qty' = buy_qty + in[d].qty
  /\ inMoves' = [inMoves EXCEPT ![d] = Append(@, in[d].qty)]
  /\ LET confirmed == [in EXCEPT ![d].state = "done"] IN
     IF check[c].qualified > total
     THEN \E n \in Ins :
            /\ in[n].state = "none"
            /\ in' = [confirmed EXCEPT ![n] =
                        [state |-> "draft", qty |-> check[c].qty - total, check |-> c]]
     ELSE in' = confirmed
  /\ UNCHANGED <<state, qty, done_qty, lines, pickVars, refundVars>>

MutInDraft(d) ==
  LET drafts == {n \in Ins : in[n].state = "draft"} IN
  /\ Shown({"done"}, in[d].state)
  /\ check' = [check EXCEPT ![in[d].check].in_qty = @ - in[d].qty]
  /\ in' = [n \in Ins |-> IF n = d THEN [in[d] EXCEPT !.state = "draft"]
                          ELSE IF n \in drafts THEN NoIn ELSE in[n]]
  /\ inMoves' = [inMoves EXCEPT ![d] = <<>>]
  /\ UNCHANGED <<orderVars, pickVars, refundVars>>

\* Undo: the quantities go back and EVERY draft stock-in of the order goes.
InDraft(d) ==
  LET drafts == {n \in Ins : in[n].state = "draft"} IN
  /\ Shown({"done"}, in[d].state)
  /\ check[in[d].check].in_qty - in[d].qty >= Floor
  /\ check' = [check EXCEPT ![in[d].check].in_qty = @ - in[d].qty]
  /\ buy_qty' = buy_qty - in[d].qty
  /\ \A n \in drafts : inMoves[n] = <<>>
  /\ in' = [n \in Ins |-> IF n = d THEN [in[d] EXCEPT !.state = "draft"]
                          ELSE IF n \in drafts THEN NoIn ELSE in[n]]
  /\ inMoves' = [inMoves EXCEPT ![d] = <<>>]
  /\ UNCHANGED <<state, qty, done_qty, lines, pickVars, refundVars>>

InCancel(d) ==
  /\ in[d].state # "none" /\ Shown({"draft"}, in[d].state)
  /\ in' = [in EXCEPT ![d].state = "cancel"]
  /\ UNCHANGED <<orderVars, pickVars, refundVars, check, inMoves>>

\* The quantity of a stock-in is never read-only.
EditIn(d, q) ==
  /\ Editable(in[d].state)
  /\ in' = [in EXCEPT ![d].qty = q]
  /\ UNCHANGED <<orderVars, pickVars, refundVars, check, inMoves>>

-----------------------------------------------------------------------------
Init ==
  /\ state = "draft"
  /\ qty \in Amounts /\ done_qty = 0 /\ buy_qty = 0
  /\ lines \in [Materials -> [need : Amounts, neck : {0}, picked : {0}, refunded : {0}]]
  /\ pick = [p \in Picks |-> NoSheet] /\ pickMoves = [p \in Picks |-> <<>>]
  /\ refund = [r \in Refunds |-> NoSheet] /\ refundMoves = [r \in Refunds |-> <<>>]
  /\ check = [c \in Checks |-> NoCheck]
  /\ in = [d \in Ins |-> NoIn] /\ inMoves = [d \in Ins |-> <<>>]

Next ==
  \/ Start \/ Stop \/ Continue \/ Cancel \/ Done \/ Draft
  \/ CreateQuality \/ MesPlmRefund \/ MesPlmPicking
  \/ \E q \in Amounts : EditQty(q) \/ EditDoneQty(q)
  \/ \E m \in Materials, q \in Amounts : EditNeed(m, q)
  \/ \E p \in Picks :
       \/ PickDone(p) \/ PickDraft(p) \/ PickCancel(p)
       \/ \E m \in Materials, q \in Quantities : EditPickLine(p, m, q)
       \/ \E m \in Materials : RemovePickLine(p, m)
  \/ \E r \in Refunds :
       \/ RefundDone(r) \/ RefundDraft(r) \/ RefundCancel(r)
       \/ \E m \in Materials, q \in Quantities : EditRefundLine(r, m, q)
       \/ \E m \in Materials : RemoveRefundLine(r, m)
  \/ \E c \in Checks :
       \/ QualityDone(c) \/ QualityDraft(c) \/ QualityCancel(c)
       \/ \E q \in Qualities : EditQualified(c, q)
  \/ \E d \in Ins :
       \/ InDone(d) \/ InDraft(d) \/ InCancel(d)
       \/ \E q \in Quantities : EditIn(d, q)

Spec == Init /\ [][Next]_vars

-----------------------------------------------------------------------------
(* What must hold. *)

Running == state \in {"start", "stop", "done"}

\* Every variable keeps its type: states, counters, rows of documents.
TypeOK ==
  /\ state \in {"draft", "start", "stop", "done", "cancel"}
  /\ qty \in Nat /\ done_qty \in Nat /\ buy_qty \in Int
  /\ lines \in [Materials -> [need : Nat, neck : Int, picked : Int, refunded : Int]]
  /\ pick \in [Picks -> Sheet]
  /\ refund \in [Refunds -> Sheet]
  /\ pickMoves \in [Picks -> Seq([Materials -> Nat])]
  /\ refundMoves \in [Refunds -> Seq([Materials -> Nat])]
  /\ check \in [Checks -> [state : DocStates, qty : Int, qualified : Nat, in_qty : Int]]
  /\ in \in [Ins -> [state : DocStates, qty : Nat, check : Checks \cup {NoCheckId}]]
  /\ inMoves \in [Ins -> Seq(Nat)]

\* What a material line says was picked is what the stock ledger says left, what
\* it says came back is what the ledger says came back, and what is still to be
\* picked makes up the rest of the need of a running order: through pickings,
\* undos, cancels, replaced drafts and restarts.
MaterialAccounts ==
  \A m \in Materials :
    /\ lines[m].picked = Moved(pickMoves, m)
    /\ lines[m].refunded = Moved(refundMoves, m)
    /\ Running => lines[m].neck + lines[m].picked = lines[m].need

\* A confirmed picking, refund or stock-in has exactly one stock move, with its
\* present lines, and any other has none.
SheetLedger ==
  /\ \A p \in Picks :
       pickMoves[p] = IF pick[p].state = "done" THEN <<Amount(pick[p])>> ELSE <<>>
  /\ \A r \in Refunds :
       refundMoves[r] = IF refund[r].state = "done" THEN <<Amount(refund[r])>> ELSE <<>>
  /\ \A d \in Ins :
       inMoves[d] = IF in[d].state = "done" THEN <<in[d].qty>> ELSE <<>>

\* No material is picked beyond the need, although the need may be edited while
\* the order is undone.
PickedWithinNeed == \A m \in Materials : 0 <= lines[m].picked /\ lines[m].picked <= lines[m].need

\* What is confirmed hangs on what is confirmed: a done stock-in on a done
\* inspection, an inspection on a running order; an undone order has nothing.
ConfirmedHangsOnConfirmed ==
  /\ \A d \in Ins : in[d].state = "done" => check[in[d].check].state = "done"
  /\ ~Running =>
       /\ \A p \in Picks : pick[p].state = "none"
       /\ \A r \in Refunds : refund[r].state = "none"
       /\ \A c \in Checks : check[c].state = "none"
       /\ \A d \in Ins : in[d].state = "none"

\* What the order and each inspection say is in stock is what the ledger says
\* their stock-ins brought, through follow-ups, undos and replaced inspections.
StockAccounts ==
  /\ buy_qty = Stocked(Ins)
  /\ \A c \in Checks : check[c].in_qty = Stocked({d \in Ins : in[d].check = c})

\* The books of an order agree: the counters of its material, its inspections
\* and its own are what the stock ledger says, and each confirmed sheet has its
\* one move, through partial sheets, undos, restarts and edits in between.
BooksAgree == MaterialAccounts /\ SheetLedger /\ StockAccounts

\* Not more of an inspection is brought into stock than was inspected.
StockedWithinInspected ==
  \A c \in Checks :
    LET stocked == Stocked({d \in Ins : in[d].check = c}) IN
    stocked > 0 => stocked <= check[c].qty
=============================================================================
