---------------------------- MODULE Outsourcing ----------------------------
(***************************************************************************)
(* One outsourced order of jinling_outsourcing: jl.mes.ous with its        *)
(* pickings, refunds, inspections and stock-ins.  The five models began as *)
(* copies of those of production and most handlers still are the same,     *)
(* word for word: they are the actions of Production on the rows of this   *)
(* order.  What has gone its own way is written out here:                  *)
(*                                                                         *)
(*   create_quality        does not wait for draft pickings                *)
(*   refund, button_done   writes the stock move of self.plm_id, a field   *)
(*                         jl.mes.ous.refund does not have: it fails, and  *)
(*                         everything it wrote is rolled back              *)
(*   onchange_line_id      the refill of the material lines (Production    *)
(*                         leaves it to EditNeed)                          *)
(***************************************************************************)
EXTENDS Production

CONSTANT Bom  \* the bill of material: what one product needs

ASSUME BomAssumption == Bom \in [Materials -> Nat]

-----------------------------------------------------------------------------
(* jl.mes.ous *)

OusStart    == Start
OusStop     == Stop
OusContinue == Continue
OusCancel   == Cancel
OusDone     == Done
OusDraft    == Draft

\* An inspection of what is not in stock yet replaces the draft ones.
OusCreateQuality ==
  LET drafts == {c \in Checks : check[c].state = "draft"}
      gone == {d \in Ins : in[d].check \in drafts}
  IN
  /\ Shown({"start", "done"}, state)
  /\ done_qty <= qty
  /\ \A d \in gone : inMoves[d] = <<>>
  /\ \E n \in Checks :
       /\ check[n].state \in {"none", "draft"}
       /\ check' = [c \in Checks |->
            IF c = n THEN [NoCheck EXCEPT !.state = "draft", !.qty = qty - buy_qty]
            ELSE IF c \in drafts THEN NoCheck ELSE check[c]]
  /\ in' = [d \in Ins |-> IF d \in gone THEN NoIn ELSE in[d]]
  /\ UNCHANGED <<orderVars, pickVars, refundVars, inMoves>>

MesOusRefund  == MesPlmRefund
MesOusPicking == MesPlmPicking

\* In a draft the lines are made anew of the bill of material, if the product
\* has one; while the order is stopped they are read-only and not saved.
OnchangeLineId(q) ==
  \/ /\ EditQty(q) /\ state # "draft"
  \/ /\ Shown({"draft"}, state)
     /\ qty' = q
     /\ \/ lines' = [m \in Materials |-> [need |-> Bom[m] * q, neck |-> 0, picked |-> 0, refunded |-> 0]]
        \/ lines' = lines
     /\ UNCHANGED <<state, done_qty, buy_qty, pickVars, refundVars, check, inVars>>

OusEditDoneQty(q) == EditDoneQty(q)
OusEditNeed(m, q) == EditNeed(m, q)

-----------------------------------------------------------------------------
(* jl.mes.ous.picking, jl.mes.ous.refund *)

MutOusPickDone(p) ==
  /\ Shown({"draft"}, pick[p].state)
  /\ Placed(pick[p])
  /\ lines' = [m \in Materials |-> [lines[m] EXCEPT !.neck = @ - pick[p].lines[m].qty]]
  /\ pickMoves' = [pickMoves EXCEPT ![p] = Append(@, Amount(pick[p]))]
  /\ pick' = [pick EXCEPT ![p].state = "done"]
  /\ UNCHANGED <<state, qty, done_qty, buy_qty, refundVars, check, inVars>>
OusPickDone(p) == PickDone(p)
OusPickDraft(p) == PickDraft(p)
OusPickCancel(p) == PickCancel(p)
OusEditPickLine(p, m, q) == EditPickLine(p, m, q)
OusRemovePickLine(p, m) == RemovePickLine(p, m)

\* It fails when it writes the move, whatever the refund says: rolled back.
OusRefundDone(r) ==
  /\ refund[r].state # "none" /\ Shown({"draft"}, refund[r].state)
  /\ UNCHANGED vars
OusRefundCancel(r) == RefundCancel(r)
OusEditRefundLine(r, m, q) == EditRefundLine(r, m, q)
OusRemoveRefundLine(r, m) == RemoveRefundLine(r, m)

-----------------------------------------------------------------------------
(* jl.ous.quality, jl.mes.ous.in *)

OusQualityDone(c) == QualityDone(c)
MutOusQualityDraft(c) ==
  /\ Shown({"done"}, check[c].state)
  /\ in' = [d \in Ins |-> IF in[d].check = c /\ in[d].state = "draft" THEN NoIn ELSE in[d]]
  /\ check' = [check EXCEPT ![c].state = "draft"]
  /\ UNCHANGED <<orderVars, pickVars, refundVars, inMoves>>
OusQualityDraft(c) == QualityDraft(c)
OusQualityCancel(c) == QualityCancel(c)
OusEditQualified(c, q) == EditQualified(c, q)

OusInDone(d) == InDone(d)
OusInDraft(d) == InDraft(d)
OusInCancel(d) == InCancel(d)
OusEditIn(d, q) == EditIn(d, q)

-----------------------------------------------------------------------------
OusNext ==
  \/ OusStart \/ OusStop \/ OusContinue \/ OusCancel \/ OusDone \/ OusDraft
  \/ OusCreateQuality \/ MesOusRefund \/ MesOusPicking
  \/ \E q \in Amounts : OnchangeLineId(q) \/ OusEditDoneQty(q)
  \/ \E m \in Materials, q \in Amounts : OusEditNeed(m, q)
  \/ \E p \in Picks :
       \/ OusPickDone(p) \/ OusPickDraft(p) \/ OusPickCancel(p)
       \/ \E m \in Materials, q \in Quantities : OusEditPickLine(p, m, q)
       \/ \E m \in Materials : OusRemovePickLine(p, m)
  \/ \E r \in Refunds :
       \/ OusRefundDone(r) \/ OusRefundCancel(r)
       \/ \E m \in Materials, q \in Quantities : OusEditRefundLine(r, m, q)
       \/ \E m \in Materials : OusRemoveRefundLine(r, m)
  \/ \E c \in Checks :
       \/ OusQualityDone(c) \/ OusQualityDraft(c) \/ OusQualityCancel(c)
       \/ \E q \in Qualities : OusEditQualified(c, q)
  \/ \E d \in Ins :
       \/ OusInDone(d) \/ OusInDraft(d) \/ OusInCancel(d)
       \/ \E q \in Quantities : OusEditIn(d, q)

OusSpec == Init /\ [][OusNext]_vars

=============================================================================
