-------------------------- MODULE ProductionProofs --------------------------
(***************************************************************************)
(* Proofs about production orders and outsourced orders, for every set of  *)
(* materials, documents and quantities.  An action of either order is a    *)
(* step of AnyNext, and every invariant is proved for that relation.       *)
(***************************************************************************)
EXTENDS Outsourcing, SumsProofs

-----------------------------------------------------------------------------
(* The actions by the document they are about. *)

OrderAct ==
  \/ Start \/ Stop \/ Continue \/ Cancel \/ Done \/ Draft
  \/ MesPlmRefund \/ MesPlmPicking
  \/ \E q \in Amounts : EditQty(q) \/ EditDoneQty(q) \/ OnchangeLineId(q)
  \/ \E m \in Materials, q \in Amounts : EditNeed(m, q)

PickAct(p) ==
  \/ PickDone(p) \/ PickDraft(p) \/ PickCancel(p)
  \/ \E m \in Materials, q \in Quantities : EditPickLine(p, m, q)
  \/ \E m \in Materials : RemovePickLine(p, m)

RefundAct(r) ==
  \/ RefundDone(r) \/ RefundDraft(r) \/ RefundCancel(r)
  \/ \E m \in Materials, q \in Quantities : EditRefundLine(r, m, q)
  \/ \E m \in Materials : RemoveRefundLine(r, m)

\* An inspection of an outsourced order is made with one guard less.
CheckAct ==
  \/ OusCreateQuality
  \/ \E c \in Checks :
       \/ QualityDone(c) \/ QualityDraft(c) \/ QualityCancel(c)
       \/ \E q \in Qualities : EditQualified(c, q)

InAct(d) ==
  \/ InDone(d) \/ InDraft(d) \/ InCancel(d)
  \/ \E q \in Quantities : EditIn(d, q)

AnyNext ==
  \/ OrderAct \/ CheckAct
  \/ \E p \in Picks : PickAct(p)
  \/ \E r \in Refunds : RefundAct(r)
  \/ \E d \in Ins : InAct(d)

LEMMA ProductionStep ==
  ASSUME [Next]_vars
  PROVE  [AnyNext]_vars
<1>1. CreateQuality => OusCreateQuality
  BY DEF CreateQuality, OusCreateQuality
<1> QED BY <1>1 DEF Next, AnyNext, OrderAct, PickAct, RefundAct, CheckAct, InAct

LEMMA OutsourcedStep ==
  ASSUME [OusNext]_vars
  PROVE  [AnyNext]_vars
<1>1. \A r \in Refunds : OusRefundDone(r) => UNCHANGED vars
  BY DEF OusRefundDone
<1> QED
  BY <1>1 DEF OusNext, AnyNext, OrderAct, PickAct, RefundAct, CheckAct, InAct,
       OusStart, OusStop, OusContinue, OusCancel, OusDone, OusDraft, MesOusRefund, MesOusPicking,
       OusEditDoneQty, OusEditNeed, OusPickDone, OusPickDraft, OusPickCancel, OusEditPickLine,
       OusRemovePickLine, OusRefundCancel, OusEditRefundLine, OusRemoveRefundLine,
       OusQualityDone, OusQualityDraft, OusQualityCancel, OusEditQualified,
       OusInDone, OusInDraft, OusInCancel, OusEditIn

-----------------------------------------------------------------------------
(* Types. *)

CheckRow == [state : DocStates, qty : Int, qualified : Nat, in_qty : Int]
InRow == [state : DocStates, qty : Nat, check : Checks \cup {NoCheckId}]
Counters == [need : Nat, neck : Int, picked : Int, refunded : Int]

OrderOK ==
  /\ state \in {"draft", "start", "stop", "done", "cancel"}
  /\ qty \in Nat /\ done_qty \in Nat /\ buy_qty \in Int
  /\ lines \in [Materials -> Counters]
PicksOK == pick \in [Picks -> Sheet] /\ pickMoves \in [Picks -> Seq([Materials -> Nat])]
RefundsOK == refund \in [Refunds -> Sheet] /\ refundMoves \in [Refunds -> Seq([Materials -> Nat])]
ChecksOK == check \in [Checks -> CheckRow]
InsOK ==
  /\ in \in [Ins -> InRow]
  /\ inMoves \in [Ins -> Seq(Nat)]

\* A stock-in has its inspection.
InHasCheck == \A d \in Ins : in[d].state # "none" => in[d].check \in Checks

TInv == OrderOK /\ PicksOK /\ RefundsOK /\ ChecksOK /\ InsOK /\ InHasCheck

LEMMA SheetTypes ==
  /\ Absent \in Line /\ << >> \in Seq([Materials -> Nat]) /\ << >> \in Seq(Nat)
  /\ NoSheet \in Sheet /\ NoSheet.state = "none"
  /\ NoCheck \in CheckRow
  /\ NoIn \in InRow /\ NoIn.state = "none"
BY DEF Absent, Line, NoSheet, Sheet, DocStates, NoCheck, NoIn, CheckRow, InRow

LEMMA NewSheetType ==
  ASSUME NEW S \in SUBSET Materials, NEW amount, \A m \in S : amount[m] \in Nat
  PROVE  NewSheet(S, amount) \in Sheet /\ NewSheet(S, amount).state = "draft"
BY DEF NewSheet, Sheet, Line, Absent, DocStates

LEMMA CountersType ==
  ASSUME NEW c \in Counters, NEW a \in Int, NEW b \in Int
  PROVE  /\ [c EXCEPT !.neck = a, !.picked = b] \in Counters
         /\ [c EXCEPT !.neck = a] \in Counters
         /\ [c EXCEPT !.refunded = a] \in Counters
BY DEF Counters

LEMMA SheetEdits ==
  ASSUME NEW s \in Sheet
  PROVE  /\ \A to \in DocStates : [s EXCEPT !.state = to] \in Sheet
         /\ \A m \in Materials, S \in SUBSET Materials, l \in Line : [s EXCEPT !.mats = S, !.lines[m] = l] \in Sheet
         /\ \A m \in Materials, l \in Line : [s EXCEPT !.lines[m] = l] \in Sheet
         /\ \A m \in Materials : s.lines[m] \in Line /\ s.lines[m].qty \in Nat
         /\ Amount(s) \in [Materials -> Nat]
<1>1. \A to \in DocStates : [s EXCEPT !.state = to] \in Sheet
  BY DEF Sheet
<1>2. \A m \in Materials, S \in SUBSET Materials, l \in Line : [s EXCEPT !.mats = S, !.lines[m] = l] \in Sheet
  BY DEF Sheet
<1>3. \A m \in Materials, l \in Line : [s EXCEPT !.lines[m] = l] \in Sheet
  BY DEF Sheet
<1>4. \A m \in Materials : s.lines[m] \in Line /\ s.lines[m].qty \in Nat
  BY DEF Sheet, Line
<1>5. Amount(s) \in [Materials -> Nat]
  BY <1>4 DEF Amount
<1> QED BY <1>1, <1>2, <1>3, <1>4, <1>5

LEMMA RowEdits ==
  /\ \A c \in CheckRow, n \in Int : [c EXCEPT !.state = "draft", !.qty = n] \in CheckRow
  /\ \A c \in CheckRow, n \in Int : [c EXCEPT !.in_qty = n] \in CheckRow
  /\ \A c \in CheckRow, n \in Nat : [c EXCEPT !.qualified = n] \in CheckRow
  /\ \A c \in CheckRow, to \in DocStates : [c EXCEPT !.state = to] \in CheckRow
  /\ \A i \in InRow, to \in DocStates : [i EXCEPT !.state = to] \in InRow /\ [i EXCEPT !.state = to].check = i.check
  /\ \A i \in InRow, n \in Nat :
       /\ [i EXCEPT !.qty = n] \in InRow
       /\ [i EXCEPT !.qty = n].check = i.check /\ [i EXCEPT !.qty = n].state = i.state
<1>1. \A c \in CheckRow, n \in Int : [c EXCEPT !.state = "draft", !.qty = n] \in CheckRow
  BY DEF CheckRow, DocStates
<1>2. \A c \in CheckRow, n \in Int : [c EXCEPT !.in_qty = n] \in CheckRow
  BY DEF CheckRow
<1>3. \A c \in CheckRow, n \in Nat : [c EXCEPT !.qualified = n] \in CheckRow
  BY DEF CheckRow
<1>4. \A c \in CheckRow, to \in DocStates : [c EXCEPT !.state = to] \in CheckRow
  BY DEF CheckRow
<1>5. \A i \in InRow, to \in DocStates : [i EXCEPT !.state = to] \in InRow /\ [i EXCEPT !.state = to].check = i.check
  BY DEF InRow
<1>6. \A i \in InRow, n \in Nat :
       /\ [i EXCEPT !.qty = n] \in InRow
       /\ [i EXCEPT !.qty = n].check = i.check /\ [i EXCEPT !.qty = n].state = i.state
  BY DEF InRow
<1> QED BY <1>1, <1>2, <1>3, <1>4, <1>5, <1>6

LEMMA TypeInit == Init => TInv
<1> SUFFICES ASSUME Init PROVE TInv
  OBVIOUS
<1>1. OrderOK
  BY QuantitiesAssumption DEF Init, OrderOK, Counters
<1>2. PicksOK /\ RefundsOK /\ ChecksOK /\ InsOK /\ InHasCheck
  BY SheetTypes DEF Init, PicksOK, RefundsOK, ChecksOK, InsOK, InHasCheck
<1> QED BY <1>1, <1>2 DEF TInv

LEMMA TypeOrder ==
  ASSUME TInv, OrderAct
  PROVE  TInv'
<1> USE DEF TInv, pickVars, refundVars, inVars, orderVars
<1>f. /\ UNCHANGED pickVars => PicksOK'
      /\ UNCHANGED refundVars => RefundsOK'
      /\ UNCHANGED check => ChecksOK'
      /\ UNCHANGED inVars => InsOK' /\ InHasCheck'
  BY DEF PicksOK, RefundsOK, ChecksOK, InsOK, InHasCheck
<1>1. CASE Start
  <2>1. OrderOK'
    <3>1. ASSUME NEW m \in Materials PROVE [lines[m] EXCEPT !.neck = lines[m].need] \in Counters
      <4>1. lines[m] \in Counters /\ lines[m].need \in Int
        BY DEF OrderOK, Counters
      <4> QED BY <4>1, CountersType
    <3> QED BY <1>1, <3>1 DEF Start, OrderOK
  <2>2. PicksOK'
    <3>1. NewSheet(Materials, Need) \in Sheet
      BY NewSheetType DEF Need, OrderOK, Counters
    <3> QED BY <1>1, <3>1 DEF Start, PicksOK
  <2> QED BY <1>1, <1>f, <2>1, <2>2 DEF Start
<1>2. CASE Stop \/ Continue \/ Cancel \/ Done
  <2>1. OrderOK' /\ UNCHANGED <<pickVars, refundVars, check, inVars>>
    BY <1>2 DEF Stop, Continue, Cancel, Done, SetState, OrderOK
  <2> QED BY <1>f, <2>1
<1>3. CASE Draft
  <2>1. OrderOK'
    BY <1>3 DEF Draft, OrderOK
  <2>2. PicksOK' /\ RefundsOK' /\ ChecksOK'
    BY <1>3, SheetTypes DEF Draft, PicksOK, RefundsOK, ChecksOK
  <2>3. \A d \in Ins : in'[d] = NoIn \/ in'[d] = in[d]
    BY <1>3 DEF Draft
  <2>4. in' = [d \in Ins |-> in'[d]] /\ inMoves' = inMoves
    BY <1>3 DEF Draft
  <2>5. InsOK' /\ InHasCheck'
    BY <2>3, <2>4, SheetTypes DEF InsOK, InHasCheck
  <2> QED BY <2>1, <2>2, <2>5
<1>4. CASE MesPlmRefund
  <2>1. NewSheet(Materials, Need) \in Sheet
    BY NewSheetType DEF Need, OrderOK, Counters
  <2>2. RefundsOK' /\ OrderOK'
    BY <1>4, <2>1 DEF MesPlmRefund, RefundsOK, OrderOK
  <2> QED BY <1>4, <1>f, <2>2 DEF MesPlmRefund
<1>5. CASE MesPlmPicking
  <2> DEFINE open == {m \in Materials : lines[m].neck > 0}
             new == NewSheet(open, Neck)
  <2>1. new \in Sheet
    BY NewSheetType DEF Neck, OrderOK, Counters
  <2>2. PicksOK' /\ OrderOK'
    <3> HIDE DEF new
    <3> QED BY <1>5, <2>1, SheetTypes DEF MesPlmPicking, PicksOK, OrderOK, new
  <2> QED BY <1>5, <1>f, <2>2 DEF MesPlmPicking
<1>6. ASSUME NEW q \in Amounts, EditQty(q) \/ EditDoneQty(q)
      PROVE  TInv'
  <2>1. OrderOK' /\ UNCHANGED <<pickVars, refundVars, check, inVars>>
    BY <1>6, QuantitiesAssumption DEF EditQty, EditDoneQty, OrderOK
  <2> QED BY <1>f, <2>1
<1>7. ASSUME NEW q \in Amounts, OnchangeLineId(q)
      PROVE  TInv'
  <2>1. CASE EditQty(q)
    BY <1>6, <2>1
  <2>2. CASE ~EditQty(q)
    <3>1. \A m \in Materials : Bom[m] * q \in Nat
      BY BomAssumption, QuantitiesAssumption
    <3>2. OrderOK' /\ UNCHANGED <<pickVars, refundVars, check, inVars>>
      BY <1>7, <2>2, <3>1, QuantitiesAssumption DEF OnchangeLineId, OrderOK, Counters
    <3> QED BY <1>f, <3>2
  <2> QED BY <2>1, <2>2
<1>8. ASSUME NEW m \in Materials, NEW q \in Amounts, EditNeed(m, q)
      PROVE  TInv'
  <2>1. OrderOK' /\ UNCHANGED <<pickVars, refundVars, check, inVars>>
    BY <1>8, QuantitiesAssumption DEF EditNeed, OrderOK, Counters
  <2> QED BY <1>f, <2>1
<1> QED BY <1>1, <1>2, <1>3, <1>4, <1>5, <1>6, <1>7, <1>8 DEF OrderAct

LEMMA TypePick ==
  ASSUME TInv, NEW p \in Picks, PickAct(p)
  PROVE  TInv'
<1> USE DEF TInv, refundVars, inVars, orderVars
<1>s. /\ pick[p] \in Sheet /\ pick \in [Picks -> Sheet] /\ pickMoves \in [Picks -> Seq([Materials -> Nat])]
      /\ lines \in [Materials -> Counters]
  BY DEF PicksOK, OrderOK
<1>t. \A m \in Materials : /\ pick[p].lines[m].qty \in Nat
                           /\ lines[m].neck \in Int /\ lines[m].picked \in Int
  BY <1>s, SheetEdits DEF Counters
<1>a. Amount(pick[p]) \in [Materials -> Nat]
  BY <1>s, SheetEdits
<1>f. UNCHANGED <<refundVars, check, inVars>> => RefundsOK' /\ ChecksOK' /\ InsOK' /\ InHasCheck'
  BY DEF RefundsOK, ChecksOK, InsOK, InHasCheck
<1>o. lines' \in [Materials -> Counters] /\ UNCHANGED <<state, qty, done_qty, buy_qty>> => OrderOK'
  BY DEF OrderOK
<1>1. CASE PickDone(p)
  <2> DEFINE new == [m \in Materials |->
        [lines[m] EXCEPT !.neck = lines[m].neck - pick[p].lines[m].qty,
                         !.picked = lines[m].picked + pick[p].lines[m].qty]]
  <2>1. new \in [Materials -> Counters]
    <3>1. ASSUME NEW m \in Materials PROVE new[m] \in Counters
      <4>1. lines[m] \in Counters /\ lines[m].neck - pick[p].lines[m].qty \in Int /\ lines[m].picked + pick[p].lines[m].qty \in Int
        BY <1>s, <1>t
      <4> QED BY <4>1, CountersType
    <3> QED BY <3>1
  <2>2. lines' = new
    BY <1>1 DEF PickDone
  <2>3. lines' \in [Materials -> Counters]
    BY <2>1, <2>2
  <2>4. [pick[p] EXCEPT !.state = "done"] \in Sheet
    BY <1>s, SheetEdits DEF DocStates
  <2>5. pick' = [pick EXCEPT ![p] = [pick[p] EXCEPT !.state = "done"]]
    BY <1>1 DEF PickDone
  <2>6. Append(pickMoves[p], Amount(pick[p])) \in Seq([Materials -> Nat])
    BY <1>s, <1>a
  <2>7. pickMoves' = [pickMoves EXCEPT ![p] = Append(pickMoves[p], Amount(pick[p]))]
    BY <1>1 DEF PickDone
  <2>8. PicksOK'
    BY <1>s, <2>4, <2>5, <2>6, <2>7 DEF PicksOK
  <2> QED BY <1>1, <1>f, <1>o, <2>3, <2>8 DEF PickDone
<1>2. CASE PickDraft(p)
  <2> DEFINE new == [m \in Materials |->
        [lines[m] EXCEPT !.neck = lines[m].neck + pick[p].lines[m].qty,
                         !.picked = lines[m].picked - pick[p].lines[m].qty]]
  <2>1. new \in [Materials -> Counters]
    <3>1. ASSUME NEW m \in Materials PROVE new[m] \in Counters
      <4>1. lines[m] \in Counters /\ lines[m].neck + pick[p].lines[m].qty \in Int /\ lines[m].picked - pick[p].lines[m].qty \in Int
        BY <1>s, <1>t
      <4> QED BY <4>1, CountersType
    <3> QED BY <3>1
  <2>2. lines' = new
    BY <1>2 DEF PickDraft
  <2>3. lines' \in [Materials -> Counters]
    BY <2>1, <2>2
  <2>4. [pick[p] EXCEPT !.state = "draft"] \in Sheet
    BY <1>s, SheetEdits DEF DocStates
  <2>5. pick' = [pick EXCEPT ![p] = [pick[p] EXCEPT !.state = "draft"]]
    BY <1>2 DEF PickDraft
  <2>6. pickMoves' = [pickMoves EXCEPT ![p] = << >>]
    BY <1>2 DEF PickDraft
  <2>7. PicksOK'
    BY <1>s, <2>4, <2>5, <2>6, SheetTypes DEF PicksOK
  <2> QED BY <1>2, <1>f, <1>o, <2>3, <2>7 DEF PickDraft
<1>3. CASE \/ PickCancel(p)
           \/ \E m \in Materials, q \in Quantities : EditPickLine(p, m, q)
           \/ \E m \in Materials : RemovePickLine(p, m)
  <2>1. UNCHANGED <<orderVars, pickMoves, refundVars, check, inVars>>
    BY <1>3 DEF PickCancel, EditPickLine, RemovePickLine
  <2>2. \E sheet \in Sheet : pick' = [pick EXCEPT ![p] = sheet]
    <3>1. CASE PickCancel(p)
      <4>1. [pick[p] EXCEPT !.state = "cancel"] \in Sheet
        BY <1>s, SheetEdits DEF DocStates
      <4>2. pick' = [pick EXCEPT ![p] = [pick[p] EXCEPT !.state = "cancel"]]
        BY <3>1 DEF PickCancel
      <4> QED BY <4>1, <4>2
    <3>2. ASSUME NEW m \in Materials, NEW q \in Quantities, EditPickLine(p, m, q)
          PROVE  \E sheet \in Sheet : pick' = [pick EXCEPT ![p] = sheet]
      <4>1. [qty |-> q, placed |-> TRUE] \in Line
        BY QuantitiesAssumption DEF Line
      <4>2. pick' = [pick EXCEPT ![p] = [pick[p] EXCEPT !.lines[m] = [qty |-> q, placed |-> TRUE]]]
        BY <3>2 DEF EditPickLine
      <4> QED BY <1>s, <4>1, <4>2, SheetEdits
    <3>3. ASSUME NEW m \in Materials, RemovePickLine(p, m)
          PROVE  \E sheet \in Sheet : pick' = [pick EXCEPT ![p] = sheet]
      <4>1. pick[p].mats \ {m} \in SUBSET Materials
        BY <1>s DEF Sheet
      <4>2. pick' = [pick EXCEPT ![p] = [pick[p] EXCEPT !.mats = pick[p].mats \ {m}, !.lines[m] = Absent]]
        BY <3>3 DEF RemovePickLine
      <4> QED BY <1>s, <4>1, <4>2, SheetEdits, SheetTypes
    <3> QED BY <1>3, <3>1, <3>2, <3>3
  <2>3. PicksOK'
    BY <1>s, <2>1, <2>2 DEF PicksOK
  <2> QED BY <1>f, <1>o, <1>s, <2>1, <2>3
<1> QED BY <1>1, <1>2, <1>3 DEF PickAct

LEMMA TypeRefund ==
  ASSUME TInv, NEW r \in Refunds, RefundAct(r)
  PROVE  TInv'
<1> USE DEF TInv, pickVars, inVars, orderVars
<1>s. /\ refund[r] \in Sheet /\ refund \in [Refunds -> Sheet] /\ refundMoves \in [Refunds -> Seq([Materials -> Nat])]
      /\ lines \in [Materials -> Counters]
  BY DEF RefundsOK, OrderOK
<1>t. \A m \in Materials : refund[r].lines[m].qty \in Nat /\ lines[m].refunded \in Int
  BY <1>s, SheetEdits DEF Counters
<1>a. Amount(refund[r]) \in [Materials -> Nat]
  BY <1>s, SheetEdits
<1>f. UNCHANGED <<pickVars, check, inVars>> => PicksOK' /\ ChecksOK' /\ InsOK' /\ InHasCheck'
  BY DEF PicksOK, ChecksOK, InsOK, InHasCheck
<1>o. lines' \in [Materials -> Counters] /\ UNCHANGED <<state, qty, done_qty, buy_qty>> => OrderOK'
  BY DEF OrderOK
<1>1. CASE RefundDone(r)
  <2> DEFINE new == [m \in Materials |->
        [lines[m] EXCEPT !.refunded = lines[m].refunded + refund[r].lines[m].qty]]
  <2>1. new \in [Materials -> Counters]
    <3>1. ASSUME NEW m \in Materials PROVE new[m] \in Counters
      <4>1. lines[m] \in Counters /\ lines[m].refunded + refund[r].lines[m].qty \in Int
        BY <1>s, <1>t
      <4> QED BY <4>1, CountersType
    <3> QED BY <3>1
  <2>2. lines' = new
    BY <1>1 DEF RefundDone
  <2>3. lines' \in [Materials -> Counters]
    BY <2>1, <2>2
  <2>4. [refund[r] EXCEPT !.state = "done"] \in Sheet
    BY <1>s, SheetEdits DEF DocStates
  <2>5. refund' = [refund EXCEPT ![r] = [refund[r] EXCEPT !.state = "done"]]
    BY <1>1 DEF RefundDone
  <2>6. Append(refundMoves[r], Amount(refund[r])) \in Seq([Materials -> Nat])
    BY <1>s, <1>a
  <2>7. refundMoves' = [refundMoves EXCEPT ![r] = Append(refundMoves[r], Amount(refund[r]))]
    BY <1>1 DEF RefundDone
  <2>8. RefundsOK'
    BY <1>s, <2>4, <2>5, <2>6, <2>7 DEF RefundsOK
  <2> QED BY <1>1, <1>f, <1>o, <2>3, <2>8 DEF RefundDone
<1>2. CASE RefundDraft(r)
  <2> DEFINE new == [m \in Materials |->
        [lines[m] EXCEPT !.refunded = lines[m].refunded - refund[r].lines[m].qty]]
  <2>1. new \in [Materials -> Counters]
    <3>1. ASSUME NEW m \in Materials PROVE new[m] \in Counters
      <4>1. lines[m] \in Counters /\ lines[m].refunded - refund[r].lines[m].qty \in Int
        BY <1>s, <1>t
      <4> QED BY <4>1, CountersType
    <3> QED BY <3>1
  <2>2. lines' = new
    BY <1>2 DEF RefundDraft
  <2>3. lines' \in [Materials -> Counters]
    BY <2>1, <2>2
  <2>4. [refund[r] EXCEPT !.state = "draft"] \in Sheet
    BY <1>s, SheetEdits DEF DocStates
  <2>5. refund' = [refund EXCEPT ![r] = [refund[r] EXCEPT !.state = "draft"]]
    BY <1>2 DEF RefundDraft
  <2>6. refundMoves' = [refundMoves EXCEPT ![r] = << >>]
    BY <1>2 DEF RefundDraft
  <2>7. RefundsOK'
    BY <1>s, <2>4, <2>5, <2>6, SheetTypes DEF RefundsOK
  <2> QED BY <1>2, <1>f, <1>o, <2>3, <2>7 DEF RefundDraft
<1>3. CASE \/ RefundCancel(r)
           \/ \E m \in Materials, q \in Quantities : EditRefundLine(r, m, q)
           \/ \E m \in Materials : RemoveRefundLine(r, m)
  <2>1. UNCHANGED <<orderVars, pickVars, refundMoves, check, inVars>>
    BY <1>3 DEF RefundCancel, EditRefundLine, RemoveRefundLine
  <2>2. \E sheet \in Sheet : refund' = [refund EXCEPT ![r] = sheet]
    <3>1. CASE RefundCancel(r)
      <4>1. [refund[r] EXCEPT !.state = "cancel"] \in Sheet
        BY <1>s, SheetEdits DEF DocStates
      <4>2. refund' = [refund EXCEPT ![r] = [refund[r] EXCEPT !.state = "cancel"]]
        BY <3>1 DEF RefundCancel
      <4> QED BY <4>1, <4>2
    <3>2. ASSUME NEW m \in Materials, NEW q \in Quantities, EditRefundLine(r, m, q)
          PROVE  \E sheet \in Sheet : refund' = [refund EXCEPT ![r] = sheet]
      <4>1. [qty |-> q, placed |-> TRUE] \in Line
        BY QuantitiesAssumption DEF Line
      <4>2. refund' = [refund EXCEPT ![r] = [refund[r] EXCEPT !.lines[m] = [qty |-> q, placed |-> TRUE]]]
        BY <3>2 DEF EditRefundLine
      <4> QED BY <1>s, <4>1, <4>2, SheetEdits
    <3>3. ASSUME NEW m \in Materials, RemoveRefundLine(r, m)
          PROVE  \E sheet \in Sheet : refund' = [refund EXCEPT ![r] = sheet]
      <4>1. refund[r].mats \ {m} \in SUBSET Materials
        BY <1>s DEF Sheet
      <4>2. refund' = [refund EXCEPT ![r] = [refund[r] EXCEPT !.mats = refund[r].mats \ {m}, !.lines[m] = Absent]]
        BY <3>3 DEF RemoveRefundLine
      <4> QED BY <1>s, <4>1, <4>2, SheetEdits, SheetTypes
    <3> QED BY <1>3, <3>1, <3>2, <3>3
  <2>3. RefundsOK'
    BY <1>s, <2>1, <2>2 DEF RefundsOK
  <2> QED BY <1>f, <1>o, <1>s, <2>1, <2>3
<1> QED BY <1>1, <1>2, <1>3 DEF RefundAct

LEMMA TypeCheck ==
  ASSUME TInv, CheckAct
  PROVE  TInv'
<1> USE DEF TInv, pickVars, refundVars, orderVars
<1>s. /\ check \in [Checks -> CheckRow]
      /\ in \in [Ins -> InRow]
  BY DEF ChecksOK, InsOK
<1>f. UNCHANGED <<orderVars, pickVars, refundVars>> => OrderOK' /\ PicksOK' /\ RefundsOK'
  BY DEF OrderOK, PicksOK, RefundsOK
<1>d. {"none", "draft", "done", "cancel"} = DocStates
  BY DEF DocStates
<1>1. CASE OusCreateQuality
  <2>0. buy_qty \in Int /\ qty \in Nat
    BY DEF OrderOK
  <2> DEFINE new == [NoCheck EXCEPT !.state = "draft", !.qty = qty - buy_qty]
  <2>1. new \in CheckRow
    <3>1. NoCheck \in CheckRow /\ qty - buy_qty \in Int
      BY <2>0, SheetTypes
    <3> QED BY <3>1, RowEdits
  <2>2. \A c \in Checks : check'[c] \in {new, NoCheck, check[c]}
    <3> HIDE DEF new
    <3> QED BY <1>1 DEF OusCreateQuality, new
  <2>3. check' = [c \in Checks |-> check'[c]]
    BY <1>1 DEF OusCreateQuality
  <2>4. ChecksOK'
    <3> HIDE DEF new
    <3>1. \A c \in Checks : check'[c] \in CheckRow
      BY <1>s, <2>1, <2>2, SheetTypes
    <3> QED BY <2>3, <3>1 DEF ChecksOK
  <2>5. \A d \in Ins : in'[d] = NoIn \/ in'[d] = in[d]
    BY <1>1 DEF OusCreateQuality
  <2>6. in' = [d \in Ins |-> in'[d]] /\ inMoves' = inMoves
    BY <1>1 DEF OusCreateQuality
  <2>7. InsOK' /\ InHasCheck'
    BY <2>5, <2>6, SheetTypes DEF InsOK, InHasCheck
  <2> QED BY <1>1, <1>f, <2>4, <2>7 DEF OusCreateQuality
<1>2. ASSUME NEW c \in Checks, QualityDone(c)
      PROVE  TInv'
  <2>1. ChecksOK'
    BY <1>2, <1>s, <1>d, RowEdits DEF QualityDone, ChecksOK
  <2>2. InsOK' /\ InHasCheck'
    BY <1>2, <1>s, <1>d DEF QualityDone, InsOK, InHasCheck, InRow, CheckRow
  <2> QED BY <1>2, <1>f, <2>1, <2>2 DEF QualityDone
<1>3. ASSUME NEW c \in Checks, QualityDraft(c)
      PROVE  TInv'
  <2>1. ChecksOK'
    BY <1>3, <1>s, <1>d, RowEdits DEF QualityDraft, ChecksOK
  <2>2. \A d \in Ins : in'[d] = NoIn \/ in'[d] = in[d]
    BY <1>3 DEF QualityDraft
  <2>3. in' = [d \in Ins |-> in'[d]] /\ inMoves' = inMoves
    BY <1>3 DEF QualityDraft
  <2>4. InsOK' /\ InHasCheck'
    BY <2>2, <2>3, SheetTypes DEF InsOK, InHasCheck
  <2> QED BY <1>3, <1>f, <2>1, <2>4 DEF QualityDraft
<1>4. ASSUME NEW c \in Checks, QualityCancel(c) \/ \E q \in Qualities : EditQualified(c, q)
      PROVE  TInv'
  <2>1. UNCHANGED <<orderVars, pickVars, refundVars, inVars>>
    BY <1>4 DEF QualityCancel, EditQualified
  <2>2. ChecksOK'
    <3>1. CASE QualityCancel(c)
      <4>1. check' = [check EXCEPT ![c] = [check[c] EXCEPT !.state = "cancel"]]
        BY <3>1 DEF QualityCancel
      <4>2. [check[c] EXCEPT !.state = "cancel"] \in CheckRow
        BY <1>s, <1>d, RowEdits
      <4> QED BY <1>s, <4>1, <4>2 DEF ChecksOK
    <3>2. ASSUME NEW q \in Qualities, EditQualified(c, q)
          PROVE  ChecksOK'
      <4>1. check' = [check EXCEPT ![c] = [check[c] EXCEPT !.qualified = q]]
        BY <3>2 DEF EditQualified
      <4>2. [check[c] EXCEPT !.qualified = q] \in CheckRow
        BY <1>s, RowEdits, QuantitiesAssumption
      <4> QED BY <1>s, <4>1, <4>2 DEF ChecksOK
    <3> QED BY <1>4, <3>1, <3>2
  <2> QED BY <1>f, <2>1, <2>2 DEF inVars, InsOK, InHasCheck
<1> QED BY <1>1, <1>2, <1>3, <1>4 DEF CheckAct

\* What the confirmation and the undo of a stock-in do to the rows.
LEMMA InDoneShape ==
  ASSUME TInv, NEW d \in Ins, InDone(d)
  PROVE  /\ in[d].check \in Checks
         /\ \E rest \in [state : {"draft"}, qty : Nat, check : {in[d].check}] :
              \/ in' = [in EXCEPT ![d].state = "done"]
              \/ \E n \in Ins : in[n].state = "none" /\ in' = [[in EXCEPT ![d].state = "done"] EXCEPT ![n] = rest]
<1> DEFINE c == in[d].check
           total == check[c].in_qty + in[d].qty
           rest == [state |-> "draft", qty |-> check[c].qty - total, check |-> c]
           any == [state |-> "draft", qty |-> 0, check |-> c]
<1>1. c \in Checks
  BY DEF InDone, TInv, InHasCheck
<1>2. in[d].qty \in Nat /\ check[c].in_qty \in Int /\ check[c].qty \in Int
  BY <1>1 DEF TInv, InsOK, ChecksOK, InRow, CheckRow
<1>3. total <= check[c].qty
  BY <1>2 DEF InDone, CanStock
<1>4. check[c].qty - total \in Nat
  BY <1>2, <1>3
<1>5. rest \in [state : {"draft"}, qty : Nat, check : {c}] /\ any \in [state : {"draft"}, qty : Nat, check : {c}]
  BY <1>4
<1>6. \/ in' = [in EXCEPT ![d].state = "done"]
      \/ \E n \in Ins : in[n].state = "none" /\ in' = [[in EXCEPT ![d].state = "done"] EXCEPT ![n] = rest]
  BY DEF InDone
<1> HIDE DEF rest, any
<1> QED BY <1>1, <1>5, <1>6

LEMMA TypeIn ==
  ASSUME TInv, NEW d \in Ins, InAct(d)
  PROVE  TInv'
<1> USE DEF TInv, pickVars, refundVars
<1>s. /\ check \in [Checks -> CheckRow]
      /\ in \in [Ins -> InRow]
      /\ inMoves \in [Ins -> Seq(Nat)]
  BY DEF ChecksOK, InsOK
<1>f. UNCHANGED <<pickVars, refundVars>> => PicksOK' /\ RefundsOK'
  BY DEF PicksOK, RefundsOK
<1>o. UNCHANGED <<state, qty, done_qty, lines>> /\ buy_qty' \in Int => OrderOK'
  BY DEF OrderOK
<1>b. buy_qty \in Int /\ in[d].qty \in Nat
  BY <1>s DEF OrderOK, InRow
<1>d. {"none", "draft", "done", "cancel"} = DocStates
  BY DEF DocStates
<1>1. CASE InDone(d)
  <2>1. PICK rest \in [state : {"draft"}, qty : Nat, check : {in[d].check}] :
              \/ in' = [in EXCEPT ![d].state = "done"]
              \/ \E n \in Ins : in[n].state = "none" /\ in' = [[in EXCEPT ![d].state = "done"] EXCEPT ![n] = rest]
    BY <1>1, InDoneShape
  <2>2. in[d].check \in Checks
    BY <1>1, InDoneShape
  <2>3. /\ in' \in [Ins -> InRow]
        /\ InHasCheck'
    <3>1. rest \in InRow /\ rest.state = "draft" /\ rest.check \in Checks
      BY <1>d, <2>2 DEF InRow
    <3> DEFINE mine == [in[d] EXCEPT !.state = "done"]
               row == [in EXCEPT ![d] = mine]
    <3>2. mine \in InRow /\ mine.check \in Checks
      BY <1>s, <1>d, <2>2, RowEdits
    <3>3. in' = row \/ \E n \in Ins : in' = [row EXCEPT ![n] = rest]
      BY <2>1
    <3> HIDE DEF mine
    <3>4. row \in [Ins -> InRow] /\ \A e \in Ins : row[e].state # "none" => row[e].check \in Checks
      BY <1>s, <3>2 DEF InHasCheck
    <3> HIDE DEF row
    <3> QED BY <3>1, <3>3, <3>4 DEF InHasCheck
  <2>4. Append(inMoves[d], in[d].qty) \in Seq(Nat)
    BY <1>s, <1>b
  <2>5. inMoves' = [inMoves EXCEPT ![d] = Append(inMoves[d], in[d].qty)]
    BY <1>1 DEF InDone
  <2>6. InsOK'
    BY <1>s, <2>3, <2>4, <2>5 DEF InsOK
  <2>7. check' = [check EXCEPT ![in[d].check].in_qty = check[in[d].check].in_qty + in[d].qty]
    BY <1>1 DEF InDone
  <2>8. ChecksOK'
    <3>1. check[in[d].check].in_qty + in[d].qty \in Int
      BY <1>s, <1>b, <2>2 DEF CheckRow
    <3>2. [check[in[d].check] EXCEPT !.in_qty = check[in[d].check].in_qty + in[d].qty] \in CheckRow
      BY <1>s, <2>2, <3>1, RowEdits
    <3> QED BY <1>s, <2>7, <3>2 DEF ChecksOK
  <2>9. buy_qty' \in Int /\ UNCHANGED <<state, qty, done_qty, lines, pickVars, refundVars>>
    BY <1>1, <1>b DEF InDone
  <2> QED BY <1>f, <1>o, <2>3, <2>6, <2>8, <2>9
<1>2. CASE InDraft(d)
  <2>1. in[d].check \in Checks
    BY <1>2 DEF InDraft, InHasCheck, Shown
  <2>2. /\ in' = [n \in Ins |-> in'[n]]
        /\ \A n \in Ins : in'[n] \in {NoIn, in[n], [in[n] EXCEPT !.state = "draft"]}
        /\ in'[d] = [in[d] EXCEPT !.state = "draft"]
        /\ \A n \in Ins : n # d => in'[n] \in {NoIn, in[n]}
    BY <1>2 DEF InDraft
  <2>3. \A n \in Ins : in'[n] \in InRow
    <3> TAKE n \in Ins
    <3>1. [in[n] EXCEPT !.state = "draft"] \in InRow
      BY <1>s, <1>d, RowEdits
    <3> QED BY <1>s, <2>2, <3>1, SheetTypes
  <2>4. InHasCheck'
    <3>1. in'[d].check \in Checks
      BY <1>s, <1>d, <2>1, <2>2, RowEdits
    <3> QED BY <2>2, <3>1, SheetTypes DEF InHasCheck
  <2>5. inMoves' = [inMoves EXCEPT ![d] = << >>]
    BY <1>2 DEF InDraft
  <2>6. InsOK'
    BY <1>s, <2>2, <2>3, <2>5, SheetTypes DEF InsOK
  <2>7. check' = [check EXCEPT ![in[d].check].in_qty = check[in[d].check].in_qty - in[d].qty]
    BY <1>2 DEF InDraft
  <2>8. ChecksOK'
    <3>1. check[in[d].check].in_qty - in[d].qty \in Int
      BY <1>s, <1>b, <2>1 DEF CheckRow
    <3>2. [check[in[d].check] EXCEPT !.in_qty = check[in[d].check].in_qty - in[d].qty] \in CheckRow
      BY <1>s, <2>1, <3>1, RowEdits
    <3> QED BY <1>s, <2>7, <3>2 DEF ChecksOK
  <2>9. buy_qty' \in Int /\ UNCHANGED <<state, qty, done_qty, lines, pickVars, refundVars>>
    BY <1>2, <1>b DEF InDraft
  <2> QED BY <1>f, <1>o, <2>4, <2>6, <2>8, <2>9
<1>3. CASE InCancel(d) \/ \E q \in Quantities : EditIn(d, q)
  <2>1. UNCHANGED <<orderVars, pickVars, refundVars, check, inMoves>>
    BY <1>3 DEF InCancel, EditIn
  <2>2. InsOK' /\ InHasCheck'
    <3>1. \E row \in InRow : row.check = in[d].check /\ in[d].state # "none" /\ in' = [in EXCEPT ![d] = row]
      <4>1. CASE InCancel(d)
        <5>1. in' = [in EXCEPT ![d] = [in[d] EXCEPT !.state = "cancel"]] /\ in[d].state # "none"
          BY <4>1 DEF InCancel
        <5> QED BY <1>s, <1>d, <5>1, RowEdits
      <4>2. ASSUME NEW q \in Quantities, EditIn(d, q)
            PROVE  \E row \in InRow : row.check = in[d].check /\ in[d].state # "none" /\ in' = [in EXCEPT ![d] = row]
        <5>1. in' = [in EXCEPT ![d] = [in[d] EXCEPT !.qty = q]] /\ in[d].state # "none"
          BY <4>2 DEF EditIn, Editable
        <5> QED BY <1>s, <5>1, RowEdits, QuantitiesAssumption
      <4> QED BY <1>3, <4>1, <4>2
    <3> QED BY <1>s, <2>1, <3>1 DEF InsOK, InHasCheck
  <2> QED BY <1>b, <1>f, <1>o, <2>1, <2>2 DEF ChecksOK, orderVars
<1> QED BY <1>1, <1>2, <1>3 DEF InAct

LEMMA TypeStep ==
  ASSUME TInv, [AnyNext]_vars
  PROVE  TInv'
<1>1. CASE UNCHANGED vars
  BY <1>1 DEF vars, orderVars, pickVars, refundVars, inVars, TInv, OrderOK, PicksOK, RefundsOK,
              ChecksOK, InsOK, InHasCheck
<1> QED BY <1>1, TypeOrder, TypePick, TypeRefund, TypeCheck, TypeIn DEF AnyNext

LEMMA TypesAgree == TInv => TypeOK
BY DEF TInv, TypeOK, OrderOK, PicksOK, RefundsOK, ChecksOK, InsOK, Counters, CheckRow, InRow

\* The rows and the moves of a production order keep their types, whatever old
\* forms still offer and whatever is edited late.
THEOREM TypeCorrect == Spec => []TypeOK
<1> QED BY TypeInit, ProductionStep, TypeStep, TypesAgree, PTL DEF Spec

\* So do those of an outsourced order.
THEOREM OusTypeCorrect == OusSpec => []TypeOK
<1> QED BY TypeInit, OutsourcedStep, TypeStep, TypesAgree, PTL DEF OusSpec

-----------------------------------------------------------------------------
(* What hangs on what, with forms that show the present state of their row. *)

\* A stock-in of any state, not only a confirmed one, hangs on a confirmed
\* inspection: that is why the undo of an inspection may look at drafts only.
InsHang == \A d \in Ins : in[d].state # "none" => check[in[d].check].state = "done"

Nothing ==
  /\ \A p \in Picks : pick[p].state = "none"
  /\ \A r \in Refunds : refund[r].state = "none"
  /\ \A c \in Checks : check[c].state = "none"
  /\ \A d \in Ins : in[d].state = "none"

HInv == TInv /\ InsHang /\ (~Running => Nothing)

LEMMA HangInit == Init => HInv
BY TypeInit DEF Init, HInv, InsHang, Nothing, NoSheet, NoCheck, NoIn

LEMMA HangOrder ==
  ASSUME StaleForms = FALSE, HInv, TInv', OrderAct
  PROVE  HInv'
<1> USE DEF HInv
<1>t. pick \in [Picks -> Sheet] /\ refund \in [Refunds -> Sheet]
  BY DEF TInv, PicksOK, RefundsOK
<1>1. CASE Start
  BY <1>1 DEF Shown, Start, inVars, InsHang, Running
<1>2. CASE Stop \/ Continue \/ Cancel \/ Done
  <2>1. /\ Running <=> Running'
        /\ UNCHANGED <<pick, refund, check, in>>
    BY <1>2 DEF Shown, Stop, Continue, Cancel, Done, SetState, Running, pickVars, refundVars, inVars
  <2> QED BY <2>1 DEF InsHang, Nothing
<1>3. CASE Draft
  <2>1. \A c \in Checks : check[c].state # "done"
    BY <1>3 DEF Draft, AllDraft, TInv, ChecksOK
  <2>2. \A d \in Ins : in[d].state = "none"
    BY <2>1 DEF InsHang, TInv, InHasCheck
  <2>3. Nothing'
    BY <1>3, <2>2 DEF Draft, Nothing, NoSheet, NoCheck, NoIn
  <2> QED BY <2>3 DEF InsHang, Nothing
<1>4. CASE MesPlmRefund
  <2>1. Running' /\ UNCHANGED <<check, in>>
    BY <1>4 DEF Shown, MesPlmRefund, Running, orderVars, inVars
  <2> QED BY <2>1 DEF InsHang
<1>5. CASE MesPlmPicking
  <2>1. Running' /\ UNCHANGED <<check, in>>
    BY <1>5 DEF Shown, MesPlmPicking, Running, orderVars, inVars
  <2> QED BY <2>1 DEF InsHang
<1>6. CASE \/ \E q \in Amounts : EditQty(q) \/ EditDoneQty(q) \/ OnchangeLineId(q)
           \/ \E m \in Materials, q \in Amounts : EditNeed(m, q)
  <2>1. UNCHANGED <<state, pick, refund, check, in>>
    BY <1>6 DEF EditQty, EditDoneQty, OnchangeLineId, EditNeed, pickVars, refundVars, inVars
  <2> QED BY <2>1 DEF InsHang, Nothing, Running
<1> QED BY <1>1, <1>2, <1>3, <1>4, <1>5, <1>6 DEF OrderAct

\* There is a picking, a refund, an inspection or a stock-in: the order runs.
LEMMA HangRunning ==
  ASSUME HInv, TInv', Running, UNCHANGED state, InsHang'
  PROVE  HInv'
BY DEF HInv, Running

LEMMA HangPick ==
  ASSUME StaleForms = FALSE, HInv, TInv', NEW p \in Picks, PickAct(p)
  PROVE  HInv'
<1>1. pick[p].state # "none" /\ UNCHANGED <<state, check, in>>
  BY DEF Shown, PickAct, PickDone, PickDraft, PickCancel, EditPickLine, RemovePickLine, inVars, orderVars
<1> QED BY <1>1, HangRunning DEF HInv, Nothing, InsHang

LEMMA HangRefund ==
  ASSUME StaleForms = FALSE, HInv, TInv', NEW r \in Refunds, RefundAct(r)
  PROVE  HInv'
<1>1. refund[r].state # "none" /\ UNCHANGED <<state, check, in>>
  BY DEF Shown, RefundAct, RefundDone, RefundDraft, RefundCancel, EditRefundLine, RemoveRefundLine,
                 Editable, inVars, orderVars
<1> QED BY <1>1, HangRunning DEF HInv, Nothing, InsHang

LEMMA HangCheck ==
  ASSUME StaleForms = FALSE, HInv, TInv', CheckAct
  PROVE  HInv'
<1>t. /\ check \in [Checks -> CheckRow] /\ in \in [Ins -> InRow]
      /\ \A d \in Ins : in[d].state # "none" => in[d].check \in Checks
      /\ InsHang /\ (~Running => Nothing)
  BY DEF HInv, TInv, ChecksOK, InsOK, InHasCheck
<1>1. CASE OusCreateQuality
  <2>1. Running /\ UNCHANGED state
    BY <1>1 DEF Shown, OusCreateQuality, Running, orderVars
  <2>2. \A c \in Checks : check[c].state = "done" => check'[c] = check[c]
    <3> DEFINE new == [NoCheck EXCEPT !.state = "draft", !.qty = qty - buy_qty]
    <3>1. PICK n \in Checks :
            /\ check[n].state \in {"none", "draft"}
            /\ check' = [c \in Checks |-> IF c = n THEN new
                                          ELSE IF c \in {e \in Checks : check[e].state = "draft"} THEN NoCheck ELSE check[c]]
      BY <1>1 DEF OusCreateQuality
    <3> HIDE DEF new
    <3> QED BY <3>1
  <2>3. \A d \in Ins : in'[d] = NoIn \/ in'[d] = in[d]
    BY <1>1 DEF OusCreateQuality
  <2>4. InsHang'
    BY <1>t, <2>2, <2>3 DEF InsHang, NoIn
  <2> QED BY <2>1, <2>4, HangRunning
<1>2. ASSUME NEW c \in Checks, QualityDone(c)
      PROVE  HInv'
  <2>1. Running /\ UNCHANGED state
    BY <1>2, <1>t DEF QualityDone, Nothing, orderVars
  <2>2. PICK n \in Ins : in' = [in EXCEPT ![n] = [state |-> "draft", qty |-> check[c].qualified, check |-> c]]
    BY <1>2 DEF QualityDone
  <2>3. check' = [check EXCEPT ![c] = [check[c] EXCEPT !.state = "done"]]
    BY <1>2 DEF QualityDone
  <2>4. check'[c].state = "done" /\ \A e \in Checks : e # c => check'[e] = check[e]
    BY <1>t, <2>3 DEF CheckRow
  <2>5. in'[n].check = c /\ \A d \in Ins : d # n => in'[d] = in[d]
    BY <1>t, <2>2
  <2>6. InsHang'
    BY <1>t, <2>4, <2>5 DEF InsHang
  <2> QED BY <2>1, <2>6, HangRunning
<1>3. ASSUME NEW c \in Checks, QualityDraft(c)
      PROVE  HInv'
  <2>1. Running /\ UNCHANGED state
    BY <1>3, <1>t DEF QualityDraft, Nothing, orderVars
  <2>2. \A e \in Checks : e # c => check'[e] = check[e]
    BY <1>3, <1>t DEF QualityDraft
  <2>3. \A d \in Ins : in'[d] = IF in[d].check = c THEN NoIn ELSE in[d]
    BY <1>3 DEF QualityDraft
  <2>4. InsHang'
    BY <1>t, <2>2, <2>3 DEF InsHang, NoIn
  <2> QED BY <2>1, <2>4, HangRunning
<1>4. ASSUME NEW c \in Checks, QualityCancel(c) \/ \E q \in Qualities : EditQualified(c, q)
      PROVE  HInv'
  <2>1. check[c].state = "draft" /\ UNCHANGED <<state, in>>
    BY <1>4 DEF Shown, QualityCancel, EditQualified, orderVars, inVars
  <2>2. Running
    BY <1>t, <2>1 DEF Nothing
  <2>3. \A e \in Checks : e # c => check'[e] = check[e]
    BY <1>4, <1>t DEF QualityCancel, EditQualified
  <2>4. InsHang'
    BY <1>t, <2>1, <2>3 DEF InsHang
  <2> QED BY <2>1, <2>2, <2>4, HangRunning
<1> QED BY <1>1, <1>2, <1>3, <1>4 DEF CheckAct

LEMMA HangIn ==
  ASSUME StaleForms = FALSE, HInv, TInv', NEW d \in Ins, InAct(d)
  PROVE  HInv'
<1>t. /\ check \in [Checks -> CheckRow] /\ in \in [Ins -> InRow]
      /\ \A e \in Ins : in[e].state # "none" => in[e].check \in Checks
      /\ InsHang /\ (~Running => Nothing)
  BY DEF HInv, TInv, ChecksOK, InsOK, InHasCheck
<1>1. in[d].state # "none" /\ UNCHANGED state
  BY DEF Shown, InAct, InDone, InDraft, InCancel, EditIn, Editable, orderVars
<1>2. Running /\ in[d].check \in Checks
  BY <1>t, <1>1 DEF Nothing
<1>3. CASE InDone(d)
  <2>1. PICK rest \in [state : {"draft"}, qty : Nat, check : {in[d].check}] :
              \/ in' = [in EXCEPT ![d].state = "done"]
              \/ \E n \in Ins : in[n].state = "none" /\ in' = [[in EXCEPT ![d].state = "done"] EXCEPT ![n] = rest]
    BY <1>3, InDoneShape DEF HInv
  <2>2. check' = [check EXCEPT ![in[d].check] = [check[in[d].check] EXCEPT !.in_qty = check[in[d].check].in_qty + in[d].qty]]
    BY <1>3 DEF InDone
  <2>3. \A c \in Checks : check'[c].state = check[c].state
    BY <1>t, <2>2 DEF CheckRow
  <2>4. \A e \in Ins : in'[e].state # "none" => in'[e].check \in Checks /\ check[in'[e].check].state = "done"
    <3> DEFINE mine == [in[d] EXCEPT !.state = "done"]
               row == [in EXCEPT ![d] = mine]
    <3>1. mine.check = in[d].check
      BY <1>t DEF InRow
    <3>2. in' = row \/ \E n \in Ins : in' = [row EXCEPT ![n] = rest]
      BY <2>1
    <3> HIDE DEF mine
    <3>3. DOMAIN row = Ins /\ \A e \in Ins : row[e].state # "none" => row[e].check \in Checks /\ check[row[e].check].state = "done"
      BY <1>t, <1>1, <3>1 DEF InsHang
    <3> HIDE DEF row
    <3>4. rest.check \in Checks /\ check[rest.check].state = "done"
      BY <1>t, <1>1 DEF InsHang
    <3> QED BY <3>2, <3>3, <3>4
  <2>5. InsHang'
    BY <2>3, <2>4 DEF InsHang
  <2> QED BY <1>1, <1>2, <2>5, HangRunning
<1>4. CASE InDraft(d)
  <2>1. check' = [check EXCEPT ![in[d].check] = [check[in[d].check] EXCEPT !.in_qty = check[in[d].check].in_qty - in[d].qty]]
    BY <1>4 DEF InDraft
  <2>2. \A c \in Checks : check'[c].state = check[c].state
    BY <1>t, <2>1 DEF CheckRow
  <2>3. in'[d] = [in[d] EXCEPT !.state = "draft"] /\ \A n \in Ins : n # d => in'[n] \in {NoIn, in[n]}
    BY <1>4 DEF InDraft
  <2>4. in'[d].check = in[d].check
    BY <1>t, <2>3 DEF InRow
  <2>5. InsHang'
    <3>1. \A n \in Ins : n # d /\ in'[n].state # "none" => in'[n] = in[n]
      BY <2>3 DEF NoIn
    <3>2. \A n \in Ins : in'[n].state # "none" => in'[n].check = in[n].check /\ in[n].state # "none"
      BY <1>1, <2>4, <3>1
    <3>3. \A n \in Ins : in[n].state # "none" => check'[in[n].check].state = "done"
      BY <1>t, <2>2 DEF InsHang
    <3> QED BY <3>2, <3>3 DEF InsHang
  <2> QED BY <1>1, <1>2, <2>5, HangRunning
<1>5. CASE InCancel(d) \/ \E q \in Quantities : EditIn(d, q)
  <2>1. UNCHANGED check /\ in'[d].check = in[d].check /\ \A n \in Ins : n # d => in'[n] = in[n]
    BY <1>5, <1>t DEF InCancel, EditIn, InRow
  <2>2. InsHang'
    BY <1>t, <1>1, <2>1 DEF InsHang
  <2> QED BY <1>1, <1>2, <2>2, HangRunning
<1> QED BY <1>3, <1>4, <1>5 DEF InAct

LEMMA HangStep ==
  ASSUME StaleForms = FALSE, HInv, [AnyNext]_vars
  PROVE  HInv'
<1>1. TInv'
  BY TypeStep DEF HInv
<1>2. CASE UNCHANGED vars
  BY <1>1, <1>2 DEF vars, orderVars, pickVars, refundVars, inVars, HInv, InsHang, Nothing, Running
<1> QED BY <1>1, <1>2, HangOrder, HangPick, HangRefund, HangCheck, HangIn DEF AnyNext

LEMMA Hangs == HInv => ConfirmedHangsOnConfirmed
BY DEF HInv, InsHang, Nothing, ConfirmedHangsOnConfirmed

\* With forms that show the present state of their row, what is confirmed hangs
\* on what is confirmed, late edits or not, in production ...
THEOREM HangsTogether ==
  ASSUME StaleForms = FALSE
  PROVE  Spec => []ConfirmedHangsOnConfirmed
<1> QED BY HangInit, ProductionStep, HangStep, Hangs, PTL DEF Spec

\* ... and for an outsourced order.
THEOREM OusHangsTogether ==
  ASSUME StaleForms = FALSE
  PROVE  OusSpec => []ConfirmedHangsOnConfirmed
<1> QED BY HangInit, OutsourcedStep, HangStep, Hangs, PTL DEF OusSpec

-----------------------------------------------------------------------------
(* The moves of pickings and refunds, as ledgers. *)

Confirmed(rows) == {d \in DOMAIN rows : rows[d].state = "done"}
QtyOf(sheets, m) == [p \in DOMAIN sheets |-> sheets[p].lines[m].qty]
CountOf(rows) == [d \in DOMAIN rows |-> rows[d].qty]

\* Of the sheets S, each confirmed one has one move, with its lines.
SheetsMoved(S, sh, mv) ==
  /\ IsFiniteSet(S) /\ sh \in [S -> Sheet] /\ DOMAIN mv = S
  /\ \A p \in S : mv[p] = IF sh[p].state = "done" THEN <<Amount(sh[p])>> ELSE <<>>

\* They differ in d, which only sh2 has as confirmed.
OnlyConfirms(S, d, sh, sh2) ==
  /\ d \in S /\ sh[d].state # "done" /\ sh2[d].state = "done"
  /\ \A p \in S : p # d => sh2[p] = sh[p]

LEMMA SheetsLedger ==
  ASSUME NEW S, NEW sh, NEW mv, SheetsMoved(S, sh, mv), NEW m \in Materials
  PROVE  Ledger(AmountsOf(mv, m), Confirmed(sh), QtyOf(sh, m))
<1> DEFINE C == Confirmed(sh)
           a == [p \in S |-> Amount(sh[p])]
           v == QtyOf(sh, m)
           R == AmountsOf(mv, m)
           w == [p \in C |-> a[p][m]]
<1>1. \A p \in S : a[p][m] = sh[p].lines[m].qty /\ sh[p].lines[m].qty \in Nat
  BY DEF SheetsMoved, Amount, Sheet, Line
<1>a. DOMAIN sh = S /\ C \in SUBSET S /\ \A p \in S : p \in C <=> sh[p].state = "done"
  BY DEF Confirmed, SheetsMoved
<1>2. \A p \in C : w[p] = v[p]
  BY <1>1, <1>a DEF QtyOf
<1>3. /\ IsFiniteSet(DOMAIN mv) /\ C \in SUBSET DOMAIN mv
      /\ \A p \in DOMAIN mv : mv[p] = IF p \in C THEN <<a[p]>> ELSE <<>>
      /\ \A p \in C : a[p][m] \in Nat
  BY <1>1, <1>a DEF SheetsMoved
<1>4. Ledger(R, C, w)
  <2> HIDE DEF C, a
  <2> QED BY <1>3, AmountsLedger
<1> HIDE DEF C, v, w, R
<1>5. Ledger(R, C, v)
  BY <1>2, <1>4 DEF Ledger
<1> QED BY <1>5 DEF C, v, R

LEMMA SheetsMore ==
  ASSUME NEW S, NEW sh, NEW mv, SheetsMoved(S, sh, mv), NEW sh2, NEW mv2, SheetsMoved(S, sh2, mv2),
         NEW d, OnlyConfirms(S, d, sh, sh2), NEW m \in Materials
  PROVE  Moved(mv2, m) = Moved(mv, m) + sh2[d].lines[m].qty
<1> DEFINE R == AmountsOf(mv, m)
           T == AmountsOf(mv2, m)
           C == Confirmed(sh)
           v == QtyOf(sh, m)
           w == QtyOf(sh2, m)
<1>1. Ledger(R, C, v) /\ Ledger(T, Confirmed(sh2), w)
  BY SheetsLedger
<1>2. Confirmed(sh2) = C \cup {d} /\ d \notin C
  BY DEF Confirmed, SheetsMoved, OnlyConfirms
<1>3. (\A p \in C : w[p] = v[p]) /\ w[d] = sh2[d].lines[m].qty
  BY DEF QtyOf, Confirmed, SheetsMoved, OnlyConfirms
<1> HIDE DEF R, T, C, v, w
<1>4. OneMore(R, T, C, d, v, w)
  BY <1>1, <1>2, <1>3 DEF OneMore
<1>5. RowsTotal(T) = RowsTotal(R) + w[d]
  BY <1>4, LedgerMore
<1> QED BY <1>3, <1>5 DEF R, T, Moved

LEMMA SheetsType ==
  ASSUME NEW S, NEW sh, NEW mv, SheetsMoved(S, sh, mv), NEW m \in Materials
  PROVE  Moved(mv, m) \in Nat /\ ((\A p \in S : sh[p].state # "done") => Moved(mv, m) = 0)
<1> DEFINE v == QtyOf(sh, m)
           R == AmountsOf(mv, m)
<1>1. Ledger(R, Confirmed(sh), v)
  BY SheetsLedger
<1>2. (\A p \in S : sh[p].state # "done") => Confirmed(sh) = {}
  BY DEF Confirmed, SheetsMoved
<1> HIDE DEF v, R
<1>3. RowsTotal(R) \in Nat
  BY <1>1, LedgerTotal
<1>4. (\A p \in S : sh[p].state # "done") => Ledger(R, {}, v)
  BY <1>1, <1>2
<1> QED BY <1>3, <1>4, LedgerNone DEF Moved, R

LEMMA AppendFirst == \A x : Append(<<>>, x) = <<x>>
<1> TAKE x
<1>1. << >> \in Seq({x}) /\ x \in {x}
  OBVIOUS
<1> QED BY <1>1

\* What confirming, and undoing, a sheet does to the moves.
Confirming(S, d, sh, mv, sh2, mv2) ==
  /\ SheetsMoved(S, sh, mv) /\ d \in S /\ sh[d].state # "done"
  /\ sh2 = [sh EXCEPT ![d].state = "done"]
  /\ mv2 = [mv EXCEPT ![d] = Append(mv[d], Amount(sh[d]))]

Undoing(S, d, sh, mv, sh2, mv2) ==
  /\ SheetsMoved(S, sh, mv) /\ d \in S /\ sh[d].state = "done"
  /\ sh2 = [sh EXCEPT ![d].state = "draft"] /\ mv2 = [mv EXCEPT ![d] = <<>>]

LEMMA MovesMore ==
  ASSUME NEW S, NEW sh, NEW mv, NEW d, NEW sh2, NEW mv2, Confirming(S, d, sh, mv, sh2, mv2)
  PROVE  SheetsMoved(S, sh2, mv2) /\ OnlyConfirms(S, d, sh, sh2) /\ sh2[d].lines = sh[d].lines /\ sh2[d].mats = sh[d].mats
<1> USE DEF Confirming
<1> DEFINE mine == [sh[d] EXCEPT !.state = "done"]
<1>1. mine \in Sheet /\ mine.state = "done" /\ mine.lines = sh[d].lines /\ mine.mats = sh[d].mats /\ Amount(mine) = Amount(sh[d])
  BY DEF SheetsMoved, Sheet, DocStates, Amount
<1>2. sh2 = [sh EXCEPT ![d] = mine]
  OBVIOUS
<1>3. mv2 = [mv EXCEPT ![d] = <<Amount(sh[d])>>]
  BY AppendFirst DEF SheetsMoved
<1> HIDE DEF mine
<1>4. sh2[d] = mine /\ sh2 \in [S -> Sheet] /\ \A p \in S : p # d => sh2[p] = sh[p]
  BY <1>1, <1>2 DEF SheetsMoved
<1>5. mv2[d] = <<Amount(mine)>> /\ DOMAIN mv2 = S /\ \A p \in S : p # d => mv2[p] = mv[p]
  BY <1>1, <1>3 DEF SheetsMoved
<1>6. SheetsMoved(S, sh2, mv2)
  BY <1>1, <1>4, <1>5 DEF SheetsMoved
<1> QED BY <1>1, <1>4, <1>6 DEF OnlyConfirms

LEMMA MovesFewer ==
  ASSUME NEW S, NEW sh, NEW mv, NEW d, NEW sh2, NEW mv2, Undoing(S, d, sh, mv, sh2, mv2)
  PROVE  SheetsMoved(S, sh2, mv2) /\ OnlyConfirms(S, d, sh2, sh) /\ sh2[d].lines = sh[d].lines /\ sh2[d].mats = sh[d].mats
<1> USE DEF Undoing
<1> DEFINE mine == [sh[d] EXCEPT !.state = "draft"]
<1>1. mine \in Sheet /\ mine.state = "draft" /\ mine.lines = sh[d].lines /\ mine.mats = sh[d].mats
  BY DEF SheetsMoved, Sheet, DocStates
<1>2. sh2 = [sh EXCEPT ![d] = mine]
  OBVIOUS
<1> HIDE DEF mine
<1> QED BY <1>1, <1>2 DEF SheetsMoved, OnlyConfirms

-----------------------------------------------------------------------------
(* The books of the pickings.  Confirmed ones are never edited. *)

\* A picking asks for nothing of a material it has no line for: what a
\* confirmation books of every material is what it checked of its own.
OnlyItsLines ==
  \A p \in Picks : \A m \in Materials : m \notin pick[p].mats => pick[p].lines[m].qty = 0

PickAccounts ==
  \A m \in Materials :
    /\ lines[m].picked = Moved(pickMoves, m)
    /\ Running => lines[m].neck + lines[m].picked = lines[m].need

PInv ==
  /\ HInv /\ SheetsMoved(Picks, pick, pickMoves)
  /\ OnlyItsLines /\ PickAccounts /\ PickedWithinNeed

\* No move is made or deleted and no confirmed picking changes.
LEMMA PicksKept ==
  ASSUME PInv, HInv', pickMoves' = pickMoves, OnlyItsLines',
         \A p \in Picks : /\ pick'[p].state = "done" <=> pick[p].state = "done"
                          /\ pick[p].state = "done" => pick'[p] = pick[p],
         \A m \in Materials : /\ lines'[m].picked = lines[m].picked
                              /\ lines[m].picked <= lines'[m].need
                              /\ Running' => lines'[m].neck + lines'[m].picked = lines'[m].need
  PROVE  PInv'
<1>1. SheetsMoved(Picks, pick, pickMoves)'
  <2>1. pick' \in [Picks -> Sheet]
    BY DEF HInv, TInv, PicksOK
  <2> QED BY <2>1 DEF PInv, SheetsMoved
<1>2. PickAccounts'
  BY DEF PInv, PickAccounts, Moved
<1>3. PickedWithinNeed'
  BY DEF PInv, PickedWithinNeed
<1> QED BY <1>1, <1>2, <1>3 DEF PInv

LEMMA NothingPicked ==
  ASSUME PInv, ~Running
  PROVE  \A m \in Materials : lines[m].picked = 0
<1>1. \A p \in Picks : pick[p].state # "done"
  BY DEF PInv, HInv, Nothing
<1> QED BY <1>1, SheetsType DEF PInv, PickAccounts

LEMMA PicksOrder ==
  ASSUME StaleForms = FALSE, PInv, HInv', OrderAct
  PROVE  PInv'
<1> USE DEF pickVars
<1>t. /\ OnlyItsLines /\ PickAccounts /\ PickedWithinNeed /\ SheetsMoved(Picks, pick, pickMoves)
      /\ pick \in [Picks -> Sheet] /\ lines \in [Materials -> Counters]
      /\ pickMoves \in [Picks -> Seq([Materials -> Nat])]
  BY DEF PInv, HInv, TInv, PicksOK, OrderOK
<1>1. CASE Start
  <2>1. \A m \in Materials : lines[m].picked = 0
    BY <1>1, NothingPicked DEF Start, Shown, Running
  <2> DEFINE new == NewSheet(Materials, Need)
  <2>2. PICK p \in Picks : pick[p].state = "none" /\ pick' = [pick EXCEPT ![p] = new]
    BY <1>1 DEF Start
  <2>3. new.state = "draft" /\ new.mats = Materials
    BY DEF NewSheet
  <2> HIDE DEF new
  <2>4. /\ OnlyItsLines'
        /\ \A e \in Picks : /\ pick'[e].state = "done" <=> pick[e].state = "done"
                            /\ pick[e].state = "done" => pick'[e] = pick[e]
    BY <1>t, <2>2, <2>3 DEF OnlyItsLines
  <2>5. lines' = [m \in Materials |-> [lines[m] EXCEPT !.neck = lines[m].need]] /\ pickMoves' = pickMoves
    BY <1>1 DEF Start
  <2>6. \A m \in Materials : /\ lines'[m].picked = lines[m].picked /\ lines[m].picked <= lines'[m].need
                             /\ lines'[m].neck + lines'[m].picked = lines'[m].need
    BY <1>t, <2>1, <2>5 DEF Counters
  <2> QED BY <2>4, <2>5, <2>6, PicksKept
<1>2. CASE Stop \/ Continue \/ Cancel \/ Done
  <2>1. /\ Running <=> Running'
        /\ pick' = pick /\ pickMoves' = pickMoves /\ lines' = lines
    BY <1>2 DEF Shown, Stop, Continue, Cancel, Done, SetState, Running
  <2> QED BY <1>t, <2>1, PicksKept DEF OnlyItsLines, PickAccounts, PickedWithinNeed
<1>3. CASE Draft
  <2>1. \A p \in Picks : pick[p].state # "done"
    BY <1>3, <1>t DEF Draft, AllDraft
  <2>2. pickMoves = [p \in Picks |-> <<>>]
    BY <1>t, <2>1 DEF SheetsMoved
  <2>3. pick' = [p \in Picks |-> NoSheet] /\ pickMoves' = pickMoves /\ lines' = lines /\ state' = "draft"
    BY <1>3, <2>2 DEF Draft
  <2>4. OnlyItsLines' /\ \A p \in Picks : pick'[p].state # "done"
    BY <2>3 DEF OnlyItsLines, NoSheet, Absent
  <2> QED BY <1>t, <2>1, <2>3, <2>4, PicksKept DEF Running, PickedWithinNeed
<1>4. CASE MesPlmRefund
  <2>1. state' = state /\ pick' = pick /\ pickMoves' = pickMoves /\ lines' = lines
    BY <1>4 DEF MesPlmRefund, orderVars
  <2> QED BY <1>t, <2>1, PicksKept DEF OnlyItsLines, PickAccounts, PickedWithinNeed, Running
<1>5. CASE MesPlmPicking
  <2> DEFINE open == {m \in Materials : lines[m].neck > 0}
             new == NewSheet(open, Neck)
  <2>1. /\ new.state = "draft" /\ \A m \in Materials : m \notin new.mats => new.lines[m].qty = 0
        /\ NoSheet.state = "none" /\ \A m \in Materials : NoSheet.lines[m].qty = 0
    BY DEF NewSheet, NoSheet, Absent
  <2>2. PICK n \in Picks :
          /\ pick[n].state \in {"none", "draft"}
          /\ pick' = [p \in Picks |-> IF p = n THEN new ELSE IF pick[p].state = "draft" THEN NoSheet ELSE pick[p]]
    <3>1. \A p \in Picks : p \in {e \in Picks : pick[e].state = "draft"} <=> pick[p].state = "draft"
      OBVIOUS
    <3> HIDE DEF new
    <3> QED BY <1>5, <3>1 DEF MesPlmPicking, new
  <2> HIDE DEF new
  <2>3. /\ OnlyItsLines'
        /\ \A e \in Picks : /\ pick'[e].state = "done" <=> pick[e].state = "done"
                            /\ pick[e].state = "done" => pick'[e] = pick[e]
    BY <2>1, <2>2, <1>t DEF OnlyItsLines
  <2>4. pickMoves' = pickMoves
    BY <1>5, <1>t DEF MesPlmPicking, SheetsMoved
  <2>5. state' = state /\ lines' = lines
    BY <1>5 DEF MesPlmPicking, orderVars
  <2> QED BY <1>t, <2>3, <2>4, <2>5, PicksKept DEF PickAccounts, PickedWithinNeed, Running
<1>6. CASE \E q \in Amounts : EditQty(q) \/ EditDoneQty(q) \/ (OnchangeLineId(q) /\ lines' = lines)
  <2>1. state' = state /\ pick' = pick /\ pickMoves' = pickMoves /\ lines' = lines
    BY <1>6 DEF EditQty, EditDoneQty, OnchangeLineId
  <2> QED BY <1>t, <2>1, PicksKept DEF OnlyItsLines, PickAccounts, PickedWithinNeed, Running
<1>7. ASSUME NEW q \in Amounts, OnchangeLineId(q), lines' # lines
      PROVE  PInv'
  <2>1. /\ state = "draft" /\ state' = state /\ pick' = pick /\ pickMoves' = pickMoves
        /\ lines' = [m \in Materials |-> [need |-> Bom[m] * q, neck |-> 0, picked |-> 0, refunded |-> 0]]
    BY <1>7 DEF Shown, OnchangeLineId, EditQty
  <2>2. \A m \in Materials : lines[m].picked = 0
    BY <2>1, NothingPicked DEF Running
  <2>3. \A m \in Materials : Bom[m] * q \in Nat
    BY BomAssumption, QuantitiesAssumption
  <2>4. \A m \in Materials : lines'[m].picked = lines[m].picked /\ lines[m].picked <= lines'[m].need
    BY <2>1, <2>2, <2>3
  <2> QED BY <1>t, <2>1, <2>4, PicksKept DEF OnlyItsLines, Running
<1>8. ASSUME NEW m \in Materials, NEW q \in Amounts, EditNeed(m, q)
      PROVE  PInv'
  <2>1. state = "draft" /\ state' = state /\ pick' = pick /\ pickMoves' = pickMoves
    BY <1>8 DEF Shown, EditNeed
  <2>2. \A e \in Materials : lines[e].picked = 0
    BY <2>1, NothingPicked DEF Running
  <2>3. \A e \in Materials : lines'[e].picked = lines[e].picked /\ lines[e].picked <= lines'[e].need
    BY <1>8, <1>t, <2>2, QuantitiesAssumption DEF EditNeed, Counters
  <2> QED BY <1>t, <2>1, <2>3, PicksKept DEF OnlyItsLines, Running
<1> QED BY <1>1, <1>2, <1>3, <1>4, <1>5, <1>6, <1>7, <1>8 DEF OrderAct

LEMMA PicksPick ==
  ASSUME StaleForms = FALSE, PInv, HInv', NEW p \in Picks, PickAct(p)
  PROVE  PInv'
<1>t. /\ OnlyItsLines /\ PickAccounts /\ PickedWithinNeed /\ SheetsMoved(Picks, pick, pickMoves)
      /\ pick \in [Picks -> Sheet] /\ lines \in [Materials -> Counters] /\ pick[p] \in Sheet
  BY DEF PInv, HInv, TInv, PicksOK, OrderOK
<1>q. \A m \in Materials : /\ pick[p].lines[m].qty \in Nat
                           /\ lines[m].neck \in Int /\ lines[m].picked \in Int /\ lines[m].need \in Nat
                           /\ 0 <= lines[m].picked /\ lines[m].picked <= lines[m].need
  BY <1>t, SheetEdits DEF Counters, PickedWithinNeed
<1>r. Running /\ state' = state
  <2>1. pick[p].state # "none" /\ state' = state
    BY DEF Shown, PickAct, PickDone, PickDraft, PickCancel, EditPickLine, RemovePickLine, orderVars
  <2> QED BY <2>1 DEF PInv, HInv, Nothing
<1>n. \A m \in Materials : lines[m].neck + lines[m].picked = lines[m].need
  BY <1>t, <1>r DEF PickAccounts
<1>1. CASE PickDone(p)
  <2>1. /\ pick' = [pick EXCEPT ![p].state = "done"] /\ pick[p].state = "draft"
        /\ pickMoves' = [pickMoves EXCEPT ![p] = Append(pickMoves[p], Amount(pick[p]))]
    BY <1>1 DEF PickDone, Shown
  <2>2. /\ SheetsMoved(Picks, pick', pickMoves') /\ OnlyConfirms(Picks, p, pick, pick')
        /\ pick'[p].lines = pick[p].lines /\ pick'[p].mats = pick[p].mats
    <3>1. Confirming(Picks, p, pick, pickMoves, pick', pickMoves')
      BY <1>t, <2>1 DEF Confirming
    <3> QED BY <3>1, MovesMore
  <2>3. OnlyItsLines'
    BY <1>t, <2>2 DEF OnlyItsLines, OnlyConfirms
  <2>4. \A m \in Materials : /\ lines'[m].neck = lines[m].neck - pick[p].lines[m].qty
                             /\ lines'[m].picked = lines[m].picked + pick[p].lines[m].qty
                             /\ lines'[m].need = lines[m].need
    BY <1>1, <1>t DEF PickDone, Counters
  <2>5. \A m \in Materials : Moved(pickMoves', m) = Moved(pickMoves, m) + pick[p].lines[m].qty
    <3> TAKE m \in Materials
    <3>1. Moved(pickMoves', m) = Moved(pickMoves, m) + pick'[p].lines[m].qty
      BY <1>t, <2>2, SheetsMore
    <3> QED BY <2>2, <3>1
  <2>6. PickAccounts'
    <3> SUFFICES ASSUME NEW m \in Materials
                 PROVE  /\ lines'[m].picked = Moved(pickMoves', m)
                        /\ lines'[m].neck + lines'[m].picked = lines'[m].need
      BY DEF PickAccounts, Moved
    <3>1. lines[m].picked = Moved(pickMoves, m)
      BY <1>t DEF PickAccounts
    <3> QED BY <1>q, <1>n, <2>4, <2>5, <3>1
  <2>7. PickedWithinNeed'
    <3> SUFFICES ASSUME NEW m \in Materials PROVE 0 <= lines'[m].picked /\ lines'[m].picked <= lines'[m].need
      BY DEF PickedWithinNeed
    <3>1. m \in pick[p].mats => pick[p].lines[m].qty + lines[m].picked <= lines[m].neck
      BY <1>1 DEF PickDone, CanPick
    <3>2. m \notin pick[p].mats => pick[p].lines[m].qty = 0
      BY <1>t DEF OnlyItsLines
    <3> QED BY <1>q, <1>n, <2>4, <3>1, <3>2
  <2> QED BY <2>2, <2>3, <2>6, <2>7 DEF PInv
<1>2. CASE PickDraft(p)
  <2>1. /\ pick' = [pick EXCEPT ![p].state = "draft"] /\ pick[p].state = "done"
        /\ pickMoves' = [pickMoves EXCEPT ![p] = <<>>]
    BY <1>2 DEF PickDraft, Shown
  <2>2. /\ SheetsMoved(Picks, pick', pickMoves') /\ OnlyConfirms(Picks, p, pick', pick)
        /\ pick'[p].lines = pick[p].lines /\ pick'[p].mats = pick[p].mats
    <3>1. Undoing(Picks, p, pick, pickMoves, pick', pickMoves')
      BY <1>t, <2>1 DEF Undoing
    <3> QED BY <3>1, MovesFewer
  <2>3. OnlyItsLines'
    BY <1>t, <2>2 DEF OnlyItsLines, OnlyConfirms
  <2>4. \A m \in Materials : /\ lines'[m].neck = lines[m].neck + pick[p].lines[m].qty
                             /\ lines'[m].picked = lines[m].picked - pick[p].lines[m].qty
                             /\ lines'[m].need = lines[m].need
    BY <1>2, <1>t DEF PickDraft, Counters
  <2>5. \A m \in Materials : /\ Moved(pickMoves, m) = Moved(pickMoves', m) + pick[p].lines[m].qty
                             /\ Moved(pickMoves', m) \in Nat
    BY <1>t, <2>2, SheetsMore, SheetsType
  <2>6. PickAccounts' /\ \A m \in Materials : 0 <= lines'[m].picked
    <3> SUFFICES ASSUME NEW m \in Materials
                 PROVE  /\ lines'[m].picked = Moved(pickMoves', m) /\ 0 <= lines'[m].picked
                        /\ lines'[m].neck + lines'[m].picked = lines'[m].need
      BY DEF PickAccounts, Moved
    <3>1. lines[m].picked = Moved(pickMoves, m)
      BY <1>t DEF PickAccounts
    <3> QED BY <1>q, <1>n, <2>4, <2>5, <3>1
  <2>7. PickedWithinNeed'
    <3> SUFFICES ASSUME NEW m \in Materials PROVE lines'[m].picked <= lines'[m].need
      BY <2>6 DEF PickedWithinNeed
    <3> QED BY <1>q, <2>4
  <2> QED BY <2>2, <2>3, <2>6, <2>7 DEF PInv
<1>3. CASE \/ PickCancel(p)
           \/ \E m \in Materials, q \in Quantities : EditPickLine(p, m, q)
           \/ \E m \in Materials : RemovePickLine(p, m)
  <2>1. pickMoves' = pickMoves /\ lines' = lines /\ pick[p].state = "draft"
    BY <1>3 DEF Shown, PickCancel, EditPickLine, RemovePickLine, orderVars
  <2>2. pick'[p].state # "done" /\ \A e \in Picks : e # p => pick'[e] = pick[e]
    <3>1. CASE PickCancel(p)
      BY <1>t, <3>1 DEF PickCancel, Sheet
    <3>2. ASSUME NEW m \in Materials, NEW q \in Quantities, EditPickLine(p, m, q)
          PROVE  pick'[p].state # "done" /\ \A e \in Picks : e # p => pick'[e] = pick[e]
      BY <1>t, <2>1, <3>2 DEF EditPickLine, Sheet
    <3>3. ASSUME NEW m \in Materials, RemovePickLine(p, m)
          PROVE  pick'[p].state # "done" /\ \A e \in Picks : e # p => pick'[e] = pick[e]
      <4>1. pick' = [pick EXCEPT ![p] = [pick[p] EXCEPT !.mats = pick[p].mats \ {m}, !.lines[m] = Absent]]
        BY <3>3 DEF RemovePickLine
      <4> QED BY <1>t, <2>1, <4>1 DEF Sheet
    <3> QED BY <1>3, <3>1, <3>2, <3>3
  <2>3. \A m \in Materials : m \notin pick'[p].mats => pick'[p].lines[m].qty = 0
    <3>0. \A m \in Materials : m \notin pick[p].mats => pick[p].lines[m].qty = 0
      BY <1>t DEF OnlyItsLines
    <3>1. CASE PickCancel(p)
      BY <1>t, <3>0, <3>1 DEF PickCancel, Sheet
    <3>2. ASSUME NEW m \in Materials, NEW q \in Quantities, EditPickLine(p, m, q)
          PROVE  \A e \in Materials : e \notin pick'[p].mats => pick'[p].lines[e].qty = 0
      <4>1. m \in pick[p].mats /\ pick' = [pick EXCEPT ![p].lines[m] = [qty |-> q, placed |-> TRUE]]
        BY <3>2 DEF EditPickLine
      <4>2. /\ pick'[p].mats = pick[p].mats
            /\ \A e \in Materials : e # m => pick'[p].lines[e] = pick[p].lines[e]
        BY <1>t, <4>1 DEF Sheet
      <4> QED BY <3>0, <4>1, <4>2
    <3>3. ASSUME NEW m \in Materials, RemovePickLine(p, m)
          PROVE  \A e \in Materials : e \notin pick'[p].mats => pick'[p].lines[e].qty = 0
      <4>1. pick' = [pick EXCEPT ![p] = [pick[p] EXCEPT !.mats = pick[p].mats \ {m}, !.lines[m] = Absent]]
        BY <3>3 DEF RemovePickLine
      <4>2. /\ pick'[p].mats = pick[p].mats \ {m} /\ pick'[p].lines[m] = Absent
            /\ \A e \in Materials : e # m => pick'[p].lines[e] = pick[p].lines[e]
        BY <1>t, <4>1 DEF Sheet
      <4> QED BY <3>0, <4>2 DEF Absent
    <3> QED BY <1>3, <3>1, <3>2, <3>3
  <2>4. OnlyItsLines'
    BY <1>t, <2>2, <2>3 DEF OnlyItsLines
  <2> QED BY <1>q, <1>n, <2>1, <2>2, <2>4, PicksKept
<1> QED BY <1>1, <1>2, <1>3 DEF PickAct

LEMMA PicksStep ==
  ASSUME StaleForms = FALSE, PInv, [AnyNext]_vars
  PROVE  PInv'
<1>1. HInv'
  BY HangStep DEF PInv
<1>2. CASE UNCHANGED vars \/ CheckAct \/ \E d \in Ins : InAct(d)
  <2>1. UNCHANGED <<state, lines, pick, pickMoves>>
    BY <1>2 DEF vars, orderVars, pickVars, CheckAct, InAct, OusCreateQuality, QualityDone, QualityDraft,
                QualityCancel, EditQualified, InDone, InDraft, InCancel, EditIn
  <2> QED BY <1>1, <2>1, PicksKept DEF PInv, OnlyItsLines, PickAccounts, PickedWithinNeed, Running
<1>3. ASSUME NEW r \in Refunds, RefundAct(r)
      PROVE  PInv'
  <2>1. UNCHANGED <<state, pick, pickMoves>>
    BY <1>3 DEF orderVars, pickVars, RefundAct, RefundDone, RefundDraft, RefundCancel, EditRefundLine, RemoveRefundLine
  <2>2. \A m \in Materials : /\ lines'[m].picked = lines[m].picked /\ lines'[m].need = lines[m].need
                             /\ lines'[m].neck = lines[m].neck
    <3>1. lines \in [Materials -> Counters]
      BY DEF PInv, HInv, TInv, OrderOK
    <3>2. CASE RefundDone(r)
      BY <3>1, <3>2 DEF RefundDone, Counters
    <3>3. CASE RefundDraft(r)
      BY <3>1, <3>3 DEF RefundDraft, Counters
    <3>4. lines' = lines \/ RefundDone(r) \/ RefundDraft(r)
      BY <1>3 DEF orderVars, RefundAct, RefundCancel, EditRefundLine, RemoveRefundLine
    <3> QED BY <3>2, <3>3, <3>4
  <2> QED BY <1>1, <2>1, <2>2, PicksKept DEF PInv, OnlyItsLines, PickAccounts, PickedWithinNeed, Running
<1> QED BY <1>1, <1>2, <1>3, PicksOrder, PicksPick DEF AnyNext

LEMMA PicksInit == Init => PInv
<1> SUFFICES ASSUME Init PROVE PInv
  OBVIOUS
<1>1. HInv /\ pick \in [Picks -> Sheet]
  BY HangInit DEF HInv, TInv, PicksOK
<1>2. \A p \in Picks : pick[p].state # "done" /\ pickMoves[p] = <<>>
  BY DEF Init, NoSheet
<1>3. SheetsMoved(Picks, pick, pickMoves)
  BY <1>1, <1>2, RowsAssumption DEF Init, SheetsMoved
<1>4. OnlyItsLines
  BY DEF Init, OnlyItsLines, NoSheet, Absent
<1>5. \A m \in Materials : lines[m].picked = 0 /\ lines[m].need \in Nat
  BY QuantitiesAssumption DEF Init
<1>6. PickAccounts
  BY <1>2, <1>3, <1>5, SheetsType DEF Init, PickAccounts, Running
<1> QED BY <1>1, <1>3, <1>4, <1>5, <1>6 DEF PInv, PickedWithinNeed

\* No material is picked beyond the need.  The guard of a confirmation, which
\* adds what was picked to what will be and compares with what is still to be
\* picked, gives that only because those two make up the need of a running order.
THEOREM PickedWithin ==
  ASSUME StaleForms = FALSE
  PROVE  Spec => []PickedWithinNeed
<1>1. PInv => PickedWithinNeed
  BY DEF PInv
<1> QED BY <1>1, PicksInit, ProductionStep, PicksStep, PTL DEF Spec

-----------------------------------------------------------------------------
(* The books of the refunds, which hold as long as no confirmed one is edited. *)

RefundAccounts == \A m \in Materials : lines[m].refunded = Moved(refundMoves, m)

RInv == HInv /\ SheetsMoved(Refunds, refund, refundMoves) /\ RefundAccounts

LEMMA RefundsKept ==
  ASSUME RInv, HInv', refundMoves' = refundMoves,
         \A r \in Refunds : /\ refund'[r].state = "done" <=> refund[r].state = "done"
                            /\ refund[r].state = "done" => refund'[r] = refund[r],
         \A m \in Materials : lines'[m].refunded = lines[m].refunded
  PROVE  RInv'
<1>1. refund' \in [Refunds -> Sheet]
  BY DEF HInv, TInv, RefundsOK
<1>2. SheetsMoved(Refunds, refund, refundMoves)'
  BY <1>1 DEF RInv, SheetsMoved
<1> QED BY <1>2 DEF RInv, RefundAccounts, Moved

LEMMA NothingRefunded ==
  ASSUME RInv, ~Running
  PROVE  \A m \in Materials : lines[m].refunded = 0
<1>1. \A r \in Refunds : refund[r].state # "done"
  BY DEF RInv, HInv, Nothing
<1> QED BY <1>1, SheetsType DEF RInv, RefundAccounts

LEMMA RefundsOrder ==
  ASSUME StaleForms = FALSE, RInv, HInv', OrderAct
  PROVE  RInv'
<1> USE DEF refundVars
<1>t. /\ SheetsMoved(Refunds, refund, refundMoves) /\ RefundAccounts
      /\ refund \in [Refunds -> Sheet] /\ lines \in [Materials -> Counters]
      /\ refundMoves \in [Refunds -> Seq([Materials -> Nat])]
  BY DEF RInv, HInv, TInv, RefundsOK, OrderOK
<1>1. CASE Start
  <2>1. lines' = [m \in Materials |-> [lines[m] EXCEPT !.neck = lines[m].need]] /\ UNCHANGED refundVars
    BY <1>1 DEF Start
  <2>2. \A m \in Materials : lines'[m].refunded = lines[m].refunded
    BY <1>t, <2>1 DEF Counters
  <2> QED BY <2>1, <2>2, RefundsKept
<1>2. CASE Stop \/ Continue \/ Cancel \/ Done \/ MesPlmPicking \/ \E q \in Amounts : EditQty(q) \/ EditDoneQty(q)
  <2>1. lines' = lines /\ UNCHANGED refundVars
    BY <1>2 DEF Stop, Continue, Cancel, Done, SetState, MesPlmPicking, EditQty, EditDoneQty, orderVars
  <2> QED BY <2>1, RefundsKept
<1>3. CASE Draft
  <2>1. \A r \in Refunds : refund[r].state # "done"
    BY <1>3, <1>t DEF Draft, AllDraft
  <2>2. refundMoves = [r \in Refunds |-> <<>>]
    BY <1>t, <2>1 DEF SheetsMoved
  <2>3. refund' = [r \in Refunds |-> NoSheet] /\ refundMoves' = refundMoves /\ lines' = lines
    BY <1>3, <2>2 DEF Draft
  <2>4. \A r \in Refunds : refund'[r].state # "done"
    BY <2>3 DEF NoSheet
  <2> QED BY <2>1, <2>3, <2>4, RefundsKept
<1>4. CASE MesPlmRefund
  <2> DEFINE new == NewSheet(Materials, Need)
  <2>1. PICK r \in Refunds : refund[r].state = "none" /\ refund' = [refund EXCEPT ![r] = new]
    BY <1>4 DEF MesPlmRefund
  <2>2. new.state = "draft"
    BY DEF NewSheet
  <2> HIDE DEF new
  <2>3. \A e \in Refunds : /\ refund'[e].state = "done" <=> refund[e].state = "done"
                           /\ refund[e].state = "done" => refund'[e] = refund[e]
    BY <1>t, <2>1, <2>2
  <2>4. lines' = lines /\ refundMoves' = refundMoves
    BY <1>4 DEF MesPlmRefund, orderVars
  <2> QED BY <2>3, <2>4, RefundsKept
<1>5. ASSUME NEW q \in Amounts, OnchangeLineId(q)
      PROVE  RInv'
  <2>1. UNCHANGED refundVars
    BY <1>5 DEF OnchangeLineId, EditQty
  <2>2. \A m \in Materials : lines'[m].refunded = lines[m].refunded
    <3>1. CASE lines' = lines
      BY <3>1
    <3>2. CASE lines' # lines
      <4>1. /\ state = "draft"
            /\ lines' = [m \in Materials |-> [need |-> Bom[m] * q, neck |-> 0, picked |-> 0, refunded |-> 0]]
        BY <1>5, <3>2 DEF Shown, OnchangeLineId, EditQty
      <4>2. \A m \in Materials : lines[m].refunded = 0
        BY <4>1, NothingRefunded DEF Running
      <4> QED BY <4>1, <4>2
    <3> QED BY <3>1, <3>2
  <2> QED BY <2>1, <2>2, RefundsKept
<1>6. ASSUME NEW m \in Materials, NEW q \in Amounts, EditNeed(m, q)
      PROVE  RInv'
  <2>1. lines' = [lines EXCEPT ![m].need = q] /\ UNCHANGED refundVars
    BY <1>6 DEF EditNeed
  <2>2. \A e \in Materials : lines'[e].refunded = lines[e].refunded
    BY <1>t, <2>1 DEF Counters
  <2> QED BY <2>1, <2>2, RefundsKept
<1> QED BY <1>1, <1>2, <1>3, <1>4, <1>5, <1>6 DEF OrderAct

LEMMA RefundsRefund ==
  ASSUME StaleForms = FALSE, LateEdits = FALSE, RInv, HInv', NEW r \in Refunds, RefundAct(r)
  PROVE  RInv'
<1>t. /\ SheetsMoved(Refunds, refund, refundMoves) /\ RefundAccounts
      /\ refund \in [Refunds -> Sheet] /\ lines \in [Materials -> Counters] /\ refund[r] \in Sheet
  BY DEF RInv, HInv, TInv, RefundsOK, OrderOK
<1>q. \A m \in Materials : refund[r].lines[m].qty \in Nat /\ lines[m].refunded = Moved(refundMoves, m)
  BY <1>t, SheetEdits DEF RefundAccounts
<1>1. CASE RefundDone(r)
  <2>1. /\ refund' = [refund EXCEPT ![r].state = "done"] /\ refund[r].state = "draft"
        /\ refundMoves' = [refundMoves EXCEPT ![r] = Append(refundMoves[r], Amount(refund[r]))]
    BY <1>1 DEF RefundDone, Shown
  <2>2. /\ SheetsMoved(Refunds, refund', refundMoves') /\ OnlyConfirms(Refunds, r, refund, refund')
        /\ refund'[r].lines = refund[r].lines
    <3>1. Confirming(Refunds, r, refund, refundMoves, refund', refundMoves')
      BY <1>t, <2>1 DEF Confirming
    <3> QED BY <3>1, MovesMore
  <2>3. \A m \in Materials : lines'[m].refunded = lines[m].refunded + refund[r].lines[m].qty
    BY <1>1, <1>t DEF RefundDone, Counters
  <2>4. \A m \in Materials : Moved(refundMoves', m) = Moved(refundMoves, m) + refund[r].lines[m].qty
    <3> TAKE m \in Materials
    <3>1. Moved(refundMoves', m) = Moved(refundMoves, m) + refund'[r].lines[m].qty
      BY <1>t, <2>2, SheetsMore
    <3> QED BY <2>2, <3>1
  <2>5. RefundAccounts'
    BY <1>q, <2>3, <2>4 DEF RefundAccounts, Moved
  <2> QED BY <2>2, <2>5 DEF RInv
<1>2. CASE RefundDraft(r)
  <2>1. /\ refund' = [refund EXCEPT ![r].state = "draft"] /\ refund[r].state = "done"
        /\ refundMoves' = [refundMoves EXCEPT ![r] = <<>>]
    BY <1>2 DEF RefundDraft, Shown
  <2>2. /\ SheetsMoved(Refunds, refund', refundMoves') /\ OnlyConfirms(Refunds, r, refund', refund)
        /\ refund'[r].lines = refund[r].lines
    <3>1. Undoing(Refunds, r, refund, refundMoves, refund', refundMoves')
      BY <1>t, <2>1 DEF Undoing
    <3> QED BY <3>1, MovesFewer
  <2>3. \A m \in Materials : lines'[m].refunded = lines[m].refunded - refund[r].lines[m].qty
    BY <1>2, <1>t DEF RefundDraft, Counters
  <2>4. \A m \in Materials : /\ Moved(refundMoves, m) = Moved(refundMoves', m) + refund[r].lines[m].qty
                             /\ Moved(refundMoves', m) \in Nat
    BY <1>t, <2>2, SheetsMore, SheetsType
  <2>5. \A m \in Materials : lines'[m].refunded = Moved(refundMoves', m)
    BY <1>q, <2>3, <2>4
  <2> QED BY <2>2, <2>5 DEF RInv, RefundAccounts, Moved
<1>3. CASE \/ RefundCancel(r)
           \/ \E m \in Materials, q \in Quantities : EditRefundLine(r, m, q)
           \/ \E m \in Materials : RemoveRefundLine(r, m)
  <2>1. refundMoves' = refundMoves /\ lines' = lines /\ refund[r].state = "draft"
    BY <1>3 DEF Shown, RefundCancel, EditRefundLine, RemoveRefundLine, Editable, orderVars
  <2>2. refund'[r].state # "done" /\ \A e \in Refunds : e # r => refund'[e] = refund[e]
    <3>1. CASE RefundCancel(r)
      BY <1>t, <3>1 DEF RefundCancel, Sheet
    <3>2. ASSUME NEW m \in Materials, NEW q \in Quantities, EditRefundLine(r, m, q)
          PROVE  refund'[r].state # "done" /\ \A e \in Refunds : e # r => refund'[e] = refund[e]
      BY <1>t, <2>1, <3>2 DEF EditRefundLine, Sheet
    <3>3. ASSUME NEW m \in Materials, RemoveRefundLine(r, m)
          PROVE  refund'[r].state # "done" /\ \A e \in Refunds : e # r => refund'[e] = refund[e]
      <4>1. refund' = [refund EXCEPT ![r] = [refund[r] EXCEPT !.mats = refund[r].mats \ {m}, !.lines[m] = Absent]]
        BY <3>3 DEF RemoveRefundLine
      <4> QED BY <1>t, <2>1, <4>1 DEF Sheet
    <3> QED BY <1>3, <3>1, <3>2, <3>3
  <2> QED BY <2>1, <2>2, RefundsKept
<1> QED BY <1>1, <1>2, <1>3 DEF RefundAct

LEMMA RefundsStep ==
  ASSUME StaleForms = FALSE, LateEdits = FALSE, RInv, [AnyNext]_vars
  PROVE  RInv'
<1>1. HInv'
  BY HangStep DEF RInv
<1>2. CASE UNCHANGED vars \/ CheckAct \/ \E d \in Ins : InAct(d)
  <2>1. UNCHANGED <<lines, refund, refundMoves>>
    BY <1>2 DEF vars, orderVars, refundVars, CheckAct, InAct, OusCreateQuality, QualityDone, QualityDraft,
                QualityCancel, EditQualified, InDone, InDraft, InCancel, EditIn
  <2> QED BY <1>1, <2>1, RefundsKept
<1>3. ASSUME NEW p \in Picks, PickAct(p)
      PROVE  RInv'
  <2>1. UNCHANGED <<refund, refundMoves>>
    BY <1>3 DEF refundVars, PickAct, PickDone, PickDraft, PickCancel, EditPickLine, RemovePickLine
  <2>2. \A m \in Materials : lines'[m].refunded = lines[m].refunded
    <3>1. lines \in [Materials -> Counters]
      BY DEF RInv, HInv, TInv, OrderOK
    <3>2. CASE PickDone(p)
      BY <3>1, <3>2 DEF PickDone, Counters
    <3>3. CASE PickDraft(p)
      BY <3>1, <3>3 DEF PickDraft, Counters
    <3>4. lines' = lines \/ PickDone(p) \/ PickDraft(p)
      BY <1>3 DEF orderVars, PickAct, PickCancel, EditPickLine, RemovePickLine
    <3> QED BY <3>2, <3>3, <3>4
  <2> QED BY <1>1, <2>1, <2>2, RefundsKept
<1> QED BY <1>1, <1>2, <1>3, RefundsOrder, RefundsRefund DEF AnyNext

LEMMA RefundsInit == Init => RInv
<1> SUFFICES ASSUME Init PROVE RInv
  OBVIOUS
<1>1. HInv /\ refund \in [Refunds -> Sheet]
  BY HangInit DEF HInv, TInv, RefundsOK
<1>2. \A r \in Refunds : refund[r].state # "done" /\ refundMoves[r] = <<>>
  BY DEF Init, NoSheet
<1>3. SheetsMoved(Refunds, refund, refundMoves)
  BY <1>1, <1>2, RowsAssumption DEF Init, SheetsMoved
<1>4. \A m \in Materials : lines[m].refunded = 0
  BY DEF Init
<1>5. RefundAccounts
  BY <1>2, <1>3, <1>4, SheetsType DEF RefundAccounts
<1> QED BY <1>1, <1>3, <1>5 DEF RInv

-----------------------------------------------------------------------------
(* The moves of stock-ins, as ledgers of any set of them. *)

InsMoved(i, mv) ==
  /\ i \in [Ins -> InRow] /\ mv = [d \in Ins |-> mv[d]]
  /\ \A d \in Ins : mv[d] = IF i[d].state = "done" THEN <<i[d].qty>> ELSE <<>>

StockedBy(mv, S) == RowsTotal([d \in S |-> mv[d]])
DoneOf(i, S) == S \cap Confirmed(i)

LEMMA InsLedger ==
  ASSUME NEW i, NEW mv, InsMoved(i, mv), NEW S \in SUBSET Ins
  PROVE  Ledger([d \in S |-> mv[d]], DoneOf(i, S), CountOf(i))
<1> DEFINE C == Confirmed(i)
           q == CountOf(i)
<1>1. /\ IsFiniteSet(DOMAIN mv) /\ S \in SUBSET DOMAIN mv
      /\ \A d \in DOMAIN mv : mv[d] = IF d \in C THEN <<q[d]>> ELSE <<>>
      /\ \A d \in S \cap C : q[d] \in Nat
  BY RowsAssumption DEF InsMoved, Confirmed, CountOf, InRow
<1> HIDE DEF C, q
<1>2. Ledger([d \in S |-> mv[d]], S \cap C, q)
  BY <1>1, CountsLedger
<1> QED BY <1>2 DEF C, q, DoneOf

LEMMA InsType ==
  ASSUME NEW i, NEW mv, InsMoved(i, mv), NEW S \in SUBSET Ins
  PROVE  StockedBy(mv, S) \in Nat /\ (DoneOf(i, S) = {} => StockedBy(mv, S) = 0)
<1> DEFINE R == [d \in S |-> mv[d]]
           q == CountOf(i)
<1>1. Ledger(R, DoneOf(i, S), q)
  BY InsLedger
<1> HIDE DEF R, q
<1>2. DoneOf(i, S) = {} => Ledger(R, {}, q)
  BY <1>1
<1> QED BY <1>1, <1>2, LedgerTotal, LedgerNone DEF StockedBy, R

\* Two states in which the same stock-ins of S, and of T, are confirmed.
SameDone(i, mv, S, j, mv2, T) ==
  /\ InsMoved(i, mv) /\ InsMoved(j, mv2) /\ S \in SUBSET Ins /\ T \in SUBSET Ins
  /\ DoneOf(j, T) = DoneOf(i, S)
  /\ \A e \in DoneOf(i, S) : j[e].qty = i[e].qty

LEMMA InsSame ==
  ASSUME NEW i, NEW mv, NEW S, NEW j, NEW mv2, NEW T, SameDone(i, mv, S, j, mv2, T)
  PROVE  StockedBy(mv2, T) = StockedBy(mv, S)
<1> DEFINE R == [d \in S |-> mv[d]]
           U == [d \in T |-> mv2[d]]
           C == DoneOf(i, S)
           v == CountOf(i)
           w == CountOf(j)
<1>1. Ledger(R, C, v) /\ Ledger(U, DoneOf(j, T), w)
  BY InsLedger DEF SameDone
<1>2. DoneOf(j, T) = C
  BY DEF SameDone
<1>3. \A e \in C : w[e] = v[e]
  BY DEF SameDone, CountOf, DoneOf, InsMoved
<1> HIDE DEF R, U, C, v, w
<1>4. RowsTotal(U) = RowsTotal(R)
  BY <1>1, <1>2, <1>3, LedgerSame
<1> QED BY <1>4 DEF StockedBy, R, U

\* Of T, the second state has one confirmed more, d.
MoreDone(i, mv, S, j, mv2, T, d) ==
  /\ InsMoved(i, mv) /\ InsMoved(j, mv2) /\ S \in SUBSET Ins /\ T \in SUBSET Ins
  /\ d \in Ins /\ d \notin DoneOf(i, S) /\ DoneOf(j, T) = DoneOf(i, S) \cup {d}
  /\ \A e \in DoneOf(i, S) : j[e].qty = i[e].qty

LEMMA InsMore ==
  ASSUME NEW i, NEW mv, NEW S, NEW j, NEW mv2, NEW T, NEW d, MoreDone(i, mv, S, j, mv2, T, d)
  PROVE  StockedBy(mv2, T) = StockedBy(mv, S) + j[d].qty
<1> DEFINE R == [e \in S |-> mv[e]]
           U == [e \in T |-> mv2[e]]
           C == DoneOf(i, S)
           v == CountOf(i)
           w == CountOf(j)
<1>1. Ledger(R, C, v) /\ Ledger(U, DoneOf(j, T), w)
  BY InsLedger DEF MoreDone
<1>2. DoneOf(j, T) = C \cup {d} /\ d \notin C
  BY DEF MoreDone
<1>3. (\A e \in C : w[e] = v[e]) /\ w[d] = j[d].qty
  BY DEF MoreDone, CountOf, DoneOf, InsMoved
<1> HIDE DEF R, U, C, v, w
<1>4. OneMore(R, U, C, d, v, w)
  BY <1>1, <1>2, <1>3 DEF OneMore
<1>5. RowsTotal(U) = RowsTotal(R) + w[d]
  BY <1>4, LedgerMore
<1> QED BY <1>3, <1>5 DEF StockedBy, R, U

-----------------------------------------------------------------------------
(* The books of the stock-ins, which hold as long as no confirmed one is edited. *)

OfCheck(i, c) == {d \in Ins : i[d].check = c}

InAccounts ==
  /\ buy_qty = StockedBy(inMoves, Ins)
  /\ \A c \in Checks : check[c].in_qty = StockedBy(inMoves, OfCheck(in, c))

InspectedEnough == \A c \in Checks : check[c].in_qty > 0 => check[c].in_qty <= check[c].qty

SInv == HInv /\ InsMoved(in, inMoves) /\ InAccounts /\ InspectedEnough

\* An inspection that is not confirmed has brought nothing into stock.
LEMMA NothingStocked ==
  ASSUME SInv, NEW c \in Checks, check[c].state # "done"
  PROVE  check[c].in_qty = 0
<1>1. DoneOf(in, OfCheck(in, c)) = {}
  BY DEF SInv, HInv, InsHang, DoneOf, OfCheck, Confirmed
<1>2. OfCheck(in, c) \in SUBSET Ins
  BY DEF OfCheck
<1> QED BY <1>1, <1>2, InsType DEF SInv, InAccounts

\* No move is made or deleted and no confirmed stock-in changes.
LEMMA InsKept ==
  ASSUME SInv, HInv', inMoves' = inMoves, buy_qty' = buy_qty,
         \A d \in Ins : /\ in'[d].state = "done" <=> in[d].state = "done"
                        /\ in[d].state = "done" => in'[d] = in[d],
         \A c \in Checks : /\ check'[c].in_qty = check[c].in_qty
                           /\ check[c].state = "done" => check'[c].qty = check[c].qty
  PROVE  SInv'
<1>1. in \in [Ins -> InRow] /\ in' \in [Ins -> InRow]
  BY DEF SInv, HInv, TInv, InsOK
<1>2. InsMoved(in, inMoves) /\ InsMoved(in', inMoves')
  BY <1>1 DEF SInv, InsMoved
<1>3. \A c \in Checks : StockedBy(inMoves', OfCheck(in', c)) = StockedBy(inMoves, OfCheck(in, c))
  <2> TAKE c \in Checks
  <2>1. SameDone(in, inMoves, OfCheck(in, c), in', inMoves', OfCheck(in', c))
    BY <1>1, <1>2 DEF SameDone, DoneOf, OfCheck, Confirmed
  <2> QED BY <2>1, InsSame
<1>4. InAccounts'
  BY <1>3 DEF SInv, InAccounts, StockedBy, OfCheck
<1>5. InspectedEnough'
  <2> SUFFICES ASSUME NEW c \in Checks, check'[c].in_qty > 0
               PROVE  check'[c].in_qty <= check'[c].qty
    BY DEF InspectedEnough
  <2>1. check[c].in_qty > 0
    OBVIOUS
  <2>2. check[c].state = "done"
    BY <2>1, NothingStocked
  <2> QED BY <2>1, <2>2 DEF SInv, InspectedEnough
<1>6. InsMoved(in, inMoves)'
  BY <1>2 DEF InsMoved
<1> QED BY <1>4, <1>5, <1>6 DEF SInv

LEMMA InsOrder ==
  ASSUME StaleForms = FALSE, SInv, HInv', OrderAct
  PROVE  SInv'
<1>t. /\ check \in [Checks -> CheckRow] /\ in \in [Ins -> InRow]
      /\ \A d \in Ins : in[d].state # "none" => in[d].check \in Checks
  BY DEF SInv, HInv, TInv, ChecksOK, InsOK, InHasCheck
<1>1. CASE Draft
  <2>1. \A c \in Checks : check[c].state # "done"
    BY <1>1, <1>t DEF Draft, AllDraft
  <2>2. \A c \in Checks : check[c].in_qty = 0
    BY <2>1, NothingStocked
  <2>3. \A d \in Ins : in[d].state = "none"
    BY <1>t, <2>1 DEF SInv, HInv, InsHang
  <2>4. \A d \in Ins : in'[d].state # "done"
    BY <1>1, <2>3 DEF Draft, NoIn
  <2>5. \A c \in Checks : check'[c].in_qty = 0
    BY <1>1 DEF Draft, NoCheck
  <2>6. inMoves' = inMoves /\ buy_qty' = buy_qty
    BY <1>1 DEF Draft
  <2> QED BY <2>1, <2>2, <2>3, <2>4, <2>5, <2>6, InsKept
<1>2. CASE ~Draft
  <2>1. UNCHANGED <<buy_qty, check, in, inMoves>>
    BY <1>2 DEF OrderAct, Start, Stop, Continue, Cancel, Done, SetState, MesPlmRefund, MesPlmPicking, EditQty,
                EditDoneQty, OnchangeLineId, EditNeed, orderVars, inVars
  <2> QED BY <2>1, InsKept
<1> QED BY <1>1, <1>2

LEMMA InsCheck ==
  ASSUME StaleForms = FALSE, SInv, HInv', CheckAct
  PROVE  SInv'
<1>t. /\ check \in [Checks -> CheckRow] /\ in \in [Ins -> InRow]
      /\ \A d \in Ins : in[d].state # "none" => in[d].check \in Checks /\ check[in[d].check].state = "done"
  BY DEF SInv, HInv, TInv, ChecksOK, InsOK, InHasCheck, InsHang
<1>1. CASE OusCreateQuality
  <2> DEFINE new == [NoCheck EXCEPT !.state = "draft", !.qty = qty - buy_qty]
  <2>1. PICK n \in Checks :
          /\ check[n].state \in {"none", "draft"}
          /\ check' = [c \in Checks |-> IF c = n THEN new
                                        ELSE IF c \in {e \in Checks : check[e].state = "draft"} THEN NoCheck ELSE check[c]]
    BY <1>1 DEF OusCreateQuality
  <2>2. new.in_qty = 0 /\ NoCheck.in_qty = 0
    BY DEF NoCheck
  <2> HIDE DEF new
  <2>3. \A c \in Checks : /\ check[c].state = "done" => check'[c] = check[c]
                          /\ check[c].state # "done" => check'[c].in_qty = 0 \/ check'[c] = check[c]
    BY <2>1, <2>2
  <2>4. \A c \in Checks : /\ check'[c].in_qty = check[c].in_qty
                          /\ check[c].state = "done" => check'[c].qty = check[c].qty
    BY <2>3, NothingStocked
  <2>5. \A d \in Ins : in'[d] = IF in[d].check \in {e \in Checks : check[e].state = "draft"} THEN NoIn ELSE in[d]
    BY <1>1 DEF OusCreateQuality
  <2>6. \A d \in Ins : /\ in'[d].state = "done" <=> in[d].state = "done"
                       /\ in[d].state = "done" => in'[d] = in[d]
    BY <1>t, <2>5 DEF NoIn
  <2>7. inMoves' = inMoves /\ buy_qty' = buy_qty
    BY <1>1 DEF OusCreateQuality, orderVars
  <2> QED BY <2>4, <2>6, <2>7, InsKept
<1>2. ASSUME NEW c \in Checks, QualityDone(c)
      PROVE  SInv'
  <2>1. PICK n \in Ins : in[n].state = "none" /\ in' = [in EXCEPT ![n] = [state |-> "draft", qty |-> check[c].qualified, check |-> c]]
    BY <1>2 DEF QualityDone
  <2>2. in'[n].state = "draft" /\ \A d \in Ins : d # n => in'[d] = in[d]
    BY <1>t, <2>1
  <2>3. check' = [check EXCEPT ![c] = [check[c] EXCEPT !.state = "done"]]
    BY <1>2 DEF QualityDone
  <2>4. \A e \in Checks : check'[e].in_qty = check[e].in_qty /\ check'[e].qty = check[e].qty
    BY <1>t, <2>3 DEF CheckRow
  <2>5. inMoves' = inMoves /\ buy_qty' = buy_qty
    BY <1>2 DEF QualityDone, orderVars
  <2> QED BY <2>1, <2>2, <2>4, <2>5, InsKept
<1>3. ASSUME NEW c \in Checks, QualityDraft(c)
      PROVE  SInv'
  <2>1. \A d \in Ins : /\ in'[d] = IF in[d].check = c THEN NoIn ELSE in[d]
                       /\ in[d].check = c => in[d].state = "draft"
    BY <1>3 DEF QualityDraft
  <2>2. check' = [check EXCEPT ![c] = [check[c] EXCEPT !.state = "draft"]]
    BY <1>3 DEF QualityDraft
  <2>3. \A e \in Checks : check'[e].in_qty = check[e].in_qty /\ check'[e].qty = check[e].qty
    BY <1>t, <2>2 DEF CheckRow
  <2>4. inMoves' = inMoves /\ buy_qty' = buy_qty
    BY <1>3 DEF QualityDraft, orderVars
  <2>5. NoIn.state = "none"
    BY DEF NoIn
  <2> QED BY <2>1, <2>3, <2>4, <2>5, InsKept
<1>4. ASSUME NEW c \in Checks, QualityCancel(c) \/ \E q \in Qualities : EditQualified(c, q)
      PROVE  SInv'
  <2>1. UNCHANGED <<buy_qty, in, inMoves>>
    BY <1>4 DEF QualityCancel, EditQualified, orderVars, inVars
  <2>2. \A e \in Checks : check'[e].in_qty = check[e].in_qty /\ check'[e].qty = check[e].qty
    BY <1>4, <1>t DEF QualityCancel, EditQualified, CheckRow
  <2> QED BY <2>1, <2>2, InsKept
<1> QED BY <1>1, <1>2, <1>3, <1>4 DEF CheckAct

LEMMA InsIn ==
  ASSUME StaleForms = FALSE, LateEdits = FALSE, SInv, HInv', NEW d \in Ins, InAct(d)
  PROVE  SInv'
<1>t. /\ check \in [Checks -> CheckRow] /\ in \in [Ins -> InRow] /\ in' \in [Ins -> InRow]
      /\ \A e \in Ins : in[e].state # "none" => in[e].check \in Checks
      /\ InsMoved(in, inMoves) /\ InAccounts /\ InspectedEnough
      /\ inMoves = [e \in Ins |-> inMoves[e]] /\ DOMAIN inMoves = Ins
      /\ inMoves' = [e \in Ins |-> inMoves'[e]]
  BY DEF SInv, HInv, TInv, ChecksOK, InsOK, InHasCheck, InsMoved
<1> DEFINE c == in[d].check
<1>b. /\ buy_qty \in Int /\ in[d].qty \in Nat
      /\ \A e \in Checks : check[e].in_qty \in Int /\ check[e].qty \in Int
  BY <1>t DEF SInv, HInv, TInv, OrderOK, InRow, CheckRow
<1>1. CASE InDone(d)
  <2>1. PICK rest \in [state : {"draft"}, qty : Nat, check : {c}] :
              \/ in' = [in EXCEPT ![d].state = "done"]
              \/ \E n \in Ins : in[n].state = "none" /\ in' = [[in EXCEPT ![d].state = "done"] EXCEPT ![n] = rest]
    BY <1>1, InDoneShape DEF SInv, HInv
  <2>2. in[d].state = "draft" /\ c \in Checks
    BY <1>1, <1>t DEF InDone, Shown
  <2>3. /\ in'[d].state = "done" /\ in'[d].check = c /\ in'[d].qty = in[d].qty
        /\ \A e \in Ins : e # d => /\ in'[e].state = "done" <=> in[e].state = "done"
                                   /\ in[e].state = "done" => in'[e] = in[e]
    <3> DEFINE mine == [in[d] EXCEPT !.state = "done"]
               row == [in EXCEPT ![d] = mine]
    <3>1. mine.check = c /\ mine.qty = in[d].qty /\ mine.state = "done"
      BY <1>t DEF InRow
    <3>2. in' = row \/ \E n \in Ins : in[n].state = "none" /\ in' = [row EXCEPT ![n] = rest]
      BY <2>1
    <3> HIDE DEF mine
    <3>3. DOMAIN row = Ins /\ row[d] = mine /\ \A e \in Ins : e # d => row[e] = in[e]
      BY <1>t
    <3>4. rest.state = "draft"
      BY <2>1
    <3> HIDE DEF row
    <3> QED BY <2>2, <3>1, <3>2, <3>3, <3>4
  <2>4. \A e \in Ins : inMoves'[e] = IF in'[e].state = "done" THEN <<in'[e].qty>> ELSE <<>>
    <3>1. \A e \in Ins : inMoves[e] = IF in[e].state = "done" THEN <<in[e].qty>> ELSE <<>>
      BY <1>t DEF InsMoved
    <3>2. inMoves' = [inMoves EXCEPT ![d] = Append(inMoves[d], in[d].qty)]
      BY <1>1 DEF InDone
    <3>3. inMoves[d] = <<>> /\ Append(<<>>, in[d].qty) = <<in[d].qty>>
      BY <2>2, <3>1, AppendFirst
    <3>4. inMoves' = [inMoves EXCEPT ![d] = <<in[d].qty>>]
      BY <3>2, <3>3
    <3>5. inMoves'[d] = <<in[d].qty>> /\ \A e \in Ins : e # d => inMoves'[e] = inMoves[e]
      BY <1>t, <3>4
    <3>6. ASSUME NEW e \in Ins, e # d
          PROVE  inMoves'[e] = IF in'[e].state = "done" THEN <<in'[e].qty>> ELSE <<>>
      <4>1. in'[e].state = "done" <=> in[e].state = "done"
        BY <2>3, <3>6
      <4>2. CASE in[e].state = "done"
        BY <2>3, <3>1, <3>5, <3>6, <4>2
      <4>3. CASE in[e].state # "done"
        BY <3>1, <3>5, <3>6, <4>1, <4>3
      <4> QED BY <4>2, <4>3
    <3>7. inMoves'[d] = IF in'[d].state = "done" THEN <<in'[d].qty>> ELSE <<>>
      BY <2>3, <3>5
    <3> QED BY <3>6, <3>7
  <2>5. InsMoved(in', inMoves')
    BY <1>t, <2>4 DEF InsMoved
  <2>6. StockedBy(inMoves', Ins) = StockedBy(inMoves, Ins) + in[d].qty
    <3>1. MoreDone(in, inMoves, Ins, in', inMoves', Ins, d)
      BY <1>t, <2>2, <2>3, <2>5 DEF MoreDone, DoneOf, Confirmed
    <3> QED BY <2>3, <3>1, InsMore
  <2>7. StockedBy(inMoves', OfCheck(in', c)) = StockedBy(inMoves, OfCheck(in, c)) + in[d].qty
    <3>1. MoreDone(in, inMoves, OfCheck(in, c), in', inMoves', OfCheck(in', c), d)
      BY <1>t, <2>2, <2>3, <2>5 DEF MoreDone, DoneOf, OfCheck, Confirmed
    <3> QED BY <2>3, <3>1, InsMore
  <2>8. \A e \in Checks : e # c => StockedBy(inMoves', OfCheck(in', e)) = StockedBy(inMoves, OfCheck(in, e))
    <3> SUFFICES ASSUME NEW e \in Checks, e # c
                 PROVE  StockedBy(inMoves', OfCheck(in', e)) = StockedBy(inMoves, OfCheck(in, e))
      OBVIOUS
    <3>1. SameDone(in, inMoves, OfCheck(in, e), in', inMoves', OfCheck(in', e))
      BY <1>t, <2>2, <2>3, <2>5 DEF SameDone, DoneOf, OfCheck, Confirmed
    <3> QED BY <3>1, InsSame
  <2>9. /\ buy_qty' = buy_qty + in[d].qty
        /\ check' = [check EXCEPT ![c] = [check[c] EXCEPT !.in_qty = check[c].in_qty + in[d].qty]]
        /\ in[d].qty + check[c].in_qty <= check[c].qty
    BY <1>1 DEF InDone, CanStock
  <2>10. /\ check'[c].in_qty = check[c].in_qty + in[d].qty /\ check'[c].qty = check[c].qty
         /\ \A e \in Checks : e # c => check'[e] = check[e]
    BY <1>t, <2>2, <2>9 DEF CheckRow
  <2>11. InAccounts'
    <3>1. \A e \in Checks : check'[e].in_qty = StockedBy(inMoves', OfCheck(in', e))
      BY <1>t, <2>7, <2>8, <2>10 DEF InAccounts
    <3>2. buy_qty' = StockedBy(inMoves', Ins)
      BY <1>t, <2>6, <2>9 DEF InAccounts
    <3> QED BY <3>1, <3>2 DEF InAccounts, StockedBy, OfCheck
  <2>12. InspectedEnough'
    BY <1>t, <1>b, <2>2, <2>9, <2>10 DEF InspectedEnough
  <2> QED BY <2>5, <2>11, <2>12 DEF SInv, InsMoved
<1>2. CASE InDraft(d)
  <2>1. in[d].state = "done" /\ c \in Checks
    BY <1>2, <1>t DEF InDraft, Shown
  <2>2. in'[d] = [in[d] EXCEPT !.state = "draft"] /\ \A n \in Ins : n # d => in'[n] = IF in[n].state = "draft" THEN NoIn ELSE in[n]
    BY <1>2 DEF InDraft
  <2>3. /\ in'[d].state = "draft" /\ in'[d].check = c
        /\ \A e \in Ins : e # d => /\ in'[e].state = "done" <=> in[e].state = "done"
                                   /\ in[e].state = "done" => in'[e] = in[e]
    BY <1>t, <2>2 DEF InRow, NoIn
  <2>4. \A e \in Ins : inMoves'[e] = IF in'[e].state = "done" THEN <<in'[e].qty>> ELSE <<>>
    <3>1. \A e \in Ins : inMoves[e] = IF in[e].state = "done" THEN <<in[e].qty>> ELSE <<>>
      BY <1>t DEF InsMoved
    <3>2. inMoves' = [inMoves EXCEPT ![d] = << >>]
      BY <1>2 DEF InDraft
    <3>3. inMoves'[d] = << >> /\ \A e \in Ins : e # d => inMoves'[e] = inMoves[e]
      BY <1>t, <3>2
    <3> QED BY <2>3, <3>1, <3>3
  <2>5. InsMoved(in', inMoves')
    BY <1>t, <2>4 DEF InsMoved
  <2>6. StockedBy(inMoves, Ins) = StockedBy(inMoves', Ins) + in[d].qty
    <3>1. MoreDone(in', inMoves', Ins, in, inMoves, Ins, d)
      BY <1>t, <2>1, <2>3, <2>5 DEF MoreDone, DoneOf, Confirmed
    <3> QED BY <3>1, InsMore
  <2>7. StockedBy(inMoves, OfCheck(in, c)) = StockedBy(inMoves', OfCheck(in', c)) + in[d].qty
    <3>1. MoreDone(in', inMoves', OfCheck(in', c), in, inMoves, OfCheck(in, c), d)
      BY <1>t, <2>1, <2>3, <2>5 DEF MoreDone, DoneOf, OfCheck, Confirmed
    <3> QED BY <3>1, InsMore
  <2>8. \A e \in Checks : e # c => StockedBy(inMoves', OfCheck(in', e)) = StockedBy(inMoves, OfCheck(in, e))
    <3> SUFFICES ASSUME NEW e \in Checks, e # c
                 PROVE  StockedBy(inMoves', OfCheck(in', e)) = StockedBy(inMoves, OfCheck(in, e))
      OBVIOUS
    <3>1. SameDone(in, inMoves, OfCheck(in, e), in', inMoves', OfCheck(in', e))
      BY <1>t, <2>1, <2>3, <2>5 DEF SameDone, DoneOf, OfCheck, Confirmed
    <3> QED BY <3>1, InsSame
  <2>9. /\ buy_qty' = buy_qty - in[d].qty
        /\ check' = [check EXCEPT ![c] = [check[c] EXCEPT !.in_qty = check[c].in_qty - in[d].qty]]
    BY <1>2 DEF InDraft
  <2>10. /\ check'[c].in_qty = check[c].in_qty - in[d].qty /\ check'[c].qty = check[c].qty
         /\ \A e \in Checks : e # c => check'[e] = check[e]
    BY <1>t, <2>1, <2>9 DEF CheckRow
  <2>n. StockedBy(inMoves', Ins) \in Nat /\ StockedBy(inMoves', OfCheck(in', c)) \in Nat
    <3>1. OfCheck(in', c) \in SUBSET Ins /\ Ins \in SUBSET Ins
      BY DEF OfCheck
    <3> QED BY <2>5, <3>1, InsType
  <2>11. InAccounts'
    <3>1. \A e \in Checks : e # c => check'[e].in_qty = StockedBy(inMoves', OfCheck(in', e))
      BY <1>t, <2>8, <2>10 DEF InAccounts
    <3>2. check[c].in_qty = StockedBy(inMoves, OfCheck(in, c)) /\ buy_qty = StockedBy(inMoves, Ins)
      BY <1>t, <2>1 DEF InAccounts
    <3>3. check'[c].in_qty = StockedBy(inMoves', OfCheck(in', c)) /\ buy_qty' = StockedBy(inMoves', Ins)
      BY <1>b, <2>6, <2>7, <2>9, <2>10, <2>n, <3>2
    <3> QED BY <3>1, <3>3 DEF InAccounts, StockedBy, OfCheck
  <2>12. InspectedEnough'
    BY <1>t, <1>b, <2>1, <2>10 DEF InspectedEnough
  <2> QED BY <2>5, <2>11, <2>12 DEF SInv, InsMoved
<1>3. CASE InCancel(d) \/ \E q \in Quantities : EditIn(d, q)
  <2>1. in[d].state = "draft" /\ UNCHANGED <<buy_qty, check, inMoves>>
    BY <1>3 DEF Shown, InCancel, EditIn, Editable, orderVars
  <2>2. in'[d].state # "done" /\ \A e \in Ins : e # d => in'[e] = in[e]
    BY <1>3, <1>t, <2>1 DEF InCancel, EditIn, InRow
  <2> QED BY <2>1, <2>2, InsKept
<1> QED BY <1>1, <1>2, <1>3 DEF InAct

LEMMA InsStep ==
  ASSUME StaleForms = FALSE, LateEdits = FALSE, SInv, [AnyNext]_vars
  PROVE  SInv'
<1>1. HInv'
  BY HangStep DEF SInv
<1>2. CASE UNCHANGED vars \/ (\E p \in Picks : PickAct(p)) \/ \E r \in Refunds : RefundAct(r)
  <2>1. UNCHANGED <<buy_qty, check, in, inMoves>>
    BY <1>2 DEF vars, orderVars, inVars, PickAct, PickDone, PickDraft, PickCancel, EditPickLine, RemovePickLine,
                RefundAct, RefundDone, RefundDraft, RefundCancel, EditRefundLine, RemoveRefundLine
  <2> QED BY <1>1, <2>1, InsKept
<1> QED BY <1>1, <1>2, InsOrder, InsCheck, InsIn DEF AnyNext

LEMMA InsInit == Init => SInv
<1> SUFFICES ASSUME Init PROVE SInv
  OBVIOUS
<1>1. HInv /\ in \in [Ins -> InRow] /\ inMoves \in [Ins -> Seq(Nat)]
  BY HangInit DEF HInv, TInv, InsOK
<1>2. \A d \in Ins : in[d].state # "done" /\ inMoves[d] = <<>>
  BY DEF Init, NoIn
<1>3. InsMoved(in, inMoves)
  BY <1>1, <1>2 DEF InsMoved
<1>4. \A S \in SUBSET Ins : StockedBy(inMoves, S) = 0
  <2> TAKE S \in SUBSET Ins
  <2>1. DoneOf(in, S) = {}
    BY <1>2 DEF DoneOf, Confirmed
  <2> QED BY <1>3, <2>1, InsType
<1>5. \A c \in Checks : OfCheck(in, c) \in SUBSET Ins
  BY DEF OfCheck
<1>6. buy_qty = 0 /\ \A c \in Checks : check[c].in_qty = 0
  BY DEF Init, NoCheck
<1> QED BY <1>1, <1>3, <1>4, <1>5, <1>6 DEF SInv, InAccounts, InspectedEnough

-----------------------------------------------------------------------------
(* The books as a whole. *)

LEMMA BooksStep ==
  ASSUME StaleForms = FALSE, LateEdits = FALSE, PInv, RInv, SInv, [AnyNext]_vars
  PROVE  PInv' /\ RInv' /\ SInv'
BY PicksStep, RefundsStep, InsStep

LEMMA BooksInit == Init => PInv /\ RInv /\ SInv
BY PicksInit, RefundsInit, InsInit

LEMMA Books == PInv /\ RInv /\ SInv => BooksAgree
<1> SUFFICES ASSUME PInv, RInv, SInv PROVE BooksAgree
  OBVIOUS
<1>1. MaterialAccounts
  BY DEF PInv, RInv, PickAccounts, RefundAccounts, MaterialAccounts
<1>2. SheetLedger
  BY DEF PInv, RInv, SInv, SheetsMoved, InsMoved, SheetLedger
<1>3. StockAccounts
  BY DEF SInv, InAccounts, StockedBy, OfCheck, StockAccounts, Stocked
<1> QED BY <1>1, <1>2, <1>3 DEF BooksAgree

\* When forms show the present state of their row and nobody edits a confirmed
\* sheet, the books of a production order agree: its counters, and those of its
\* inspections, are what the stock ledger says, one move for each confirmed sheet.
THEOREM BooksCorrect ==
  ASSUME StaleForms = FALSE, LateEdits = FALSE
  PROVE  Spec => []BooksAgree
<1> QED BY BooksInit, ProductionStep, BooksStep, Books, PTL DEF Spec

\* The books of an outsourced order agree too, although its inspections are made
\* earlier and the confirmation of a refund always fails: each one that did
\* happen has written its counters and its move together.
THEOREM OusBooksCorrect ==
  ASSUME StaleForms = FALSE, LateEdits = FALSE
  PROVE  OusSpec => []BooksAgree
<1> QED BY BooksInit, OutsourcedStep, BooksStep, Books, PTL DEF OusSpec

LEMMA Inspected == SInv => StockedWithinInspected
BY DEF SInv, InAccounts, InspectedEnough, StockedBy, OfCheck, StockedWithinInspected, Stocked

\* Under the same hypotheses, not more of an inspection is brought into stock
\* than was inspected, although an inspection of an order may be replaced.
THEOREM StockedWithin ==
  ASSUME StaleForms = FALSE, LateEdits = FALSE
  PROVE  Spec => []StockedWithinInspected
<1> QED BY InsInit, ProductionStep, InsStep, Inspected, PTL DEF Spec
=============================================================================
