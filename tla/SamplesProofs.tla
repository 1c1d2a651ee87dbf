--------------------------- MODULE SamplesProofs ---------------------------
(***************************************************************************)
(* Proofs about Samples, for every set of materials, documents, quantities *)
(* and every bill of material.  Types and what hangs on what hold with     *)
(* late edits of stock-ins too, the books without them.                    *)
(***************************************************************************)
EXTENDS Samples, SumsProofs

-----------------------------------------------------------------------------
(* The sample's own rows: types, and what hangs on what. *)

RowsOK ==
  /\ apply \in [state : DocStates \ {"none"}, qty : Nat, filled : BOOLEAN]
  /\ order \in [state : DocStates, qty : Nat, in_qty : Int]
  /\ lines \in [Materials -> [need : Nat, neck : Int, picked : Int]]
  /\ pick \in [Picks -> Sheet]
  /\ in \in [Ins -> [state : DocStates, qty : Nat]]

IInv == RowsOK /\ ConfirmedHangsOnConfirmed

LEMMA InvInit == Init => IInv
BY DEF Init, IInv, RowsOK, ConfirmedHangsOnConfirmed, NoOrder, NoLines, NoSheet, NoIn,
       Sheet, Line, Absent, DocStates

LEMMA ApplyStep ==
  ASSUME IInv,
         \/ ApplyDone \/ ApplyDraft \/ ApplyCancel
         \/ \E q \in Amounts, filled \in BOOLEAN : EditApply(q, filled)
  PROVE  IInv'
<1> USE DEF IInv, RowsOK, ConfirmedHangsOnConfirmed, DocStates, pickVars, inVars
<1>1. CASE ApplyDone
  <2>1. \A m \in Materials : Bom[m] * apply.qty \in Nat
    BY SamplesAssumption
  <2> QED BY <1>1, <2>1 DEF ApplyDone
<1>2. CASE ApplyDraft
  BY <1>2 DEF ApplyDraft, NoOrder, NoLines
<1>3. CASE ApplyCancel
  BY <1>3 DEF ApplyCancel
<1>4. ASSUME NEW q \in Amounts, NEW filled \in BOOLEAN, EditApply(q, filled)
      PROVE  IInv'
  BY <1>4, SamplesAssumption DEF EditApply
<1> QED BY <1>1, <1>2, <1>3, <1>4

LEMMA NewPickType ==
  ASSUME NEW S \in SUBSET Materials, NEW amount, \A m \in S : amount[m] \in Nat
  PROVE  NewPick(S, amount) \in Sheet /\ NewPick(S, amount).state = "draft"
BY DEF NewPick, Sheet, Line, Absent, DocStates

LEMMA NoSheetType == NoSheet \in Sheet /\ NoSheet.state = "none"
BY DEF NoSheet, Sheet, Line, Absent, DocStates

LEMMA OrderStep ==
  ASSUME IInv,
         \/ OrderDone \/ OrderDraft \/ OrderCancel \/ OrderSampleIn \/ OrderSamplePicking
         \/ \E m \in Materials, q \in Quantities : EditNeed(m, q)
  PROVE  IInv'
<1> USE DEF IInv, RowsOK, ConfirmedHangsOnConfirmed, DocStates, pickVars, inVars
<1>1. CASE OrderDone
  <2>1. PICK p \in Picks :
          pick' = [pick EXCEPT ![p] = NewPick(Materials, [m \in Materials |-> lines[m].need])]
    BY <1>1 DEF OrderDone
  <2>2. NewPick(Materials, [m \in Materials |-> lines[m].need]) \in Sheet
    BY NewPickType
  <2> QED BY <1>1, <2>1, <2>2 DEF OrderDone
<1>2. CASE OrderDraft
  BY <1>2, NoSheetType DEF OrderDraft, NoIn
<1>3. CASE OrderCancel
  BY <1>3 DEF OrderCancel
<1>4. CASE OrderSampleIn
  BY <1>4 DEF OrderSampleIn
<1>5. CASE OrderSamplePicking
  <2> DEFINE open == {m \in Materials : lines[m].neck > 0}
             new == NewPick(open, [m \in Materials |-> lines[m].neck])
  <2>1. new \in Sheet
    BY NewPickType
  <2>2. pick' \in [Picks -> Sheet]
    <3> HIDE DEF new
    <3> QED BY <1>5, <2>1, NoSheetType DEF OrderSamplePicking, new
  <2> QED BY <1>5, <2>2 DEF OrderSamplePicking
<1>6. ASSUME NEW m \in Materials, NEW q \in Quantities, EditNeed(m, q)
      PROVE  IInv'
  BY <1>6, StockAssumption DEF EditNeed
<1> QED BY <1>1, <1>2, <1>3, <1>4, <1>5, <1>6

LEMMA CountersType ==
  ASSUME NEW c \in [need : Nat, neck : Int, picked : Int], NEW a \in Int, NEW b \in Int
  PROVE  [c EXCEPT !.neck = a, !.picked = b] \in [need : Nat, neck : Int, picked : Int]
OBVIOUS

LEMMA SheetLineType ==
  ASSUME NEW s \in Sheet, NEW m \in Materials, NEW S \in SUBSET Materials, NEW l \in Line
  PROVE  [s EXCEPT !.mats = S, !.lines[m] = l] \in Sheet
BY DEF Sheet

LEMMA PickStep ==
  ASSUME IInv, NEW p \in Picks,
         \/ PickDone(p) \/ PickDraft(p) \/ PickCancel(p)
         \/ \E m \in Materials, q \in Quantities : EditPickLine(p, m, q)
         \/ \E m \in Materials : RemovePickLine(p, m)
  PROVE  IInv'
<1> USE DEF IInv, RowsOK, ConfirmedHangsOnConfirmed, inVars
<1>a. /\ pick[p] \in Sheet /\ \A s \in {"draft", "done", "cancel"} : [pick[p] EXCEPT !.state = s] \in Sheet
      /\ \A m \in Materials : pick[p].lines[m].qty \in Nat
  <2> HIDE DEF IInv, ConfirmedHangsOnConfirmed
  <2>1. pick[p] \in Sheet
    BY DEF IInv, RowsOK
  <2>2. ASSUME NEW m \in Materials PROVE pick[p].lines[m].qty \in Nat
    <3>1. pick[p].lines[m] \in Line
      BY <2>1 DEF Sheet
    <3> QED BY <3>1 DEF Line
  <2>3. ASSUME NEW s \in {"draft", "done", "cancel"} PROVE [pick[p] EXCEPT !.state = s] \in Sheet
    BY <2>1 DEF Sheet, DocStates
  <2> QED BY <2>1, <2>2, <2>3
<1>b. \A m \in Materials : lines[m] \in [need : Nat, neck : Int, picked : Int]
  OBVIOUS
<1>1. CASE PickDone(p)
  <2> DEFINE new == [m \in Materials |->
        [lines[m] EXCEPT !.neck = lines[m].neck - pick[p].lines[m].qty,
                         !.picked = lines[m].picked + pick[p].lines[m].qty]]
  <2>1. new \in [Materials -> [need : Nat, neck : Int, picked : Int]]
    <3>1. ASSUME NEW m \in Materials
          PROVE  new[m] \in [need : Nat, neck : Int, picked : Int]
      <4>1. lines[m].neck - pick[p].lines[m].qty \in Int /\ lines[m].picked + pick[p].lines[m].qty \in Int
        BY <1>a, <1>b
      <4> QED BY <4>1, <1>b, CountersType
    <3> QED BY <3>1
  <2>2. lines' = new
    BY <1>1 DEF PickDone
  <2>3. lines' \in [Materials -> [need : Nat, neck : Int, picked : Int]]
    BY <2>1, <2>2
  <2> HIDE DEF new
  <2> QED BY <1>1, <1>a, <2>3 DEF PickDone
<1>2. CASE PickDraft(p)
  <2> DEFINE new == [m \in Materials |->
        [lines[m] EXCEPT !.neck = lines[m].neck + pick[p].lines[m].qty,
                         !.picked = lines[m].picked - pick[p].lines[m].qty]]
  <2>1. new \in [Materials -> [need : Nat, neck : Int, picked : Int]]
    <3>1. ASSUME NEW m \in Materials
          PROVE  new[m] \in [need : Nat, neck : Int, picked : Int]
      <4>1. lines[m].neck + pick[p].lines[m].qty \in Int /\ lines[m].picked - pick[p].lines[m].qty \in Int
        BY <1>a, <1>b
      <4> QED BY <4>1, <1>b, CountersType
    <3> QED BY <3>1
  <2>2. lines' = new
    BY <1>2 DEF PickDraft
  <2>3. lines' \in [Materials -> [need : Nat, neck : Int, picked : Int]]
    BY <2>1, <2>2
  <2> HIDE DEF new
  <2> QED BY <1>2, <1>a, <2>3 DEF PickDraft
<1>3. CASE PickCancel(p)
  BY <1>3, <1>a DEF PickCancel
<1>4. ASSUME NEW m \in Materials, NEW q \in Quantities, EditPickLine(p, m, q)
      PROVE  IInv'
  BY <1>4, StockAssumption DEF EditPickLine, Sheet, Line
<1>5. ASSUME NEW m \in Materials, RemovePickLine(p, m)
      PROVE  IInv'
  <2>1. Absent \in Line
    BY DEF Absent, Line
  <2>2. pick[p].mats \ {m} \in SUBSET Materials /\ pick[p].state = "draft"
    BY <1>5, <1>a DEF RemovePickLine, Sheet
  <2> DEFINE sheet == [pick[p] EXCEPT !.mats = pick[p].mats \ {m}, !.lines[m] = Absent]
  <2>3. sheet \in Sheet
    BY <2>1, <2>2, <1>a, SheetLineType
  <2>4. pick' = [pick EXCEPT ![p] = sheet]
    BY <1>5 DEF RemovePickLine
  <2>5. pick' \in [Picks -> Sheet]
    BY <2>3, <2>4
  <2> QED BY <1>5, <2>5 DEF RemovePickLine
<1> QED BY <1>1, <1>2, <1>3, <1>4, <1>5

LEMMA InStep ==
  ASSUME IInv, NEW d \in Ins,
         \/ InDone(d) \/ InDraft(d) \/ InCancel(d)
         \/ \E q \in Quantities : EditIn(d, q)
  PROVE  IInv'
<1> USE DEF IInv, RowsOK, ConfirmedHangsOnConfirmed, DocStates, pickVars
<1>1. CASE InDone(d)
  <2>1. order' = [order EXCEPT !.in_qty = order.in_qty + in[d].qty]
    BY <1>1 DEF InDone
  <2>2. order' \in [state : DocStates, qty : Nat, in_qty : Int] /\ order'.state = order.state
    BY <2>1
  <2>3. [in EXCEPT ![d].state = "done"] \in [Ins -> [state : DocStates, qty : Nat]]
    OBVIOUS
  <2>4. in' \in [Ins -> [state : DocStates, qty : Nat]]
    <3> DEFINE rest == [state |-> "draft", qty |-> order.qty - (order.in_qty + in[d].qty)]
    <3>0. order.qty > order.in_qty + in[d].qty => order.qty - (order.in_qty + in[d].qty) \in Nat
      OBVIOUS
    <3>1. \/ in' = [in EXCEPT ![d].state = "done"]
          \/ rest.qty \in Nat /\ \E n \in Ins : in' = [[in EXCEPT ![d].state = "done"] EXCEPT ![n] = rest]
      BY <1>1, <3>0 DEF InDone
    <3>2. rest.qty \in Nat => rest \in [state : DocStates, qty : Nat]
      OBVIOUS
    <3> HIDE DEF rest
    <3> QED BY <2>3, <3>1, <3>2
  <2>5. order.state = "done"
    BY <1>1 DEF InDone
  <2> QED BY <1>1, <2>2, <2>4, <2>5 DEF InDone
<1>2. CASE InDraft(d)
  BY <1>2 DEF InDraft, NoIn
<1>3. CASE InCancel(d)
  BY <1>3 DEF InCancel
<1>4. ASSUME NEW q \in Quantities, EditIn(d, q)
      PROVE  IInv'
  BY <1>4, StockAssumption DEF EditIn
<1> QED BY <1>1, <1>2, <1>3, <1>4

LEMMA InvStep == IInv /\ [Next]_vars => IInv'
<1> SUFFICES ASSUME IInv, [Next]_vars PROVE IInv'
  OBVIOUS
<1>1. CASE UNCHANGED <<apply, order, lines, pickVars, inVars>>
  BY <1>1 DEF IInv, RowsOK, ConfirmedHangsOnConfirmed, pickVars, inVars
<1>2. CASE UNCHANGED vars
  BY <1>1, <1>2 DEF vars
<1> QED BY <1>1, <1>2, ApplyStep, OrderStep, PickStep, InStep DEF Next

(* An order exists for a confirmed application only, a picking or a stock-in *)
(* for a confirmed order only, and the undo of neither leaves them behind,   *)
(* whatever is undone, cancelled or edited late in whatever order.           *)
THEOREM HangsTogether == Spec => []ConfirmedHangsOnConfirmed
<1>1. IInv => ConfirmedHangsOnConfirmed
  BY DEF IInv
<1> QED BY <1>1, InvInit, InvStep, PTL DEF Spec

-----------------------------------------------------------------------------
(* The manual documents and their moves. *)

Move == [state : {"none", "draft", "done"}, amount : [Materials -> Nat]]

LEMMA StockFrame ==
  ASSUME [Next]_vars
  PROVE  StockNext \/ UNCHANGED stockVars
<1>1. CASE UNCHANGED vars
  BY <1>1 DEF vars
<1>2. CASE ApplyDone \/ ApplyDraft \/ ApplyCancel \/ \E q \in Amounts, filled \in BOOLEAN : EditApply(q, filled)
  BY <1>2 DEF ApplyDone, ApplyDraft, ApplyCancel, EditApply
<1>3. CASE \/ OrderDone \/ OrderDraft \/ OrderCancel \/ OrderSampleIn \/ OrderSamplePicking
           \/ \E m \in Materials, q \in Quantities : EditNeed(m, q)
  BY <1>3 DEF OrderDone, OrderDraft, OrderCancel, OrderSampleIn, OrderSamplePicking, EditNeed
<1>4. ASSUME NEW p \in Picks,
             \/ PickDone(p) \/ PickDraft(p) \/ PickCancel(p)
             \/ \E m \in Materials, q \in Quantities : EditPickLine(p, m, q)
             \/ \E m \in Materials : RemovePickLine(p, m)
      PROVE  UNCHANGED stockVars
  BY <1>4 DEF PickDone, PickDraft, PickCancel, EditPickLine, RemovePickLine
<1>5. ASSUME NEW d \in Ins,
             InDone(d) \/ InDraft(d) \/ InCancel(d) \/ \E q \in Quantities : EditIn(d, q)
      PROVE  UNCHANGED stockVars
  BY <1>5 DEF InDone, InDraft, InCancel, EditIn
<1> QED BY <1>1, <1>2, <1>3, <1>4, <1>5 DEF Next

\* What an action does to the moves of one document keeps them moves.
Relabelled(s, T, to) ==
  [i \in DOMAIN s |-> IF s[i].state \in T THEN [s[i] EXCEPT !.state = to] ELSE s[i]]

LEMMA RelabelType ==
  ASSUME NEW s \in Seq(Move), NEW T, NEW to \in {"none", "draft", "done"}
  PROVE  Relabelled(s, T, to) \in Seq(Move)
<1> DEFINE f == [i \in DOMAIN s |-> IF s[i].state \in T THEN [s[i] EXCEPT !.state = to] ELSE s[i]]
<1>1. DOMAIN s = 1..Len(s) /\ Len(s) \in Nat
  OBVIOUS
<1>2. \A i \in DOMAIN s : s[i] \in Move
  OBVIOUS
<1>3. \A i \in DOMAIN s : f[i] \in Move
  BY <1>2 DEF Move
<1>4. f \in [1..Len(s) -> Move]
  BY <1>1, <1>3
<1> HIDE DEF f
<1>5. f \in Seq(Move)
  BY <1>1, <1>4
<1> QED BY <1>5 DEF f, Relabelled

\* DocumentLedger without counting.
Shape(d) ==
  IF doc[d].state = "done"
  THEN \E i : DoneMoves(d) = {i} /\ docMoves[d][i].amount = Amount(doc[d])
  ELSE DoneMoves(d) = {}

StockInv == StockTypeOK /\ DocumentLedger

LEMMA LedgerShape ==
  ASSUME StockInv
  PROVE  \A d \in MoveDocs : Shape(d)
<1> SUFFICES ASSUME NEW d \in MoveDocs PROVE Shape(d)
  OBVIOUS
<1>1. IsFiniteSet(DoneMoves(d))
  <2>1. docMoves[d] \in Seq(Move)
    BY DEF StockInv, StockTypeOK, Move
  <2>2. DOMAIN docMoves[d] = 1..Len(docMoves[d]) /\ Len(docMoves[d]) \in Nat
    BY <2>1
  <2> DEFINE n == Len(docMoves[d])
  <2>3. DoneMoves(d) \in SUBSET (1..n) /\ n \in Int
    BY <2>2 DEF DoneMoves
  <2> HIDE DEF n
  <2>4. IsFiniteSet(1..n)
    BY <2>3, FS_Interval
  <2> QED BY <2>3, <2>4, FS_Subset
<1>2. /\ Cardinality(DoneMoves(d)) = (IF doc[d].state = "done" THEN 1 ELSE 0)
      /\ \A i \in DoneMoves(d) : docMoves[d][i].amount = Amount(doc[d])
  BY DEF StockInv, DocumentLedger
<1>3. CASE doc[d].state = "done"
  <2>1. PICK i : DoneMoves(d) = {i}
    BY <1>1, <1>2, <1>3, FS_Singleton
  <2> QED BY <1>2, <1>3, <2>1 DEF Shape
<1>4. CASE doc[d].state # "done"
  BY <1>1, <1>2, <1>4, FS_EmptySet DEF Shape
<1> QED BY <1>3, <1>4

LEMMA ShapeLedger ==
  ASSUME \A d \in MoveDocs : Shape(d)'
  PROVE  DocumentLedger'
<1>1. \A S : (\E i : S = {i}) => Cardinality(S) = 1
  BY FS_Singleton
<1>2. Cardinality({}) = 0
  BY FS_EmptySet
<1> SUFFICES ASSUME NEW d \in MoveDocs
             PROVE  /\ Cardinality(DoneMoves(d)') = (IF doc'[d].state = "done" THEN 1 ELSE 0)
                    /\ \A i \in DoneMoves(d)' : docMoves'[d][i].amount = Amount(doc'[d])
  BY DEF DocumentLedger
<1>3. Shape(d)'
  OBVIOUS
<1>4. CASE doc'[d].state = "done"
  <2>1. PICK i : DoneMoves(d)' = {i} /\ docMoves'[d][i].amount = Amount(doc'[d])
    BY <1>3, <1>4 DEF Shape, Amount
  <2>2. Cardinality(DoneMoves(d)') = 1
    BY <1>1, <2>1
  <2> QED BY <1>4, <2>1, <2>2
<1>5. CASE doc'[d].state # "done"
  BY <1>2, <1>3, <1>5 DEF Shape
<1> QED BY <1>4, <1>5

\* Only the document an action is about changes.
LEMMA OneDocument ==
  ASSUME StockInv, NEW d \in MoveDocs, NEW sheet, NEW mv,
         doc' = [doc EXCEPT ![d] = sheet], docMoves' = [docMoves EXCEPT ![d] = mv],
         sheet \in Sheet, mv \in Seq(Move),
         \/ /\ sheet.state = "done"
            /\ \E i : /\ {j \in DOMAIN mv : mv[j].state = "done"} = {i}
                      /\ mv[i].amount = Amount(sheet)
         \/ sheet.state # "done" /\ \A j \in DOMAIN mv : mv[j].state # "done"
  PROVE  StockInv'
<1>1. doc \in [MoveDocs -> Sheet] /\ docMoves \in [MoveDocs -> Seq(Move)]
  BY DEF StockInv, StockTypeOK, Move
<1>2. StockTypeOK'
  BY <1>1 DEF StockTypeOK, Move
<1>3. /\ doc'[d] = sheet /\ docMoves'[d] = mv
      /\ \A e \in MoveDocs : e # d => doc'[e] = doc[e] /\ docMoves'[e] = docMoves[e]
  BY <1>1
<1>4. ASSUME NEW e \in MoveDocs, e # d PROVE Shape(e)'
  <2>1. Shape(e)
    BY LedgerShape
  <2> QED BY <1>3, <1>4, <2>1 DEF Shape, DoneMoves, Amount
<1>5. Shape(d)'
  BY <1>3 DEF Shape, DoneMoves, Amount
<1> QED BY <1>2, <1>4, <1>5, ShapeLedger DEF StockInv

LEMMA StockStep ==
  ASSUME StockInv, StockNext
  PROVE  StockInv'
<1>1. doc \in [MoveDocs -> Sheet] /\ docMoves \in [MoveDocs -> Seq(Move)]
  BY DEF StockInv, StockTypeOK, Move
<1>2. PICK d \in MoveDocs :
        \/ CreateMove(d) \/ MoveDone(d) \/ MoveDraft(d) \/ MoveCancel(d) \/ MoveUnlink(d)
        \/ \E m \in Materials :
             \/ RemoveMoveLine(d, m)
             \/ \E q \in Quantities, placed \in BOOLEAN : EditMoveLine(d, m, q, placed)
  BY DEF StockNext
<1> DEFINE s == doc[d]
           mv == docMoves[d]
<1>3. s \in Sheet /\ mv \in Seq(Move) /\ docMoves = [docMoves EXCEPT ![d] = mv]
  BY <1>1
<1>4. \A j \in DOMAIN mv : mv[j].state # "done" <=> j \notin DoneMoves(d)
  BY DEF DoneMoves
<1>5. s.state # "done" => \A j \in DOMAIN mv : mv[j].state # "done"
  <2>1. Shape(d)
    BY LedgerShape
  <2> QED BY <1>4, <2>1 DEF Shape
<1>6. \A to \in DocStates : [s EXCEPT !.state = to] \in Sheet /\ [s EXCEPT !.state = to].state = to
  BY <1>3 DEF Sheet
<1>7. /\ \A i \in DOMAIN mv : mv[i] \in Move
      /\ DOMAIN mv = 1..Len(mv) /\ Len(mv) \in Nat
  BY <1>3
\* A document that is no longer confirmed, with moves none of which is done.
<1>8. ASSUME NEW sheet \in Sheet, sheet.state # "done", doc' = [doc EXCEPT ![d] = sheet],
             docMoves' = docMoves, s.state # "done"
      PROVE  StockInv'
  <2> HIDE DEF s, mv
  <2>1. docMoves' = [docMoves EXCEPT ![d] = mv]
    BY <1>3, <1>8
  <2> QED BY <1>3, <1>5, <1>8, <2>1, OneDocument
<1>9. CASE CreateMove(d)
  <2>1. doc' = [doc EXCEPT ![d] = [s EXCEPT !.state = "draft"]] /\ docMoves' = docMoves /\ s.state # "done"
    BY <1>9 DEF CreateMove
  <2>2. "draft" \in DocStates
    BY DEF DocStates
  <2> HIDE DEF s, mv
  <2> QED BY <1>6, <1>8, <2>1, <2>2
<1>10. CASE MoveDone(d)
  <2> DEFINE sheet == [s EXCEPT !.state = "done"]
             new == [state |-> "done", amount |-> Amount(s)]
             moves == Append(mv, new)
  <2>1. DoneMoves(d) = {}
    <3>1. Shape(d) /\ doc[d].state # "done"
      BY <1>10, LedgerShape DEF MoveDone
    <3> QED BY <3>1 DEF Shape
  <2>2. doc' = [doc EXCEPT ![d] = sheet] /\ docMoves' = [docMoves EXCEPT ![d] = moves]
    BY <1>10, <2>1 DEF MoveDone
  <2>3. sheet \in Sheet /\ sheet.state = "done" /\ Amount(sheet) = Amount(s)
    BY <1>3, <1>6 DEF DocStates, Amount, Sheet
  <2>4. new \in Move
    <3>1. Amount(s) \in [Materials -> Nat]
      BY <1>3 DEF Sheet, Line, Amount
    <3> QED BY <3>1 DEF Move
  <2>5. /\ moves \in Seq(Move) /\ DOMAIN moves = 1..(Len(mv) + 1)
        /\ moves[Len(mv) + 1] = new /\ \A i \in 1..Len(mv) : moves[i] = mv[i]
    <3> HIDE DEF s, mv, new
    <3> QED BY <1>3, <2>4
  <2>6. {j \in DOMAIN moves : moves[j].state = "done"} = {Len(mv) + 1}
    <3>1. \A i \in 1..Len(mv) : mv[i].state # "done"
      BY <1>4, <1>7, <2>1
    <3>2. new.state = "done"
      OBVIOUS
    <3>3. Len(mv) \in Nat
      BY <1>7
    <3> HIDE DEF mv, moves, new
    <3> QED BY <2>5, <3>1, <3>2, <3>3
  <2>7. moves[Len(mv) + 1].amount = Amount(sheet)
    <3>1. new.amount = Amount(s)
      OBVIOUS
    <3> HIDE DEF s, mv, moves, new, sheet
    <3> QED BY <2>3, <2>5, <3>1
  <2> HIDE DEF s, mv, moves, new, sheet
  <2> QED BY <2>2, <2>3, <2>5, <2>6, <2>7, OneDocument
<1>11. ASSUME MoveDraft(d) \/ MoveCancel(d)
       PROVE  StockInv'
  <2>1. PICK S \in SUBSET {"none", "draft", "done"}, to \in {"none", "draft"}, st \in {"draft", "cancel"} :
          /\ "done" \in S
          /\ doc' = [doc EXCEPT ![d] = [s EXCEPT !.state = st]]
          /\ docMoves' = [docMoves EXCEPT ![d] = Relabelled(mv, S, to)]
    <3>1. CASE MoveDraft(d)
      <4>1. \A i \in DOMAIN mv : mv[i].state \in {"none", "draft", "done"}
        BY <1>7 DEF Move
      <4> QED BY <3>1, <4>1 DEF MoveDraft, Relabelled
    <3>2. CASE MoveCancel(d)
      <4>1. \A i \in DOMAIN mv : mv[i].state = "done" <=> mv[i].state \in {"done"}
        OBVIOUS
      <4> QED BY <3>2, <4>1 DEF MoveCancel, Relabelled
    <3> QED BY <1>11, <3>1, <3>2
  <2> DEFINE sheet == [s EXCEPT !.state = st]
             moves == Relabelled(mv, S, to)
  <2>2. sheet \in Sheet /\ sheet.state # "done"
    BY <1>6 DEF DocStates
  <2>3. moves \in Seq(Move)
    <3> HIDE DEF mv
    <3> QED BY <1>3, RelabelType
  <2>4. \A j \in DOMAIN moves : moves[j].state # "done"
    BY <1>7, <2>1 DEF Move, Relabelled
  <2> HIDE DEF sheet, moves, s, mv
  <2> QED BY <2>1, <2>2, <2>3, <2>4, OneDocument DEF sheet, moves
<1>12. CASE MoveUnlink(d)
  <2>1. NoSheet \in Sheet /\ NoSheet.state # "done"
    BY NoSheetType
  <2>2. << >> \in Seq(Move) /\ \A j \in DOMAIN << >> : <<>>[j].state # "done"
    OBVIOUS
  <2> QED BY <1>12, <2>1, <2>2, OneDocument DEF MoveUnlink
<1>13. ASSUME NEW m \in Materials,
              \/ RemoveMoveLine(d, m)
              \/ \E q \in Quantities, placed \in BOOLEAN : EditMoveLine(d, m, q, placed)
       PROVE  StockInv'
  <2>1. PICK S \in SUBSET Materials, l \in Line : doc' = [doc EXCEPT ![d].mats = S, ![d].lines[m] = l]
    <3>1. CASE RemoveMoveLine(d, m)
      <4>1. Absent \in Line /\ doc[d].mats \ {m} \in SUBSET Materials
        BY <1>1 DEF Absent, Line, Sheet
      <4> QED BY <3>1, <4>1 DEF RemoveMoveLine
    <3>2. ASSUME NEW q \in Quantities, NEW placed \in BOOLEAN, EditMoveLine(d, m, q, placed)
          PROVE  \E S \in SUBSET Materials, l \in Line :
                   doc' = [doc EXCEPT ![d].mats = S, ![d].lines[m] = l]
      <4>1. [qty |-> q, placed |-> placed] \in Line /\ doc[d].mats \cup {m} \in SUBSET Materials
        BY <1>1, StockAssumption DEF Line, Sheet
      <4> QED BY <3>2, <4>1 DEF EditMoveLine
    <3> QED BY <1>13, <3>1, <3>2
  <2> DEFINE sheet == [s EXCEPT !.mats = S, !.lines[m] = l]
  <2>2. s.state = "draft" /\ docMoves' = docMoves
    BY <1>13 DEF RemoveMoveLine, EditMoveLine
  <2>3. sheet \in Sheet
    BY <1>3, SheetLineType
  <2>4. sheet.state = s.state
    BY <1>3 DEF Sheet
  <2>5. doc' = [doc EXCEPT ![d] = sheet]
    BY <1>1, <2>1
  <2> HIDE DEF s, mv, sheet
  <2> QED BY <1>8, <2>2, <2>3, <2>4, <2>5
<1> QED BY <1>2, <1>9, <1>10, <1>11, <1>12, <1>13

-----------------------------------------------------------------------------
(* The types of the sample's moves, and with them all types. *)

MovesOK == pickMoves \in [Picks -> Seq([Materials -> Nat])] /\ inMoves \in [Ins -> Seq(Nat)]

LEMMA MovesStep ==
  ASSUME IInv, MovesOK, [Next]_vars
  PROVE  MovesOK'
<1> USE DEF MovesOK
<1>1. CASE UNCHANGED vars \/ (StockNext /\ UNCHANGED <<apply, order, lines, pickVars, inVars>>)
  BY <1>1 DEF vars, pickVars, inVars
<1>2. CASE ApplyDone \/ ApplyDraft \/ ApplyCancel \/ \E q \in Amounts, filled \in BOOLEAN : EditApply(q, filled)
  BY <1>2 DEF ApplyDone, ApplyDraft, ApplyCancel, EditApply, pickVars, inVars
<1>3. CASE OrderDone \/ OrderCancel \/ OrderSampleIn \/ \E m \in Materials, q \in Quantities : EditNeed(m, q)
  BY <1>3 DEF OrderDone, OrderCancel, OrderSampleIn, EditNeed, pickVars, inVars
<1>a. << >> \in Seq([Materials -> Nat]) /\ << >> \in Seq(Nat)
  OBVIOUS
<1>4. CASE OrderDraft \/ OrderSamplePicking
  <2>1. CASE OrderDraft
    BY <1>a, <2>1 DEF OrderDraft
  <2>2. CASE OrderSamplePicking
    BY <1>a, <2>2 DEF OrderSamplePicking, inVars
  <2> QED BY <1>4, <2>1, <2>2
<1>5. ASSUME NEW p \in Picks, PickDone(p) \/ PickDraft(p)
      PROVE  MovesOK'
  <2>1. Amount(pick[p]) \in [Materials -> Nat]
    BY DEF IInv, RowsOK, Sheet, Line, Amount
  <2>2. Append(pickMoves[p], Amount(pick[p])) \in Seq([Materials -> Nat])
    BY <2>1
  <2>3. /\ inMoves' = inMoves
        /\ \/ pickMoves' = [pickMoves EXCEPT ![p] = Append(pickMoves[p], Amount(pick[p]))]
           \/ pickMoves' = [pickMoves EXCEPT ![p] = << >>]
    BY <1>5 DEF PickDone, PickDraft, inVars
  <2> QED BY <1>a, <2>2, <2>3
<1>6. ASSUME NEW p \in Picks,
             \/ PickCancel(p)
             \/ \E m \in Materials, q \in Quantities : EditPickLine(p, m, q)
             \/ \E m \in Materials : RemovePickLine(p, m)
      PROVE  MovesOK'
  BY <1>6 DEF PickCancel, EditPickLine, RemovePickLine, inVars
<1>7. ASSUME NEW d \in Ins, InDone(d) \/ InDraft(d)
      PROVE  MovesOK'
  <2>1. in[d].qty \in Nat
    BY DEF IInv, RowsOK
  <2>2. Append(inMoves[d], in[d].qty) \in Seq(Nat)
    BY <2>1
  <2>3. /\ pickMoves' = pickMoves
        /\ \/ inMoves' = [inMoves EXCEPT ![d] = Append(inMoves[d], in[d].qty)]
           \/ inMoves' = [n \in Ins |-> IF n = d \/ in[n].state = "draft" THEN << >> ELSE inMoves[n]]
    BY <1>7 DEF InDone, InDraft, pickVars
  <2> QED BY <1>a, <2>2, <2>3
<1>8. ASSUME NEW d \in Ins, InCancel(d) \/ \E q \in Quantities : EditIn(d, q)
      PROVE  MovesOK'
  BY <1>8 DEF InCancel, EditIn, pickVars
<1> HIDE DEF MovesOK
<1> QED BY <1>1, <1>2, <1>3, <1>4, <1>5, <1>6, <1>7, <1>8 DEF Next

LEMMA StockInvStep ==
  ASSUME StockInv, [Next]_vars
  PROVE  StockInv'
<1>1. CASE UNCHANGED stockVars
  <2>1. doc' = doc /\ docMoves' = docMoves
    BY <1>1 DEF stockVars
  <2>2. StockTypeOK'
    BY <2>1 DEF StockInv, StockTypeOK
  <2>3. \A d \in MoveDocs : DoneMoves(d)' = DoneMoves(d)
    BY <2>1 DEF DoneMoves
  <2>4. DocumentLedger'
    BY <2>1, <2>3 DEF StockInv, DocumentLedger
  <2> QED BY <2>2, <2>4 DEF StockInv
<1> QED BY <1>1, StockFrame, StockStep

LEMMA TypesInit == Init => IInv /\ MovesOK /\ StockInv
<1> SUFFICES ASSUME Init PROVE MovesOK /\ StockInv
  BY InvInit
<1>1. MovesOK
  BY DEF Init, MovesOK
<1>2. StockTypeOK
  BY NoSheetType DEF Init, StockInit, StockTypeOK
<1>3. \A d \in MoveDocs : doc[d].state # "done" /\ docMoves[d] = <<>>
  BY NoSheetType DEF Init, StockInit
<1>4. \A d \in MoveDocs : DoneMoves(d) = {}
  BY <1>3 DEF DoneMoves
<1> QED BY <1>1, <1>2, <1>3, <1>4, FS_EmptySet DEF StockInv, DocumentLedger

\* Every variable keeps its type, those of the manual documents included.
THEOREM TypeCorrect == Spec => []TypeOK
<1> DEFINE TInv == IInv /\ MovesOK /\ StockInv
<1>1. TInv /\ [Next]_vars => TInv'
  BY InvStep, MovesStep, StockInvStep
<1>2. TInv => TypeOK
  BY DEF IInv, RowsOK, MovesOK, StockInv, TypeOK
<1>3. Init => TInv
  BY TypesInit
<1> QED BY <1>1, <1>2, <1>3, PTL DEF Spec

-----------------------------------------------------------------------------
(* The books of the sample. *)

CountersAgree ==
  \A m \in Materials :
    /\ lines[m].picked = Picked(m)
    /\ order.state = "done" => lines[m].neck + lines[m].picked = lines[m].need

OneMove ==
  /\ \A p \in Picks : pickMoves[p] = IF pick[p].state = "done" THEN <<Amount(pick[p])>> ELSE <<>>
  /\ \A d \in Ins : inMoves[d] = IF in[d].state = "done" THEN <<in[d].qty>> ELSE <<>>

\* A picking asks for nothing of a material it has no line for: what a
\* confirmation books of every material is what it checked of its own.
OnlyItsLines ==
  \A p \in Picks : \A m \in Materials : m \notin pick[p].mats => pick[p].lines[m].qty = 0

BInv ==
  /\ IInv /\ MovesOK /\ CountersAgree /\ order.in_qty = Stocked
  /\ OneMove /\ OnlyItsLines /\ WithinTheOrder

Confirmed(rows) == {d \in DOMAIN rows : rows[d].state = "done"}
QtyOf(sheets, m) == [p \in DOMAIN sheets |-> sheets[p].lines[m].qty]
CountOf(rows) == [d \in DOMAIN rows |-> rows[d].qty]

\* The moves of pickings, as a ledger of material m.
LEMMA PickLedger ==
  ASSUME NEW pk \in [Picks -> Sheet], NEW mv, DOMAIN mv = Picks, NEW m \in Materials,
         \A p \in Picks : mv[p] = IF pk[p].state = "done" THEN <<Amount(pk[p])>> ELSE <<>>
  PROVE  Ledger(AmountsOf(mv, m), Confirmed(pk), QtyOf(pk, m))
<1> DEFINE C == Confirmed(pk)
           a == [p \in Picks |-> Amount(pk[p])]
           v == QtyOf(pk, m)
           R == AmountsOf(mv, m)
           w == [p \in C |-> a[p][m]]
<1>1. \A p \in Picks : a[p][m] = pk[p].lines[m].qty /\ pk[p].lines[m].qty \in Nat
  BY DEF Amount, Sheet, Line
<1>a. DOMAIN pk = Picks /\ C \in SUBSET Picks /\ \A p \in Picks : p \in C <=> pk[p].state = "done"
  BY DEF Confirmed
<1>2. \A p \in C : w[p] = v[p]
  BY <1>1, <1>a DEF QtyOf
<1>3. /\ IsFiniteSet(DOMAIN mv) /\ C \in SUBSET DOMAIN mv
      /\ \A p \in DOMAIN mv : mv[p] = IF p \in C THEN <<a[p]>> ELSE <<>>
      /\ \A p \in C : a[p][m] \in Nat
  BY <1>1, <1>a, SamplesAssumption
<1>4. Ledger(R, C, w)
  <2> HIDE DEF C, a
  <2> QED BY <1>3, AmountsLedger
<1> HIDE DEF C, v, w, R
<1>5. Ledger(R, C, v)
  BY <1>2, <1>4 DEF Ledger
<1> QED BY <1>5 DEF C, v, R

\* The moves of stock-ins.
InMoved(i, mv) ==
  /\ i \in [Ins -> [state : DocStates, qty : Nat]]
  /\ DOMAIN mv = Ins /\ mv = [d \in Ins |-> mv[d]]
  /\ \A d \in Ins : mv[d] = IF i[d].state = "done" THEN <<i[d].qty>> ELSE <<>>

LEMMA InLedger ==
  ASSUME NEW i, NEW mv, InMoved(i, mv)
  PROVE  Ledger(mv, Confirmed(i), CountOf(i))
<1> DEFINE C == Confirmed(i)
           q == CountOf(i)
           S == Ins
           R == [d \in S |-> mv[d]]
<1>1. /\ IsFiniteSet(DOMAIN mv) /\ S \in SUBSET DOMAIN mv
      /\ \A d \in DOMAIN mv : mv[d] = IF d \in C THEN <<q[d]>> ELSE <<>>
      /\ \A d \in S \cap C : q[d] \in Nat
  BY SamplesAssumption DEF InMoved, Confirmed, CountOf
<1>2. S \cap C = C /\ R = mv
  BY DEF Confirmed, InMoved
<1> HIDE DEF C, q, S
<1>3. Ledger(R, S \cap C, q)
  BY <1>1, CountsLedger
<1> HIDE DEF R
<1>4. Ledger(mv, C, q)
  BY <1>2, <1>3
<1> QED BY <1>4 DEF C, q

\* What the totals are: natural numbers, and 0 without a confirmed order.
LEMMA TotalsType ==
  ASSUME BInv
  PROVE  Stocked \in Nat /\ \A m \in Materials : Picked(m) \in Nat
<1> USE DEF BInv, IInv, RowsOK, MovesOK, OneMove
<1>1. \A m \in Materials : Picked(m) \in Nat
  <2> TAKE m \in Materials
  <2>1. Ledger(AmountsOf(pickMoves, m), Confirmed(pick), QtyOf(pick, m))
    BY PickLedger
  <2> QED BY <2>1, LedgerTotal DEF Picked
<1>2. Stocked \in Nat
  <2>1. Ledger(inMoves, Confirmed(in), CountOf(in))
    BY InLedger DEF InMoved
  <2> QED BY <2>1, LedgerTotal DEF Stocked
<1> QED BY <1>1, <1>2

LEMMA NothingYet ==
  ASSUME BInv, order.state # "done"
  PROVE  order.in_qty = 0 /\ \A m \in Materials : lines[m].picked = 0
<1> USE DEF BInv, IInv, RowsOK, MovesOK, OneMove
<1>0. /\ \A p \in Picks : pick[p].state # "done"
      /\ \A d \in Ins : in[d].state # "done"
  BY DEF ConfirmedHangsOnConfirmed
<1>1. ASSUME NEW m \in Materials PROVE lines[m].picked = 0
  <2> DEFINE v == QtyOf(pick, m)
  <2>1. Ledger(AmountsOf(pickMoves, m), Confirmed(pick), v)
    BY PickLedger
  <2>2. Confirmed(pick) = {}
    BY <1>0 DEF Confirmed
  <2> HIDE DEF v
  <2>3. Ledger(AmountsOf(pickMoves, m), {}, v)
    BY <2>1, <2>2
  <2> QED BY <2>3, LedgerNone DEF Picked, CountersAgree
<1>2. order.in_qty = 0
  <2> DEFINE q == CountOf(in)
  <2>1. Ledger(inMoves, Confirmed(in), q)
    BY InLedger DEF InMoved
  <2>2. Confirmed(in) = {}
    BY <1>0 DEF Confirmed
  <2> HIDE DEF q
  <2>3. Ledger(inMoves, {}, q)
    BY <2>1, <2>2
  <2> QED BY <2>3, LedgerNone DEF Stocked
<1> QED BY <1>1, <1>2

\* One picking more is confirmed: in mv2, what it carries is added.
PickMoved(pk, mv) ==
  /\ pk \in [Picks -> Sheet] /\ DOMAIN mv = Picks
  /\ \A p \in Picks : mv[p] = IF pk[p].state = "done" THEN <<Amount(pk[p])>> ELSE <<>>

OnlyConfirms(d, pk, pk2) ==
  /\ pk[d].state # "done" /\ pk2[d].state = "done"
  /\ \A p \in Picks : p # d => pk2[p] = pk[p]

LEMMA PickedMore ==
  ASSUME NEW pk, NEW mv, PickMoved(pk, mv), NEW pk2, NEW mv2, PickMoved(pk2, mv2),
         NEW d \in Picks, OnlyConfirms(d, pk, pk2), NEW m \in Materials
  PROVE  RowsTotal(AmountsOf(mv2, m)) = RowsTotal(AmountsOf(mv, m)) + pk2[d].lines[m].qty
<1> DEFINE R == AmountsOf(mv, m)
           S == AmountsOf(mv2, m)
           C == Confirmed(pk)
           v == QtyOf(pk, m)
           w == QtyOf(pk2, m)
<1>1. Ledger(R, C, v) /\ Ledger(S, Confirmed(pk2), w)
  BY PickLedger DEF PickMoved
<1>2. Confirmed(pk2) = C \cup {d} /\ d \notin C
  BY DEF Confirmed, PickMoved, OnlyConfirms
<1>3. (\A p \in C : w[p] = v[p]) /\ w[d] = pk2[d].lines[m].qty
  BY DEF QtyOf, Confirmed, PickMoved, OnlyConfirms
<1> HIDE DEF R, S, C, v, w
<1>4. OneMore(R, S, C, d, v, w)
  BY <1>1, <1>2, <1>3 DEF OneMore
<1>5. RowsTotal(S) = RowsTotal(R) + w[d]
  BY <1>4, LedgerMore
<1> QED BY <1>3, <1>5 DEF R, S

LEMMA StockedMore ==
  ASSUME NEW i, NEW mv, InMoved(i, mv), NEW j, NEW mv2, InMoved(j, mv2),
         NEW d \in Ins, i[d].state # "done", j[d].state = "done",
         \A e \in Ins : e # d => /\ j[e].state = "done" <=> i[e].state = "done"
                                 /\ i[e].state = "done" => j[e].qty = i[e].qty
  PROVE  RowsTotal(mv2) = RowsTotal(mv) + j[d].qty
<1> DEFINE C == Confirmed(i)
           v == CountOf(i)
           w == CountOf(j)
<1>1. Ledger(mv, C, v) /\ Ledger(mv2, Confirmed(j), w)
  BY InLedger
<1>2. Confirmed(j) = C \cup {d} /\ d \notin C
  BY DEF Confirmed, InMoved
<1>3. (\A e \in C : w[e] = v[e]) /\ w[d] = j[d].qty
  BY DEF CountOf, Confirmed, InMoved
<1> HIDE DEF C, v, w
<1>4. OneMore(mv, mv2, C, d, v, w)
  BY <1>1, <1>2, <1>3 DEF OneMore
<1>5. RowsTotal(mv2) = RowsTotal(mv) + w[d]
  BY <1>4, LedgerMore
<1> QED BY <1>3, <1>5

\* No move is made or deleted, no confirmed row changes, and the counters are
\* left alone or set before anything is picked.
LEMMA BooksKept ==
  ASSUME BInv, IInv', MovesOK', pickMoves' = pickMoves, inMoves' = inMoves, OnlyItsLines',
         \A p \in Picks : /\ pick'[p].state = "done" <=> pick[p].state = "done"
                          /\ pick[p].state = "done" => pick'[p] = pick[p],
         \A d \in Ins : /\ in'[d].state = "done" <=> in[d].state = "done"
                        /\ in[d].state = "done" => in'[d] = in[d],
         order'.in_qty = order.in_qty, order.in_qty <= order'.qty,
         \A m \in Materials : /\ lines'[m].picked = lines[m].picked
                              /\ lines[m].picked <= lines'[m].need
                              /\ order'.state = "done" => lines'[m].neck + lines'[m].picked = lines'[m].need
  PROVE  BInv'
<1>1. OneMove'
  BY DEF BInv, OneMove, Amount
<1>2. CountersAgree' /\ order'.in_qty = Stocked'
  BY DEF BInv, CountersAgree, Picked, Stocked
<1>3. WithinTheOrder'
  BY DEF BInv, WithinTheOrder
<1> QED BY <1>1, <1>2, <1>3 DEF BInv

\* Actions that move nothing.
LEMMA BooksOrder ==
  ASSUME BInv, IInv', MovesOK',
         \/ ApplyDone \/ ApplyDraft \/ ApplyCancel
         \/ \E q \in Amounts, filled \in BOOLEAN : EditApply(q, filled)
         \/ OrderDone \/ OrderDraft \/ OrderCancel \/ OrderSampleIn \/ OrderSamplePicking
         \/ \E m \in Materials, q \in Quantities : EditNeed(m, q)
  PROVE  BInv'
<1> USE DEF pickVars, inVars
<1>t. RowsOK /\ OneMove /\ OnlyItsLines /\ WithinTheOrder /\ CountersAgree /\ ConfirmedHangsOnConfirmed /\ RowsOK'
  BY DEF BInv, IInv
<1>1. CASE ApplyDone
  <2>1. order.state # "done"
    BY <1>1, <1>t DEF ApplyDone, ConfirmedHangsOnConfirmed
  <2>2. order.in_qty = 0 /\ \A m \in Materials : lines[m].picked = 0
    BY <2>1, NothingYet
  <2> QED BY <1>1, <1>t, <2>2, BooksKept DEF ApplyDone, RowsOK, OnlyItsLines
<1>2. CASE ApplyDraft
  <2>1. order.state # "done"
    BY <1>2 DEF ApplyDraft
  <2>2. order.in_qty = 0 /\ \A m \in Materials : lines[m].picked = 0
    BY <2>1, NothingYet
  <2> QED BY <1>2, <1>t, <2>2, BooksKept DEF ApplyDraft, RowsOK, OnlyItsLines, NoOrder, NoLines
<1>3. CASE ApplyCancel \/ \E q \in Amounts, filled \in BOOLEAN : EditApply(q, filled)
  <2>1. order' = order /\ lines' = lines /\ pick' = pick /\ pickMoves' = pickMoves /\ in' = in /\ inMoves' = inMoves
    BY <1>3 DEF ApplyCancel, EditApply
  <2> QED BY <1>t, <2>1, BooksKept DEF OnlyItsLines, CountersAgree, WithinTheOrder
<1>4. CASE OrderDone
  <2>1. order.in_qty = 0 /\ \A m \in Materials : lines[m].picked = 0
    BY <1>4, NothingYet DEF OrderDone
  <2>2. PICK p \in Picks :
          /\ pick[p].state = "none"
          /\ pick' = [pick EXCEPT ![p] = NewPick(Materials, [m \in Materials |-> lines[m].need])]
    BY <1>4 DEF OrderDone
  <2> DEFINE new == NewPick(Materials, [m \in Materials |-> lines[m].need])
  <2>3. new.state = "draft" /\ new.mats = Materials
    BY DEF NewPick
  <2> HIDE DEF new
  <2>4. /\ OnlyItsLines'
        /\ \A e \in Picks : /\ pick'[e].state = "done" <=> pick[e].state = "done"
                            /\ pick[e].state = "done" => pick'[e] = pick[e]
    BY <2>2, <2>3, <1>t DEF OnlyItsLines, RowsOK, new
  <2>5. order' = [order EXCEPT !.state = "done"] /\ pickMoves' = pickMoves /\ in' = in /\ inMoves' = inMoves
    BY <1>4 DEF OrderDone
  <2>6. lines' = [m \in Materials |-> [lines[m] EXCEPT !.neck = lines[m].need]]
    BY <1>4 DEF OrderDone
  <2>7. \A m \in Materials : /\ lines'[m].picked = lines[m].picked /\ lines[m].picked <= lines'[m].need
                             /\ lines'[m].neck + lines'[m].picked = lines'[m].need
    BY <2>6, <2>1, <1>t DEF RowsOK
  <2>8. order'.in_qty = order.in_qty /\ order.in_qty <= order'.qty
    BY <2>5, <1>t DEF RowsOK, WithinTheOrder
  <2> QED BY <2>4, <2>5, <2>7, <2>8, BooksKept
<1>5. CASE OrderDraft
  <2>1. (\A p \in Picks : pick[p].state # "done") /\ (\A d \in Ins : in[d].state # "done")
    BY <1>5, <1>t DEF OrderDraft, AllDraft, RowsOK
  <2>2. pickMoves = [p \in Picks |-> <<>>] /\ inMoves = [d \in Ins |-> <<>>]
    BY <2>1 DEF BInv, OneMove, MovesOK
  <2>3. OnlyItsLines'
    BY <1>5 DEF OrderDraft, OnlyItsLines, NoSheet, Absent
  <2>4. /\ \A p \in Picks : pick'[p].state # "done"
        /\ \A d \in Ins : in'[d].state # "done"
    BY <1>5 DEF OrderDraft, NoSheet, NoIn
  <2>5. order' = order /\ lines' = lines /\ pickMoves' = pickMoves /\ inMoves' = inMoves
    BY <1>5, <1>t, <2>2 DEF OrderDraft, RowsOK
  <2> QED BY <2>1, <2>3, <2>4, <2>5, <1>t, BooksKept DEF CountersAgree, WithinTheOrder
<1>6. CASE OrderCancel
  BY <1>6, <1>t, BooksKept DEF OrderCancel, OnlyItsLines, RowsOK, WithinTheOrder
<1>7. CASE OrderSampleIn
  BY <1>7, <1>t, BooksKept DEF OrderSampleIn, OnlyItsLines, RowsOK, WithinTheOrder, CountersAgree
<1>8. CASE OrderSamplePicking
  <2> DEFINE open == {m \in Materials : lines[m].neck > 0}
             new == NewPick(open, [m \in Materials |-> lines[m].neck])
  <2>1. /\ new.state = "draft" /\ \A m \in Materials : m \notin new.mats => new.lines[m].qty = 0
        /\ NoSheet.state = "none" /\ \A m \in Materials : NoSheet.lines[m].qty = 0
    BY DEF NewPick, NoSheet, Absent
  <2>2. PICK n \in Picks :
          /\ pick[n].state \in {"none", "draft"}
          /\ pick' = [p \in Picks |-> IF p = n THEN new ELSE IF pick[p].state = "draft" THEN NoSheet ELSE pick[p]]
    <3>1. \A p \in Picks : p \in {e \in Picks : pick[e].state = "draft"} <=> pick[p].state = "draft"
      OBVIOUS
    <3> HIDE DEF new
    <3> QED BY <1>8, <3>1 DEF OrderSamplePicking, new
  <2> HIDE DEF new
  <2>3. /\ OnlyItsLines'
        /\ \A e \in Picks : /\ pick'[e].state = "done" <=> pick[e].state = "done"
                            /\ pick[e].state = "done" => pick'[e] = pick[e]
    BY <2>1, <2>2, <1>t DEF OnlyItsLines
  <2>4. pickMoves' = pickMoves
    BY <1>8 DEF OrderSamplePicking, BInv, OneMove, MovesOK
  <2>5. order' = order /\ lines' = lines /\ in' = in /\ inMoves' = inMoves
    BY <1>8 DEF OrderSamplePicking
  <2> QED BY <2>3, <2>4, <2>5, <1>t, BooksKept DEF CountersAgree, WithinTheOrder
<1>9. ASSUME NEW m \in Materials, NEW q \in Quantities, EditNeed(m, q)
      PROVE  BInv'
  <2>1. order.in_qty = 0 /\ \A e \in Materials : lines[e].picked = 0
    BY <1>9, NothingYet DEF EditNeed
  <2>2. order' = order /\ pick' = pick /\ pickMoves' = pickMoves /\ in' = in /\ inMoves' = inMoves /\ order.state = "draft"
    BY <1>9 DEF EditNeed
  <2>3. \A e \in Materials : lines'[e].picked = lines[e].picked /\ lines[e].picked <= lines'[e].need
    BY <1>9, <1>t, <2>1 DEF EditNeed, RowsOK
  <2> QED BY <1>t, <2>2, <2>3, BooksKept DEF OnlyItsLines, WithinTheOrder
<1> QED BY <1>1, <1>2, <1>3, <1>4, <1>5, <1>6, <1>7, <1>8, <1>9


LEMMA AppendFirst == \A x : Append(<<>>, x) = <<x>>
<1> TAKE x
<1>1. << >> \in Seq({x}) /\ x \in {x}
  OBVIOUS
<1> QED BY <1>1

LEMMA BooksPick ==
  ASSUME BInv, IInv', MovesOK', NEW p \in Picks,
         \/ PickDone(p) \/ PickDraft(p) \/ PickCancel(p)
         \/ \E m \in Materials, q \in Quantities : EditPickLine(p, m, q)
         \/ \E m \in Materials : RemovePickLine(p, m)
  PROVE  BInv'
<1> USE DEF inVars
<1>t. RowsOK /\ OneMove /\ OnlyItsLines /\ WithinTheOrder /\ CountersAgree /\ ConfirmedHangsOnConfirmed /\ RowsOK' /\ MovesOK
  BY DEF BInv, IInv
<1>q. \A m \in Materials : pick[p].lines[m].qty \in Nat
  BY <1>t DEF RowsOK, Sheet, Line
<1>1. CASE PickDone(p)
  <2>1. /\ pick' = [pick EXCEPT ![p].state = "done"] /\ pick[p].state = "draft" /\ pick[p] \in Sheet
        /\ pick' \in [Picks -> Sheet] /\ pick \in [Picks -> Sheet]
    BY <1>1, <1>t DEF PickDone, RowsOK
  <2>2. /\ pick'[p].state = "done" /\ pick'[p].lines = pick[p].lines /\ pick'[p].mats = pick[p].mats
        /\ \A e \in Picks : e # p => pick'[e] = pick[e]
    BY <2>1 DEF Sheet
  <2>3. order' = order /\ in' = in /\ inMoves' = inMoves
    BY <1>1 DEF PickDone
  <2>4. \A e \in Picks : pickMoves'[e] = IF pick'[e].state = "done" THEN <<Amount(pick'[e])>> ELSE <<>>
    <3>1. pickMoves[p] = <<>> /\ Append(<<>>, Amount(pick[p])) = <<Amount(pick[p])>>
      BY <1>t, <2>1, AppendFirst DEF OneMove
    <3>2. Amount(pick'[p]) = Amount(pick[p])
      BY <2>2 DEF Amount
    <3>3. pickMoves' = [pickMoves EXCEPT ![p] = <<Amount(pick[p])>>]
      BY <1>1, <3>1 DEF PickDone
    <3> QED BY <1>t, <2>2, <3>2, <3>3 DEF OneMove, MovesOK
  <2>5. OneMove'
    BY <1>t, <2>3, <2>4 DEF OneMove
  <2>6. OnlyItsLines'
    BY <1>t, <2>2 DEF OnlyItsLines
  <2>7. \A m \in Materials : /\ lines'[m].neck = lines[m].neck - pick[p].lines[m].qty
                             /\ lines'[m].picked = lines[m].picked + pick[p].lines[m].qty
                             /\ lines'[m].need = lines[m].need
    BY <1>1, <1>t DEF PickDone, RowsOK
  <2>8. \A m \in Materials : Picked(m)' = Picked(m) + pick[p].lines[m].qty
    <3> TAKE m \in Materials
    <3>1. PickMoved(pick, pickMoves)
      BY <1>t, <2>1 DEF PickMoved, OneMove, MovesOK
    <3>2. PickMoved(pick', pickMoves')
      BY <1>t, <2>1, <2>4 DEF PickMoved, MovesOK
    <3>0. OnlyConfirms(p, pick, pick')
      BY <2>1, <2>2 DEF OnlyConfirms
    <3>3. RowsTotal(AmountsOf(pickMoves', m)) = RowsTotal(AmountsOf(pickMoves, m)) + pick'[p].lines[m].qty
      BY <3>0, <3>1, <3>2, PickedMore
    <3> QED BY <2>2, <3>3 DEF Picked
  <2>9. order.state = "done" /\ Stocked' = Stocked
    BY <1>t, <2>1, <2>3 DEF ConfirmedHangsOnConfirmed, Stocked
  <2>10. CountersAgree'
    <3>1. \A m \in Materials : lines[m].neck \in Int /\ lines[m].picked \in Int /\ lines[m].need \in Nat
      BY <1>t DEF RowsOK
    <3> QED BY <1>t, <1>q, <2>7, <2>8, <2>9, <3>1 DEF CountersAgree
  <2>11. WithinTheOrder'
    <3> SUFFICES ASSUME NEW m \in Materials PROVE 0 <= lines'[m].picked /\ lines'[m].picked <= lines'[m].need
      BY <1>t, <2>3 DEF WithinTheOrder
    <3>1. /\ lines[m].neck \in Int /\ lines[m].picked \in Int /\ lines[m].need \in Nat
          /\ 0 <= lines[m].picked /\ lines[m].picked <= lines[m].need
          /\ lines[m].neck + lines[m].picked = lines[m].need
      BY <1>t, <2>9 DEF RowsOK, WithinTheOrder, CountersAgree
    <3>2. m \in pick[p].mats => pick[p].lines[m].qty + lines[m].picked <= lines[m].neck
      BY <1>1 DEF PickDone, CanPick
    <3>3. m \notin pick[p].mats => pick[p].lines[m].qty = 0
      BY <1>t DEF OnlyItsLines
    <3> QED BY <1>q, <2>7, <3>1, <3>2, <3>3
  <2> QED BY <2>3, <2>5, <2>6, <2>9, <2>10, <2>11 DEF BInv
<1>2. CASE PickDraft(p)
  <2>1. /\ pick' = [pick EXCEPT ![p].state = "draft"] /\ pick[p].state = "done" /\ pick[p] \in Sheet
        /\ pick' \in [Picks -> Sheet] /\ pick \in [Picks -> Sheet]
    BY <1>2, <1>t DEF PickDraft, RowsOK
  <2>2. /\ pick'[p].state = "draft" /\ pick'[p].lines = pick[p].lines /\ pick'[p].mats = pick[p].mats
        /\ \A e \in Picks : e # p => pick'[e] = pick[e] /\ pick[e] = pick'[e]
    BY <2>1 DEF Sheet
  <2>3. order' = order /\ in' = in /\ inMoves' = inMoves
    BY <1>2 DEF PickDraft
  <2>4. \A e \in Picks : pickMoves'[e] = IF pick'[e].state = "done" THEN <<Amount(pick'[e])>> ELSE <<>>
    BY <1>2, <1>t, <2>2 DEF PickDraft, OneMove, MovesOK
  <2>5. OneMove'
    BY <1>t, <2>3, <2>4 DEF OneMove
  <2>6. OnlyItsLines'
    BY <1>t, <2>2 DEF OnlyItsLines
  <2>7. \A m \in Materials : /\ lines'[m].neck = lines[m].neck + pick[p].lines[m].qty
                             /\ lines'[m].picked = lines[m].picked - pick[p].lines[m].qty
                             /\ lines'[m].need = lines[m].need
    BY <1>2, <1>t DEF PickDraft, RowsOK
  <2>8. \A m \in Materials : Picked(m) = Picked(m)' + pick[p].lines[m].qty
    <3> TAKE m \in Materials
    <3>1. PickMoved(pick, pickMoves)
      BY <1>t, <2>1 DEF PickMoved, OneMove, MovesOK
    <3>2. PickMoved(pick', pickMoves')
      BY <1>t, <2>1, <2>4 DEF PickMoved, MovesOK
    <3>0. OnlyConfirms(p, pick', pick)
      BY <2>1, <2>2 DEF OnlyConfirms
    <3>3. RowsTotal(AmountsOf(pickMoves, m)) = RowsTotal(AmountsOf(pickMoves', m)) + pick[p].lines[m].qty
      BY <3>0, <3>1, <3>2, PickedMore
    <3> QED BY <3>3 DEF Picked
  <2>9. order.state = "done" /\ Stocked' = Stocked
    BY <1>t, <2>1, <2>3 DEF ConfirmedHangsOnConfirmed, Stocked
  <2>a. \A m \in Materials : Picked(m)' \in Nat
    <3> TAKE m \in Materials
    <3>1. DOMAIN pickMoves' = Picks
      BY <1>t DEF MovesOK
    <3>2. Ledger(AmountsOf(pickMoves', m), Confirmed(pick'), QtyOf(pick', m))
      BY <2>1, <2>4, <3>1, PickLedger
    <3> QED BY <3>2, LedgerTotal DEF Picked
  <2>10. CountersAgree' /\ \A m \in Materials : lines'[m].picked \in Nat
    <3>1. \A m \in Materials : lines[m].neck \in Int /\ lines[m].picked \in Int /\ lines[m].need \in Nat
      BY <1>t DEF RowsOK
    <3> QED BY <1>t, <1>q, <2>7, <2>8, <2>9, <2>a, <3>1 DEF CountersAgree
  <2>11. WithinTheOrder'
    <3> SUFFICES ASSUME NEW m \in Materials PROVE 0 <= lines'[m].picked /\ lines'[m].picked <= lines'[m].need
      BY <1>t, <2>3 DEF WithinTheOrder
    <3>1. /\ lines[m].picked \in Int /\ lines[m].need \in Nat
          /\ lines[m].picked <= lines[m].need
      BY <1>t, <2>9 DEF RowsOK, WithinTheOrder, CountersAgree
    <3> QED BY <1>q, <2>7, <2>10, <3>1
  <2> QED BY <2>3, <2>5, <2>6, <2>9, <2>10, <2>11 DEF BInv
<1>3. CASE \/ PickCancel(p)
           \/ \E m \in Materials, q \in Quantities : EditPickLine(p, m, q)
           \/ \E m \in Materials : RemovePickLine(p, m)
  <2>1. order' = order /\ lines' = lines /\ pickMoves' = pickMoves /\ in' = in /\ inMoves' = inMoves /\ pick[p].state = "draft"
    BY <1>3 DEF PickCancel, EditPickLine, RemovePickLine
  <2>2. pick[p] \in Sheet /\ DOMAIN pick = Picks
    BY <1>t DEF RowsOK
  <2>3. pick'[p].state # "done" /\ \A e \in Picks : e # p => pick'[e] = pick[e]
    BY <1>3, <2>1, <2>2 DEF PickCancel, EditPickLine, RemovePickLine, Sheet
  <2>4. \A m \in Materials : m \notin pick'[p].mats => pick'[p].lines[m].qty = 0
    <3>0. \A m \in Materials : m \notin pick[p].mats => pick[p].lines[m].qty = 0
      BY <1>t DEF OnlyItsLines
    <3>1. CASE PickCancel(p)
      BY <3>0, <3>1, <2>2 DEF PickCancel, Sheet
    <3>2. ASSUME NEW m \in Materials, NEW q \in Quantities, EditPickLine(p, m, q)
          PROVE  \A e \in Materials : e \notin pick'[p].mats => pick'[p].lines[e].qty = 0
      <4>1. m \in pick[p].mats /\ pick' = [pick EXCEPT ![p].lines[m] = [qty |-> q, placed |-> TRUE]]
        BY <3>2 DEF EditPickLine
      <4>2. /\ pick'[p].mats = pick[p].mats
            /\ \A e \in Materials : e # m => pick'[p].lines[e] = pick[p].lines[e]
        BY <4>1, <2>2 DEF Sheet
      <4> QED BY <3>0, <4>1, <4>2
    <3>3. ASSUME NEW m \in Materials, RemovePickLine(p, m)
          PROVE  \A e \in Materials : e \notin pick'[p].mats => pick'[p].lines[e].qty = 0
      <4>1. pick' = [pick EXCEPT ![p] = [pick[p] EXCEPT !.mats = pick[p].mats \ {m}, !.lines[m] = Absent]]
        BY <3>3 DEF RemovePickLine
      <4>2. /\ pick'[p].mats = pick[p].mats \ {m} /\ pick'[p].lines[m] = Absent
            /\ \A e \in Materials : e # m => pick'[p].lines[e] = pick[p].lines[e]
        BY <4>1, <2>2 DEF Sheet
      <4> QED BY <3>0, <4>2 DEF Absent
    <3> QED BY <1>3, <3>1, <3>2, <3>3
  <2>5. OnlyItsLines'
    BY <1>t, <2>3, <2>4 DEF OnlyItsLines
  <2> QED BY <1>t, <2>1, <2>3, <2>5, BooksKept DEF CountersAgree, WithinTheOrder
<1> QED BY <1>1, <1>2, <1>3

LEMMA BooksIn ==
  ASSUME LateEdits = FALSE, BInv, IInv', MovesOK', NEW d \in Ins,
         \/ InDone(d) \/ InDraft(d) \/ InCancel(d)
         \/ \E q \in Quantities : EditIn(d, q)
  PROVE  BInv'
<1> USE DEF pickVars
<1>t. RowsOK /\ OneMove /\ OnlyItsLines /\ WithinTheOrder /\ CountersAgree /\ ConfirmedHangsOnConfirmed /\ RowsOK' /\ MovesOK /\ MovesOK'
  BY DEF BInv, IInv
<1>q. /\ in \in [Ins -> [state : DocStates, qty : Nat]] /\ in' \in [Ins -> [state : DocStates, qty : Nat]]
      /\ order.qty \in Nat /\ order.in_qty \in Int /\ in[d].qty \in Nat
  BY <1>t DEF RowsOK
<1>m. /\ inMoves = [e \in Ins |-> inMoves[e]] /\ inMoves' = [e \in Ins |-> inMoves'[e]]
      /\ DOMAIN inMoves = Ins /\ DOMAIN inMoves' = Ins
  BY <1>t DEF MovesOK
<1>o. InMoved(in, inMoves)
  BY <1>t, <1>q, <1>m DEF InMoved, OneMove
<1>1. CASE InDone(d)
  <2> DEFINE total == order.in_qty + in[d].qty
             confirmed == [in EXCEPT ![d].state = "done"]
             rest == [state |-> "draft", qty |-> order.qty - total]
  <2>1. /\ lines' = lines /\ pick' = pick /\ pickMoves' = pickMoves /\ in[d].state = "draft"
        /\ order' = [order EXCEPT !.in_qty = total] /\ total <= order.qty
    BY <1>1, <1>q DEF InDone, CanStock
  <2>2. order'.in_qty = total /\ order'.qty = order.qty /\ order'.state = order.state
    BY <1>t, <2>1 DEF RowsOK
  <2>3. /\ in'[d].state = "done" /\ in'[d].qty = in[d].qty
        /\ \A e \in Ins : e # d => /\ in'[e].state = "done" <=> in[e].state = "done"
                                   /\ in[e].state = "done" => in'[e].qty = in[e].qty
    <3>1. /\ confirmed[d].state = "done" /\ confirmed[d].qty = in[d].qty /\ DOMAIN confirmed = Ins
          /\ \A e \in Ins : e # d => confirmed[e] = in[e]
      BY <1>q
    <3>2. \/ in' = confirmed
          \/ \E n \in Ins : in[n].state = "none" /\ in' = [confirmed EXCEPT ![n] = rest]
      BY <1>1 DEF InDone
    <3>3. rest.state = "draft"
      OBVIOUS
    <3> HIDE DEF confirmed, rest
    <3> QED BY <2>1, <3>1, <3>2, <3>3
  <2>4. \A e \in Ins : inMoves'[e] = IF in'[e].state = "done" THEN <<in'[e].qty>> ELSE <<>>
    <3>1. inMoves[d] = <<>> /\ Append(<<>>, in[d].qty) = <<in[d].qty>>
      BY <1>t, <2>1, AppendFirst DEF OneMove
    <3>2. inMoves' = [inMoves EXCEPT ![d] = <<in[d].qty>>]
      BY <1>1, <3>1 DEF InDone
    <3>3. inMoves'[d] = <<in[d].qty>> /\ \A e \in Ins : e # d => inMoves'[e] = inMoves[e]
      BY <1>m, <3>2
    <3> QED BY <1>t, <2>3, <3>3 DEF OneMove
  <2>5. OneMove'
    BY <1>t, <2>1, <2>4 DEF OneMove
  <2>6. InMoved(in', inMoves')
    BY <1>q, <1>m, <2>4 DEF InMoved
  <2>7. RowsTotal(inMoves') = RowsTotal(inMoves) + in'[d].qty
    BY <1>o, <2>1, <2>3, <2>6, StockedMore
  <2>8. order'.in_qty = Stocked'
    BY <2>2, <2>3, <2>7 DEF BInv, Stocked
  <2>9. CountersAgree' /\ OnlyItsLines'
    BY <1>t, <2>1, <2>2 DEF CountersAgree, OnlyItsLines, Picked
  <2>10. WithinTheOrder'
    BY <1>t, <1>q, <2>1, <2>2 DEF WithinTheOrder
  <2> QED BY <2>5, <2>8, <2>9, <2>10 DEF BInv
<1>2. CASE InDraft(d)
  <2>1. /\ lines' = lines /\ pick' = pick /\ pickMoves' = pickMoves /\ in[d].state = "done"
        /\ order' = [order EXCEPT !.in_qty = order.in_qty - in[d].qty]
    BY <1>2 DEF InDraft
  <2>2. order'.in_qty = order.in_qty - in[d].qty /\ order'.qty = order.qty /\ order'.state = order.state
    BY <1>t, <2>1 DEF RowsOK
  <2>3. /\ in'[d].state = "draft"
        /\ \A e \in Ins : e # d => /\ in[e].state = "done" <=> in'[e].state = "done"
                                   /\ in'[e].state = "done" => in[e].qty = in'[e].qty
    BY <1>2, <1>q DEF InDraft, NoIn
  <2>4. \A e \in Ins : inMoves'[e] = IF in'[e].state = "done" THEN <<in'[e].qty>> ELSE <<>>
    <3>1. \A e \in Ins : inMoves'[e] = IF e = d \/ in[e].state = "draft" THEN <<>> ELSE inMoves[e]
      BY <1>2 DEF InDraft
    <3>2. \A e \in Ins : inMoves[e] = IF in[e].state = "done" THEN <<in[e].qty>> ELSE <<>>
      BY <1>t DEF OneMove
    <3> QED BY <2>3, <3>1, <3>2
  <2>5. OneMove'
    BY <1>t, <2>1, <2>4 DEF OneMove
  <2>6. InMoved(in', inMoves')
    BY <1>q, <1>m, <2>4 DEF InMoved
  <2>7. RowsTotal(inMoves) = RowsTotal(inMoves') + in[d].qty
    BY <1>o, <2>1, <2>3, <2>6, StockedMore
  <2>a. RowsTotal(inMoves') \in Nat
    BY <2>6, InLedger, LedgerTotal
  <2>8. order'.in_qty = Stocked' /\ order'.in_qty >= 0
    BY <1>q, <2>2, <2>7, <2>a DEF BInv, Stocked
  <2>9. CountersAgree' /\ OnlyItsLines'
    BY <1>t, <2>1, <2>2 DEF CountersAgree, OnlyItsLines, Picked
  <2>10. WithinTheOrder'
    BY <1>t, <1>q, <2>1, <2>2, <2>8 DEF WithinTheOrder
  <2> QED BY <2>5, <2>8, <2>9, <2>10 DEF BInv
<1>3. CASE InCancel(d) \/ \E q \in Quantities : EditIn(d, q)
  <2>1. order' = order /\ lines' = lines /\ pick' = pick /\ pickMoves' = pickMoves /\ inMoves' = inMoves /\ in[d].state = "draft"
    BY <1>3 DEF InCancel, EditIn
  <2>2. in'[d].state # "done" /\ \A e \in Ins : e # d => in'[e] = in[e]
    BY <1>3, <1>q, <2>1 DEF InCancel, EditIn
  <2> QED BY <1>t, <2>1, <2>2, BooksKept DEF CountersAgree, WithinTheOrder, OnlyItsLines
<1> QED BY <1>1, <1>2, <1>3

LEMMA BooksStep ==
  ASSUME LateEdits = FALSE, BInv, [Next]_vars
  PROVE  BInv'
<1>1. IInv' /\ MovesOK'
  BY InvStep, MovesStep DEF BInv
<1>2. CASE UNCHANGED vars \/ (StockNext /\ UNCHANGED <<apply, order, lines, pickVars, inVars>>)
  <2>1. order' = order /\ lines' = lines /\ pick' = pick /\ pickMoves' = pickMoves /\ in' = in /\ inMoves' = inMoves
    BY <1>2 DEF vars, pickVars, inVars
  <2> QED BY <1>1, <2>1, BooksKept DEF BInv, CountersAgree, WithinTheOrder, OnlyItsLines
<1> QED BY <1>1, <1>2, BooksOrder, BooksPick, BooksIn DEF Next

LEMMA BooksInit == Init => BInv
<1> SUFFICES ASSUME Init PROVE BInv
  OBVIOUS
<1>1. IInv /\ MovesOK
  BY TypesInit
<1>2. OneMove /\ OnlyItsLines
  BY DEF Init, OneMove, OnlyItsLines, NoSheet, NoIn, Absent
<1>3. WithinTheOrder
  BY DEF Init, WithinTheOrder, NoOrder, NoLines
<1>4. \A m \in Materials : Picked(m) = 0
  <2> TAKE m \in Materials
  <2> DEFINE v == QtyOf(pick, m)
  <2>1. Ledger(AmountsOf(pickMoves, m), Confirmed(pick), v)
    BY <1>1, <1>2, PickLedger DEF IInv, RowsOK, MovesOK, OneMove
  <2>2. Confirmed(pick) = {}
    BY DEF Init, Confirmed, NoSheet
  <2> HIDE DEF v
  <2>3. Ledger(AmountsOf(pickMoves, m), {}, v)
    BY <2>1, <2>2
  <2> QED BY <2>3, LedgerNone DEF Picked
<1>5. Stocked = 0
  <2> DEFINE q == CountOf(in)
  <2>1. InMoved(in, inMoves)
    BY <1>1, <1>2 DEF IInv, RowsOK, MovesOK, OneMove, InMoved
  <2>2. Ledger(inMoves, Confirmed(in), q)
    BY <2>1, InLedger
  <2>3. Confirmed(in) = {}
    BY DEF Init, Confirmed, NoIn
  <2> HIDE DEF q
  <2>4. Ledger(inMoves, {}, q)
    BY <2>2, <2>3
  <2> QED BY <2>4, LedgerNone DEF Stocked
<1>6. CountersAgree /\ order.in_qty = Stocked
  BY <1>4, <1>5 DEF Init, CountersAgree, NoOrder, NoLines
<1> QED BY <1>1, <1>2, <1>3, <1>6 DEF BInv

\* When nobody edits a confirmed stock-in, the counters of the order agree with
\* the stock ledger and every confirmed sheet has its one move, however often
\* pickings and stock-ins are confirmed, undone, replaced and cancelled.
THEOREM BooksCorrect ==
  ASSUME LateEdits = FALSE
  PROVE  Spec => []BooksAgree
<1>1. BInv /\ StockInv /\ [Next]_vars => BInv' /\ StockInv'
  BY BooksStep, StockInvStep
<1>2. Init => BInv /\ StockInv
  BY BooksInit, TypesInit
<1>3. BInv /\ StockInv => BooksAgree
  BY DEF BInv, StockInv, CountersAgree, OneMove, BooksAgree
<1> QED BY <1>1, <1>2, <1>3, PTL DEF Spec

\* Under the same hypothesis, not more is picked than the samples need and not
\* more brought in than was asked for.  The confirmation of a picking compares
\* with what is still to be picked; only with the ledger does that bound what
\* was picked in all.
THEOREM WithinOrder ==
  ASSUME LateEdits = FALSE
  PROVE  Spec => []WithinTheOrder
<1>1. BInv /\ [Next]_vars => BInv'
  BY BooksStep
<1>2. BInv => WithinTheOrder
  BY DEF BInv
<1> QED BY <1>1, <1>2, BooksInit, PTL DEF Spec
=============================================================================
