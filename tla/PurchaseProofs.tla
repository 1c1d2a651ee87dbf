--------------------------- MODULE PurchaseProofs ---------------------------
(***************************************************************************)
(* Proofs about Purchase, for every set of order lines, documents and      *)
(* quantities.                                                             *)
(***************************************************************************)
EXTENDS Purchase, SumsProofs

-----------------------------------------------------------------------------
(* Types. *)

LEMMA CreateWarehousingType ==
  ASSUME TypeOK, NEW st \in [Docs -> {"none", "draft", "done", "rejection", "cancel"}],
         NEW bought \in [Lines -> Int], CreateWarehousing(st, bought)
  PROVE  /\ docState' \in [Docs -> {"none", "draft", "done", "rejection", "cancel"}]
         /\ docLines' \in [Docs -> SUBSET Lines]
         /\ docQty' \in [Docs -> [Lines -> Nat]]
<1> DEFINE open == {l \in Lines : qty[l] - bought[l] > 0}
           rest == [l \in Lines |-> IF l \in open THEN qty[l] - bought[l] ELSE 0]
<1>1. rest \in [Lines -> Nat]
  BY DEF TypeOK
<1>2. open \in SUBSET Lines
  OBVIOUS
<1>3. \/ docState' = st /\ UNCHANGED <<docLines, docQty>>
      \/ \E n \in Docs : /\ docState' = [st EXCEPT ![n] = "draft"]
                         /\ docLines' = [docLines EXCEPT ![n] = open]
                         /\ docQty' = [docQty EXCEPT ![n] = rest]
  BY DEF CreateWarehousing
<1> HIDE DEF open, rest
<1>4. /\ docState \in [Docs -> {"none", "draft", "done", "rejection", "cancel"}]
      /\ docLines \in [Docs -> SUBSET Lines] /\ docQty \in [Docs -> [Lines -> Nat]]
  BY DEF TypeOK
<1>5. CASE docState' = st /\ UNCHANGED <<docLines, docQty>>
  BY <1>4, <1>5
<1>6. ASSUME NEW n \in Docs, docState' = [st EXCEPT ![n] = "draft"],
             docLines' = [docLines EXCEPT ![n] = open], docQty' = [docQty EXCEPT ![n] = rest]
      PROVE  /\ docState' \in [Docs -> {"none", "draft", "done", "rejection", "cancel"}]
             /\ docLines' \in [Docs -> SUBSET Lines]
             /\ docQty' \in [Docs -> [Lines -> Nat]]
  BY <1>1, <1>2, <1>4, <1>6
<1> QED BY <1>3, <1>5, <1>6

LEMMA UnlinkType ==
  ASSUME TypeOK, NEW D \in SUBSET Docs, Unlink(D), UNCHANGED <<orderStock, qty, buy_qty>>,
         orderState' \in {"draft", "done", "cancel"}
  PROVE  TypeOK'
BY DEF TypeOK, Unlink

LEMMA TypeStep == TypeOK /\ [Next]_vars => TypeOK'
<1> SUFFICES ASSUME TypeOK, [Next]_vars PROVE TypeOK'
  OBVIOUS
<1> USE DEF TypeOK
<1>1. CASE OrderDone
  <2>1. CreateWarehousing(docState, buy_qty)
    BY <1>1 DEF OrderDone
  <2>2. /\ docState' \in [Docs -> {"none", "draft", "done", "rejection", "cancel"}]
        /\ docLines' \in [Docs -> SUBSET Lines]
        /\ docQty' \in [Docs -> [Lines -> Nat]]
    BY <2>1, CreateWarehousingType
  <2> QED BY <1>1, <2>2 DEF OrderDone
<1>2. CASE OrderDraft
  BY <1>2, UnlinkType DEF OrderDraft
<1>3. CASE OrderCancel
  BY <1>3 DEF OrderCancel, docVars, ledgerVars
<1>4. CASE SellApplyDraft
  BY <1>4, UnlinkType DEF SellApplyDraft, orderVars
<1>5. ASSUME NEW l \in Lines, NEW q \in OrderQuantities[l], EditOrderLine(l, q)
      PROVE  TypeOK'
  BY <1>5, QuantitiesAssumption DEF EditOrderLine, docVars, ledgerVars
<1>6. ASSUME NEW d \in Docs, DocDone(d)
      PROVE  TypeOK'
  <2>1. Confirmed(d) \in [Lines -> Int]
    BY DEF Confirmed
  <2>2. CreateWarehousing([docState EXCEPT ![d] = "done"], Confirmed(d))
    BY <1>6 DEF DocDone
  <2>3. /\ docState' \in [Docs -> {"none", "draft", "done", "rejection", "cancel"}]
        /\ docLines' \in [Docs -> SUBSET Lines]
        /\ docQty' \in [Docs -> [Lines -> Nat]]
    BY <2>1, <2>2, CreateWarehousingType
  <2> QED BY <1>6, <2>1, <2>3 DEF DocDone, StockAfterReceipt
<1>7. ASSUME NEW d \in Docs, DocDraft(d)
      PROVE  TypeOK'
  <2>1. Undone(d) \in [Lines -> Int]
    BY DEF Undone
  <2> QED BY <1>7, <2>1 DEF DocDraft, StockAfterUndo, LinesAfterUndo
<1>8. ASSUME NEW d \in Docs, DocRejection(d) \/ DocCancel(d)
      PROVE  TypeOK'
  BY <1>8 DEF DocRejection, DocCancel, orderVars, ledgerVars
<1>9. ASSUME NEW d \in Docs, DocReturn(d)
      PROVE  TypeOK'
  BY <1>9 DEF DocReturn, orderVars
<1>10. ASSUME NEW d \in Docs, Payment(d)
       PROVE  TypeOK'
  BY <1>10 DEF Payment, orderVars, docVars, ledgerVars
<1>11. ASSUME NEW d \in Docs, ReturnDone(d) \/ ReturnDraft(d)
       PROVE  TypeOK'
  BY <1>11 DEF ReturnDone, ReturnDraft, SetReturn, orderVars
<1>12. ASSUME NEW d \in Docs, DocUnlink(d)
       PROVE  TypeOK'
  <2>1. {d} \in SUBSET Docs
    OBVIOUS
  <2> QED BY <1>12, <2>1, UnlinkType DEF DocUnlink, orderVars
<1>13. ASSUME NEW d \in Docs, NEW l \in Lines, NEW q \in DocQuantities, EditDocLine(d, l, q)
       PROVE  TypeOK'
  BY <1>13, QuantitiesAssumption DEF EditDocLine, orderVars, docVars
<1>14. ASSUME NEW d \in Docs, NEW l \in Lines, RemoveDocLine(d, l)
       PROVE  TypeOK'
  BY <1>14 DEF RemoveDocLine, orderVars, docVars
<1>15. ASSUME NEW d \in Docs, NEW i \in DOMAIN pays[d],
              PayDone(d, i) \/ PayDraft(d, i) \/ PayCancel(d, i)
       PROVE  TypeOK'
  <2>1. \A to \in {"draft", "done", "cancel"} :
          [pays[d] EXCEPT ![i] = to] \in Seq({"draft", "done", "cancel"})
    OBVIOUS
  <2> QED BY <1>15, <2>1 DEF PayDone, PayDraft, PayCancel, SetPay, orderVars, docVars, ledgerVars
<1>16. CASE UNCHANGED vars
  BY <1>16 DEF vars, orderVars, docVars, ledgerVars
<1> HIDE DEF TypeOK
<1> QED
  BY <1>1, <1>2, <1>3, <1>4, <1>5, <1>6, <1>7, <1>8, <1>9, <1>10, <1>11, <1>12, <1>13, <1>14,
     <1>15, <1>16
  DEF Next

LEMMA InitType == Init => TypeOK
<1> SUFFICES ASSUME Init PROVE TypeOK
  OBVIOUS
<1>1. \A l \in Lines : OrderQuantities[l] \subseteq Nat
  BY QuantitiesAssumption
<1>2. qty \in [Lines -> Nat]
  BY <1>1 DEF Init
<1>3. docState \in [Docs -> {"none", "draft", "done", "rejection", "cancel"}] /\ orderState = "draft"
  BY DEF Init
<1>4. pays \in [Docs -> Seq({"draft", "done", "cancel"})]
  BY DEF Init
<1>5. docQty \in [Docs -> [Lines -> Nat]] /\ buy_qty \in [Lines -> Int]
  BY DEF Init
<1>6. origin \in [Docs -> Docs \cup {NoDoc}] /\ docLines \in [Docs -> SUBSET Lines]
  BY DEF Init
<1>7. /\ isReturn \in [Docs -> BOOLEAN] /\ strayMove \in BOOLEAN
      /\ lineType \in [Docs -> {"in", "out", "rejection"}]
      /\ lineState \in [Docs -> {"draft", "done"}]
      /\ moveState \in [Docs -> {"draft", "done"}]
      /\ orderStock \in {"not_stock", "part_stock", "done_stock"}
  BY DEF Init
<1> QED BY <1>2, <1>3, <1>4, <1>5, <1>6, <1>7 DEF TypeOK

\* Every variable keeps its type, whether or not stale forms are in use.
THEOREM TypeCorrect == Spec => []TypeOK
<1>1. Init => TypeOK
  BY InitType
<1> QED BY <1>1, TypeStep, PTL DEF Spec

-----------------------------------------------------------------------------
(* The rows of a document. *)

\* What a document's lines are in the ledger as: a receipt's come in until the
\* goods are refused, a return's go out; a row that does not exist is neither.
LineTypeFollows ==
  \A d \in Docs :
    /\ isReturn[d] => docState[d] # "none" /\ lineType[d] = "out"
    /\ ~isReturn[d] => (lineType[d] = "in" <=> docState[d] # "rejection")

\* A document carries nothing of an order line it has no line for.
OnlyItsLines == \A d \in Docs : \A l \in Lines : l \notin docLines[d] => docQty[d][l] = 0

\* Documents exist for a confirmed order only.
DocumentsNeedOrder == orderState # "done" => \A d \in Docs : docState[d] = "none"

RowsInv ==
  /\ TypeOK /\ MoveFollowsDocument
  /\ LineTypeFollows /\ OnlyItsLines /\ DocumentsNeedOrder

LEMMA InitRows == Init => RowsInv
BY InitType DEF Init, RowsInv, MoveFollowsDocument, LineTypeFollows, OnlyItsLines, DocumentsNeedOrder

\* What create_warehousing does to the rows.
LEMMA CreateWarehousingRows ==
  ASSUME RowsInv, NEW st \in [Docs -> {"none", "draft", "done", "rejection", "cancel"}],
         NEW bought, CreateWarehousing(st, bought)
  PROVE  /\ \A d \in Docs : docState'[d] = st[d] \/ (st[d] = "none" /\ docState'[d] = "draft")
         /\ \A d \in Docs : st[d] # "none" => docLines'[d] = docLines[d] /\ docQty'[d] = docQty[d]
         /\ OnlyItsLines'
<1> DEFINE open == {l \in Lines : qty[l] - bought[l] > 0}
           rest == [l \in Lines |-> IF l \in open THEN qty[l] - bought[l] ELSE 0]
<1>1. \/ docState' = st /\ UNCHANGED <<docLines, docQty>>
      \/ \E n \in Docs : /\ st[n] = "none"
                         /\ docState' = [st EXCEPT ![n] = "draft"]
                         /\ docLines' = [docLines EXCEPT ![n] = open]
                         /\ docQty' = [docQty EXCEPT ![n] = rest]
  BY DEF CreateWarehousing
<1>2. \A l \in Lines : l \notin open => rest[l] = 0
  OBVIOUS
<1> HIDE DEF open, rest
<1>3. CASE docState' = st /\ UNCHANGED <<docLines, docQty>>
  BY <1>3 DEF RowsInv, OnlyItsLines
<1>4. ASSUME NEW n \in Docs, st[n] = "none", docState' = [st EXCEPT ![n] = "draft"],
             docLines' = [docLines EXCEPT ![n] = open], docQty' = [docQty EXCEPT ![n] = rest]
      PROVE  /\ \A d \in Docs : docState'[d] = st[d] \/ (st[d] = "none" /\ docState'[d] = "draft")
             /\ \A d \in Docs : st[d] # "none" => docLines'[d] = docLines[d] /\ docQty'[d] = docQty[d]
             /\ OnlyItsLines'
  <2>1. \A d \in Docs : d # n => docLines'[d] = docLines[d] /\ docQty'[d] = docQty[d]
    BY <1>4 DEF RowsInv, TypeOK
  <2>2. docLines'[n] = open /\ docQty'[n] = rest
    BY <1>4 DEF RowsInv, TypeOK
  <2>3. OnlyItsLines'
    BY <2>1, <2>2, <1>2 DEF RowsInv, OnlyItsLines
  <2> QED BY <1>4, <2>1, <2>3
<1> QED BY <1>1, <1>3, <1>4

LEMMA UnlinkRows ==
  ASSUME RowsInv, NEW D \in SUBSET Docs, Unlink(D),
         orderState' = orderState \/ \A d \in Docs : docState'[d] = "none"
  PROVE  MoveFollowsDocument' /\ LineTypeFollows' /\ OnlyItsLines' /\ DocumentsNeedOrder'
<1> USE DEF RowsInv, TypeOK, Unlink
<1>1. MoveFollowsDocument'
  BY DEF MoveFollowsDocument
<1>2. LineTypeFollows'
  BY DEF LineTypeFollows
<1>3. OnlyItsLines'
  BY DEF OnlyItsLines
<1>4. DocumentsNeedOrder'
  BY DEF DocumentsNeedOrder
<1> QED BY <1>1, <1>2, <1>3, <1>4

LEMMA RowsStep ==
  ASSUME StaleForms = FALSE, RowsInv, [Next]_vars
  PROVE  RowsInv'
<1>0. TypeOK'
  BY TypeStep DEF RowsInv
<1> USE <1>0 DEF RowsInv, TypeOK, Shown
<1> DEFINE Rows == MoveFollowsDocument /\ LineTypeFollows /\ OnlyItsLines /\ DocumentsNeedOrder
<1> SUFFICES Rows'
  OBVIOUS
<1>1. CASE OrderDone
  <2>1. CreateWarehousing(docState, buy_qty)
    BY <1>1 DEF OrderDone
  <2>2. /\ \A d \in Docs : \/ docState'[d] = docState[d]
                           \/ docState[d] = "none" /\ docState'[d] = "draft"
        /\ OnlyItsLines'
    BY <2>1, CreateWarehousingRows
  <2> QED
    BY <1>1, <2>2 DEF OrderDone, MoveFollowsDocument, LineTypeFollows, DocumentsNeedOrder
<1>2. CASE OrderDraft
  BY <1>2, UnlinkRows DEF OrderDraft, Unlink
<1>3. CASE OrderCancel
  BY <1>3 DEF OrderCancel, docVars, ledgerVars, MoveFollowsDocument, LineTypeFollows,
              OnlyItsLines, DocumentsNeedOrder
<1>4. CASE SellApplyDraft
  BY <1>4, UnlinkRows DEF SellApplyDraft, orderVars
<1>5. ASSUME NEW l \in Lines, NEW q \in OrderQuantities[l], EditOrderLine(l, q)
      PROVE  Rows'
  BY <1>5 DEF EditOrderLine, docVars, ledgerVars, MoveFollowsDocument, LineTypeFollows,
              OnlyItsLines, DocumentsNeedOrder
<1>6. ASSUME NEW d \in Docs, DocDone(d)
      PROVE  Rows'
  <2>1. [docState EXCEPT ![d] = "done"] \in [Docs -> {"none", "draft", "done", "rejection", "cancel"}]
    OBVIOUS
  <2>2. CreateWarehousing([docState EXCEPT ![d] = "done"], Confirmed(d))
    BY <1>6 DEF DocDone
  <2>3. docState[d] = "draft" /\ orderState = "done" /\ orderState' = orderState
    BY <1>6 DEF DocDone, DocumentsNeedOrder
  <2>4. /\ \A e \in Docs : e # d => \/ docState'[e] = docState[e]
                                    \/ docState[e] = "none" /\ docState'[e] = "draft"
        /\ docState'[d] = "done"
        /\ OnlyItsLines'
    <3> DEFINE st == [docState EXCEPT ![d] = "done"]
    <3>1. \A e \in Docs : st[e] = IF e = d THEN "done" ELSE docState[e]
      OBVIOUS
    <3> HIDE DEF st, TypeOK
    <3>2. /\ \A e \in Docs : docState'[e] = st[e] \/ (st[e] = "none" /\ docState'[e] = "draft")
          /\ OnlyItsLines'
      BY <2>1, <2>2, CreateWarehousingRows DEF st
    <3> QED BY <3>1, <3>2
  <2>5. MoveFollowsDocument'
    BY <1>6, <2>4 DEF DocDone, MoveFollowsDocument
  <2>6. LineTypeFollows'
    BY <1>6, <2>3, <2>4 DEF DocDone, LineTypeFollows
  <2> QED BY <2>3, <2>4, <2>5, <2>6 DEF DocumentsNeedOrder
<1>7. ASSUME NEW d \in Docs, DocDraft(d)
      PROVE  Rows'
  <2>1. docState[d] = "done" /\ moveState[d] = "done"
    BY <1>7 DEF DocDraft, MoveFollowsDocument
  <2> QED
    BY <1>7, <2>1 DEF DocDraft, LinesAfterUndo, MoveFollowsDocument, LineTypeFollows,
                      OnlyItsLines, DocumentsNeedOrder
<1>8. ASSUME NEW d \in Docs, DocRejection(d)
      PROVE  Rows'
  BY <1>8 DEF DocRejection, Receipts, orderVars, MoveFollowsDocument, LineTypeFollows,
              OnlyItsLines, DocumentsNeedOrder
<1>9. ASSUME NEW d \in Docs, DocReturn(d)
      PROVE  Rows'
  BY <1>9 DEF DocReturn, orderVars, MoveFollowsDocument, LineTypeFollows, OnlyItsLines,
              DocumentsNeedOrder
<1>10. ASSUME NEW d \in Docs, DocCancel(d)
       PROVE  Rows'
  BY <1>10 DEF DocCancel, orderVars, ledgerVars, MoveFollowsDocument, LineTypeFollows,
               OnlyItsLines, DocumentsNeedOrder
<1>11. ASSUME NEW d \in Docs, ReturnDone(d) \/ ReturnDraft(d)
       PROVE  Rows'
  <2>1. PICK from \in {"draft", "done"}, to \in {"draft", "done"} : SetReturn(d, from, to)
    BY <1>11 DEF ReturnDone, ReturnDraft
  <2>2. isReturn[d] /\ docState[d] = from
    BY <2>1 DEF SetReturn, Returns
  <2>3. MoveFollowsDocument'
    BY <2>1 DEF SetReturn, MoveFollowsDocument
  <2>4. LineTypeFollows'
    BY <2>1, <2>2 DEF SetReturn, LineTypeFollows
  <2> QED
    BY <2>1, <2>2, <2>3, <2>4 DEF SetReturn, orderVars, OnlyItsLines, DocumentsNeedOrder
<1>12. ASSUME NEW d \in Docs, DocUnlink(d)
       PROVE  Rows'
  <2>1. {d} \in SUBSET Docs
    OBVIOUS
  <2> QED BY <1>12, <2>1, UnlinkRows DEF DocUnlink, orderVars
<1>13. ASSUME NEW d \in Docs, NEW l \in Lines, NEW q \in DocQuantities, EditDocLine(d, l, q)
       PROVE  Rows'
  BY <1>13 DEF EditDocLine, orderVars, docVars, MoveFollowsDocument, LineTypeFollows,
               OnlyItsLines, DocumentsNeedOrder
<1>14. ASSUME NEW d \in Docs, NEW l \in Lines, RemoveDocLine(d, l)
       PROVE  Rows'
  BY <1>14 DEF RemoveDocLine, orderVars, docVars, MoveFollowsDocument, LineTypeFollows,
               OnlyItsLines, DocumentsNeedOrder
<1>15. ASSUME NEW d \in Docs,
              Payment(d) \/ \E i \in DOMAIN pays[d] : PayDone(d, i) \/ PayDraft(d, i) \/ PayCancel(d, i)
       PROVE  Rows'
  BY <1>15 DEF Payment, PayDone, PayDraft, PayCancel, SetPay, orderVars, docVars, ledgerVars,
               MoveFollowsDocument, LineTypeFollows, OnlyItsLines, DocumentsNeedOrder
<1>16. CASE UNCHANGED vars
  BY <1>16 DEF vars, orderVars, docVars, ledgerVars, MoveFollowsDocument, LineTypeFollows,
               OnlyItsLines, DocumentsNeedOrder
<1> HIDE DEF TypeOK, Rows
<1> QED
  BY <1>1, <1>2, <1>3, <1>4, <1>5, <1>6, <1>7, <1>8, <1>9, <1>10, <1>11, <1>12, <1>13, <1>14,
     <1>15, <1>16
  DEF Next

\* A document, its stock move and the move's lines tell the same story.
THEOREM MoveFollows ==
  ASSUME StaleForms = FALSE
  PROVE  Spec => []MoveFollowsDocument
<1>1. RowsInv => MoveFollowsDocument
  BY DEF RowsInv
<1>2. RowsInv /\ [Next]_vars => RowsInv'
  BY RowsStep
<1> QED BY <1>1, <1>2, InitRows, PTL DEF Spec

-----------------------------------------------------------------------------
(* The stock ledger. *)

IInv == RowsInv /\ LedgerWithinBuyQty /\ LedgerWithinOrder /\ NotStockMeansEmptyLedger

\* The quantities of any documents can be added up.
LEMMA DocumentsSummable ==
  ASSUME NEW S \in SUBSET Docs, NEW q \in [Docs -> [Lines -> Nat]], NEW l \in Lines
  PROVE  Summable([d \in S |-> q[d][l]]) /\ Total([d \in S |-> q[d][l]]) \in Nat
<1> DEFINE f == [d \in S |-> q[d][l]]
<1>1. IsFiniteSet(S)
  BY DocsAssumption, FS_Subset
<1>2. Summable(f)
  BY <1>1 DEF Summable
<1>3. Total(f) \in Nat
  <2> HIDE DEF f
  <2> QED BY <1>2, TotalType
<1> QED BY <1>2, <1>3

\* In the ledger as incoming: exactly the confirmed receipts.
LEMMA InStockAre ==
  ASSUME RowsInv
  PROVE  InStock = {d \in Docs : docState[d] = "done" /\ ~isReturn[d]}
BY DEF InStock, RowsInv, TypeOK, MoveFollowsDocument, LineTypeFollows

\* Unless a receipt is confirmed the ledger gains nothing.
LEMMA LedgerShrinks ==
  ASSUME RowsInv, RowsInv', NEW l \in Lines,
         InStock' \subseteq InStock, \A d \in InStock' : docQty'[d] = docQty[d]
  PROVE  InLedger(l)' <= InLedger(l) /\ InLedger(l)' \in Nat /\ InLedger(l) \in Nat
<1> DEFINE f == [d \in InStock |-> docQty[d][l]]
           g == [d \in InStock' |-> docQty'[d][l]]
<1>1. InStock \in SUBSET Docs /\ InStock' \in SUBSET Docs
  BY DEF InStock
<1>2. docQty \in [Docs -> [Lines -> Nat]] /\ docQty' \in [Docs -> [Lines -> Nat]]
  BY DEF RowsInv, TypeOK
<1>3. Summable(f) /\ Total(f) \in Nat
  BY <1>1, <1>2, DocumentsSummable
<1>4. Summable(g) /\ Total(g) \in Nat
  BY <1>1, <1>2, DocumentsSummable
<1>5. DOMAIN g \subseteq DOMAIN f /\ \A d \in DOMAIN g : g[d] \in Nat /\ g[d] <= f[d]
  BY <1>1, <1>2
<1>6. Total(g) <= Total(f)
  <2> HIDE DEF f, g
  <2> QED BY <1>3, <1>5, TotalFewer
<1> QED BY <1>3, <1>4, <1>6 DEF InLedger

\* One document more adds what it carries.
LEMMA OneMoreDocument ==
  ASSUME NEW S \in SUBSET Docs, NEW d \in Docs, d \notin S, NEW l \in Lines,
         NEW p \in [Docs -> [Lines -> Nat]], NEW q \in [Docs -> [Lines -> Nat]],
         \A e \in S : q[e] = p[e]
  PROVE  Total([e \in S \cup {d} |-> q[e][l]]) = Total([e \in S |-> p[e][l]]) + q[d][l]
<1> DEFINE f == [e \in S |-> p[e][l]]
           g == [e \in S \cup {d} |-> q[e][l]]
<1>1. Summable(f)
  BY DocumentsSummable
<1>2. /\ d \notin DOMAIN f /\ DOMAIN g = DOMAIN f \cup {d}
      /\ g[d] = q[d][l] /\ g[d] \in Nat
      /\ \A e \in DOMAIN f : g[e] = f[e]
  OBVIOUS
<1>3. Total(g) = Total(f) + g[d]
  <2> HIDE DEF f, g
  <2> QED BY <1>1, <1>2, TotalMore
<1> QED BY <1>2, <1>3

\* What is in the ledger does not change more than by deletions, unless a
\* receipt is confirmed or undone.
LEMMA LedgerKept ==
  ASSUME IInv, RowsInv', buy_qty' = buy_qty, orderStock' = orderStock,
         InStock' \subseteq InStock, \A d \in InStock' : docQty'[d] = docQty[d],
         qty' = qty \/ InStock = {}
  PROVE  IInv'
<1>1. \A l \in Lines : InLedger(l)' <= InLedger(l) /\ InLedger(l)' \in Nat /\ InLedger(l) \in Nat
  BY LedgerShrinks DEF IInv
<1>2. qty \in [Lines -> Nat] /\ qty' \in [Lines -> Nat] /\ buy_qty \in [Lines -> Int]
  BY DEF IInv, RowsInv, TypeOK
<1>3. InStock = {} => \A l \in Lines : InLedger(l) = 0
  BY TotalEmpty DEF InLedger
<1>4. LedgerWithinBuyQty'
  BY <1>1, <1>2 DEF IInv, LedgerWithinBuyQty
<1>5. LedgerWithinOrder'
  BY <1>1, <1>2, <1>3 DEF IInv, LedgerWithinOrder
<1>6. NotStockMeansEmptyLedger'
  BY <1>1 DEF IInv, NotStockMeansEmptyLedger
<1> QED BY <1>4, <1>5, <1>6 DEF IInv

LEMMA UnlinkKept ==
  ASSUME IInv, RowsInv', NEW D \in SUBSET Docs, Unlink(D), UNCHANGED <<orderStock, qty, buy_qty>>
  PROVE  IInv'
<1>1. InStock' \subseteq InStock /\ \A d \in InStock' : docQty'[d] = docQty[d]
  BY DEF IInv, RowsInv, TypeOK, Unlink, InStock
<1> QED BY <1>1, LedgerKept

\* Confirming a receipt adds to the ledger what it adds to buy_qty, within
\* what was ordered of the lines it has.
LEMMA DocDoneStep ==
  ASSUME StaleForms = FALSE, IInv, RowsInv', NEW d \in Docs, DocDone(d)
  PROVE  IInv'
<1> DEFINE st == [docState EXCEPT ![d] = "done"]
<1>1. /\ docState[d] = "draft" /\ ~isReturn[d] /\ CanReceive(d)
      /\ buy_qty' = Confirmed(d) /\ qty' = qty /\ lineType' = lineType
      /\ orderStock' \in {"done_stock", "part_stock"}
      /\ lineState' = [lineState EXCEPT ![d] = "done"]
      /\ CreateWarehousing(st, Confirmed(d))
  BY DEF DocDone, Shown, Receipts, StockAfterReceipt
<1>2. /\ \A e \in Docs : st[e] = IF e = d THEN "done" ELSE docState[e]
      /\ st \in [Docs -> {"none", "draft", "done", "rejection", "cancel"}]
  BY DEF IInv, RowsInv, TypeOK
<1>3. \A e \in Docs : st[e] # "none" => docQty'[e] = docQty[e]
  <2> HIDE DEF st
  <2> QED BY <1>1, <1>2, CreateWarehousingRows DEF IInv
<1>4. lineType[d] = "in" /\ lineState[d] # "done"
  BY <1>1 DEF IInv, RowsInv, LineTypeFollows, MoveFollowsDocument
<1>5. InStock' = InStock \cup {d} /\ d \notin InStock
  BY <1>1, <1>4 DEF InStock, IInv, RowsInv, TypeOK
<1>6. \A e \in InStock \cup {d} : docQty'[e] = docQty[e]
  BY <1>2, <1>3, InStockAre DEF IInv
<1>7. /\ docQty \in [Docs -> [Lines -> Nat]] /\ docQty' \in [Docs -> [Lines -> Nat]]
      /\ qty \in [Lines -> Nat] /\ buy_qty \in [Lines -> Int] /\ InStock \in SUBSET Docs
  BY DEF IInv, RowsInv, TypeOK, InStock
<1>8. ASSUME NEW l \in Lines
      PROVE  InLedger(l)' = InLedger(l) + docQty[d][l] /\ InLedger(l) \in Nat
  <2>1. InLedger(l) \in Nat
    BY <1>7, DocumentsSummable DEF InLedger
  <2>2. /\ InLedger(l)' = Total([e \in InStock \cup {d} |-> docQty'[e][l]])
        /\ InLedger(l) = Total([e \in InStock |-> docQty[e][l]])
    BY <1>5 DEF InLedger
  <2>3. Total([e \in InStock \cup {d} |-> docQty'[e][l]])
          = Total([e \in InStock |-> docQty[e][l]]) + docQty'[d][l]
    <3>1. d \notin InStock /\ \A e \in InStock : docQty'[e] = docQty[e]
      BY <1>5, <1>6
    <3> DEFINE f == [e \in InStock |-> docQty[e][l]]
               g == [e \in InStock \cup {d} |-> docQty'[e][l]]
    <3>2. Summable(f)
      BY <1>7, DocumentsSummable
    <3>3. /\ d \notin DOMAIN f /\ DOMAIN g = DOMAIN f \cup {d}
          /\ g[d] = docQty'[d][l] /\ g[d] \in Nat
          /\ \A e \in DOMAIN f : g[e] = f[e]
      BY <1>7, <3>1
    <3>4. Total(g) = Total(f) + g[d]
      <4> HIDE DEF f, g
      <4> QED BY <3>2, <3>3, TotalMore
    <3> QED BY <3>3, <3>4
  <2> QED BY <1>6, <2>1, <2>2, <2>3
<1>9. LedgerWithinBuyQty'
  BY <1>1, <1>7, <1>8 DEF IInv, LedgerWithinBuyQty, Confirmed
<1>10. LedgerWithinOrder'
  <2> SUFFICES ASSUME NEW l \in Lines PROVE InLedger(l)' <= qty[l]
    BY <1>1 DEF LedgerWithinOrder
  <2>1. InLedger(l) <= buy_qty[l] /\ InLedger(l) <= qty[l]
    BY DEF IInv, LedgerWithinBuyQty, LedgerWithinOrder
  <2>2. CASE l \in docLines[d]
    BY <1>1, <1>7, <1>8, <2>1, <2>2 DEF CanReceive
  <2>3. CASE l \notin docLines[d]
    BY <1>8, <2>1, <2>3 DEF IInv, RowsInv, OnlyItsLines
  <2> QED BY <2>2, <2>3
<1>11. NotStockMeansEmptyLedger'
  BY <1>1 DEF NotStockMeansEmptyLedger
<1> QED BY <1>9, <1>10, <1>11 DEF IInv

\* Undoing a receipt takes from the ledger what it takes from buy_qty, and the
\* order reads '未入库' only when nothing is left of any line.
LEMMA DocDraftStep ==
  ASSUME StaleForms = FALSE, IInv, RowsInv', NEW d \in Docs, DocDraft(d)
  PROVE  IInv'
<1>1. /\ docState[d] = "done" /\ ~isReturn[d]
      /\ buy_qty' = Undone(d) /\ qty' = qty /\ docQty' = docQty
      /\ lineType' = lineType
      /\ orderStock' = StockAfterUndo(d, Undone(d))
      /\ lineState' = [lineState EXCEPT ![d] = LinesAfterUndo(d)]
  BY DEF DocDraft, Shown, Receipts
<1>2. lineState' = [lineState EXCEPT ![d] = "draft"]
  BY <1>1 DEF IInv, RowsInv, MoveFollowsDocument, LinesAfterUndo
<1>3. d \in InStock /\ InStock' = InStock \ {d}
  <2>1. d \in InStock
    BY <1>1, InStockAre DEF IInv
  <2> QED BY <1>1, <1>2, <2>1 DEF InStock, IInv, RowsInv, TypeOK
<1>4. /\ docQty \in [Docs -> [Lines -> Nat]]
      /\ buy_qty \in [Lines -> Int] /\ InStock \in SUBSET Docs
      /\ InStock' \in SUBSET Docs
  BY DEF IInv, RowsInv, TypeOK, InStock
<1>5. ASSUME NEW l \in Lines
      PROVE  InLedger(l) = InLedger(l)' + docQty[d][l] /\ InLedger(l)' \in Nat
  <2>1. InLedger(l)' = Total([e \in InStock' |-> docQty[e][l]])
    BY <1>1 DEF InLedger
  <2>2. InLedger(l)' \in Nat
    BY <1>4, <2>1, DocumentsSummable
  <2>3. InLedger(l) = Total([e \in InStock' \cup {d} |-> docQty[e][l]])
    <3>1. InStock = InStock' \cup {d}
      BY <1>3
    <3> QED BY <3>1 DEF InLedger
  <2>4. Total([e \in InStock' \cup {d} |-> docQty[e][l]])
          = Total([e \in InStock' |-> docQty[e][l]]) + docQty[d][l]
    BY <1>3, <1>4, OneMoreDocument
  <2> QED BY <2>1, <2>2, <2>3, <2>4
<1>6. LedgerWithinBuyQty'
  BY <1>1, <1>4, <1>5 DEF IInv, LedgerWithinBuyQty, Undone
<1>7. LedgerWithinOrder'
  <2>1. \A l \in Lines : docQty[d][l] \in Nat /\ qty[l] \in Nat
    BY <1>4 DEF IInv, RowsInv, TypeOK
  <2> QED BY <1>1, <1>5, <2>1 DEF IInv, LedgerWithinOrder
<1>8. NotStockMeansEmptyLedger'
  <2>1. orderStock' = "not_stock" => \A l \in Lines : buy_qty'[l] = 0
    BY <1>1 DEF StockAfterUndo
  <2> QED BY <1>5, <1>6, <2>1 DEF NotStockMeansEmptyLedger, LedgerWithinBuyQty
<1> QED BY <1>6, <1>7, <1>8 DEF IInv


LEMMA LedgerStep ==
  ASSUME StaleForms = FALSE, IInv, [Next]_vars
  PROVE  IInv'
<1>0. RowsInv /\ RowsInv'
  BY RowsStep DEF IInv
<1> USE <1>0
<1> DEFINE NothingCounted == UNCHANGED <<buy_qty, orderStock, qty, docQty, lineType, lineState>>
<1>a. ASSUME NothingCounted PROVE IInv'
  BY <1>a, LedgerKept DEF InStock
<1>1. CASE OrderDone
  <2>1. CreateWarehousing(docState, buy_qty) /\ UNCHANGED <<buy_qty, orderStock, qty, lineType, lineState>>
    BY <1>1 DEF OrderDone
  <2>2. \A d \in Docs : docState[d] # "none" => docQty'[d] = docQty[d]
    <3>1. docState \in [Docs -> {"none", "draft", "done", "rejection", "cancel"}]
      BY DEF RowsInv, TypeOK
    <3> QED BY <2>1, <3>1, CreateWarehousingRows
  <2>3. InStock' = InStock
    BY <2>1 DEF InStock
  <2>4. \A d \in InStock' : docQty'[d] = docQty[d]
    BY <2>2, <2>3, InStockAre
  <2> QED BY <2>1, <2>3, <2>4, LedgerKept
<1>2. CASE OrderDraft \/ SellApplyDraft
  BY <1>2, UnlinkKept DEF OrderDraft, SellApplyDraft, orderVars
<1>3. CASE OrderCancel
  BY <1>3, <1>a DEF OrderCancel, ledgerVars
<1>4. ASSUME NEW l \in Lines, NEW q \in OrderQuantities[l], EditOrderLine(l, q)
      PROVE  IInv'
  \* The order is a draft, so it has no documents, and nothing in the ledger.
  <2>1. \A d \in Docs : docState[d] = "none"
    BY <1>4 DEF EditOrderLine, Shown, RowsInv, DocumentsNeedOrder
  <2>2. InStock = {}
    BY <2>1, InStockAre
  <2>3. UNCHANGED <<buy_qty, orderStock, docQty, lineType, lineState>>
    BY <1>4 DEF EditOrderLine, ledgerVars
  <2> QED BY <2>2, <2>3, LedgerKept DEF InStock
<1>5. ASSUME NEW d \in Docs, DocDone(d)
      PROVE  IInv'
  BY <1>5, DocDoneStep
<1>6. ASSUME NEW d \in Docs, DocDraft(d)
      PROVE  IInv'
  BY <1>6, DocDraftStep
<1>7. ASSUME NEW d \in Docs, DocRejection(d)
      PROVE  IInv'
  <2>1. /\ UNCHANGED <<buy_qty, orderStock, qty, docQty>>
        /\ lineType' = [lineType EXCEPT ![d] = "rejection"]
        /\ lineState' = [lineState EXCEPT ![d] = "done"]
    BY <1>7 DEF DocRejection, orderVars
  <2>2. InStock' \subseteq InStock
    BY <2>1 DEF InStock, RowsInv, TypeOK
  <2> QED BY <2>1, <2>2, LedgerKept
<1>8. ASSUME NEW d \in Docs, DocReturn(d)
      PROVE  IInv'
  <2>1. PICK n \in Docs : /\ docState[n] = "none"
                          /\ docQty' = [docQty EXCEPT ![n] = docQty[d]]
                          /\ lineType' = [lineType EXCEPT ![n] = "out"]
    BY <1>8 DEF DocReturn
  <2>2. UNCHANGED <<buy_qty, orderStock, qty, lineState>>
    BY <1>8 DEF DocReturn, orderVars
  <2>3. n \notin InStock'
    BY <2>1 DEF InStock, RowsInv, TypeOK
  <2>4. InStock' \subseteq InStock /\ \A e \in InStock' : docQty'[e] = docQty[e]
    BY <2>1, <2>2, <2>3 DEF InStock, RowsInv, TypeOK
  <2> QED BY <2>2, <2>4, LedgerKept
<1>9. ASSUME NEW d \in Docs, ReturnDone(d) \/ ReturnDraft(d)
      PROVE  IInv'
  <2>1. PICK from \in {"draft", "done"}, to \in {"draft", "done"} : SetReturn(d, from, to)
    BY <1>9 DEF ReturnDone, ReturnDraft
  <2>2. /\ UNCHANGED <<buy_qty, orderStock, qty, docQty, lineType>>
        /\ lineState' = [lineState EXCEPT ![d] = to]
        /\ isReturn[d]
    BY <2>1 DEF SetReturn, orderVars, Returns
  <2>3. lineType[d] = "out"
    BY <2>2 DEF RowsInv, LineTypeFollows
  <2>4. InStock' = InStock
    BY <2>2, <2>3 DEF InStock, RowsInv, TypeOK
  <2> QED BY <2>2, <2>4, LedgerKept
<1>10. ASSUME NEW d \in Docs, DocCancel(d)
       PROVE  IInv'
  BY <1>10, <1>a DEF DocCancel, orderVars, ledgerVars
<1>11. ASSUME NEW d \in Docs, DocUnlink(d)
       PROVE  IInv'
  <2>1. {d} \in SUBSET Docs
    OBVIOUS
  <2> QED BY <1>11, <2>1, UnlinkKept DEF DocUnlink, orderVars
<1>12. ASSUME NEW d \in Docs, NEW l \in Lines,
              RemoveDocLine(d, l) \/ \E q \in DocQuantities : EditDocLine(d, l, q)
       PROVE  IInv'
  <2>1. PICK r : docQty' = [docQty EXCEPT ![d] = r]
    BY <1>12 DEF RemoveDocLine, EditDocLine
  <2>2. docState[d] = "draft" /\ UNCHANGED <<buy_qty, orderStock, qty, lineType, lineState>>
    BY <1>12 DEF RemoveDocLine, EditDocLine, Shown, orderVars
  <2>3. d \notin InStock /\ InStock' = InStock
    BY <2>2, InStockAre DEF InStock
  <2>4. \A e \in InStock' : docQty'[e] = docQty[e]
    BY <2>1, <2>3 DEF RowsInv, TypeOK, InStock
  <2> QED BY <2>2, <2>3, <2>4, LedgerKept
<1>13. ASSUME NEW d \in Docs,
              Payment(d) \/ \E i \in DOMAIN pays[d] : PayDone(d, i) \/ PayDraft(d, i) \/ PayCancel(d, i)
       PROVE  IInv'
  BY <1>13, <1>a DEF Payment, PayDone, PayDraft, PayCancel, SetPay, orderVars, ledgerVars
<1>14. CASE UNCHANGED vars
  BY <1>14, <1>a DEF vars, orderVars, ledgerVars
<1> QED
  BY <1>1, <1>2, <1>3, <1>4, <1>5, <1>6, <1>7, <1>8, <1>9, <1>10, <1>11, <1>12, <1>13, <1>14
  DEF Next

LEMMA InitLedger == Init => IInv
<1> SUFFICES ASSUME Init PROVE IInv
  OBVIOUS
<1>1. RowsInv
  BY InitRows
<1>2. InStock = {}
  BY DEF Init, InStock
<1>3. \A l \in Lines : InLedger(l) = 0
  BY <1>2, TotalEmpty DEF InLedger
<1>4. \A l \in Lines : buy_qty[l] = 0 /\ qty[l] \in Nat
  BY <1>1 DEF Init, RowsInv, TypeOK
<1> QED
  BY <1>1, <1>3, <1>4 DEF IInv, LedgerWithinBuyQty, LedgerWithinOrder, NotStockMeansEmptyLedger

\* The ledger never holds more of an order line than the order counts as
\* received, however confirmations, undos, refusals, returns and deletions mix.
THEOREM WithinBuyQty ==
  ASSUME StaleForms = FALSE
  PROVE  Spec => []LedgerWithinBuyQty
<1>1. IInv /\ [Next]_vars => IInv'
  BY LedgerStep
<1>2. IInv => LedgerWithinBuyQty
  BY DEF IInv
<1> QED BY <1>1, <1>2, InitLedger, PTL DEF Spec

\* The ledger never holds more of an order line than was ordered.
THEOREM WithinOrder ==
  ASSUME StaleForms = FALSE
  PROVE  Spec => []LedgerWithinOrder
<1>1. IInv /\ [Next]_vars => IInv'
  BY LedgerStep
<1>2. IInv => LedgerWithinOrder
  BY DEF IInv
<1> QED BY <1>1, <1>2, InitLedger, PTL DEF Spec

\* An order that reads as not received has nothing in the ledger.
THEOREM NotStockIsEmpty ==
  ASSUME StaleForms = FALSE
  PROVE  Spec => []NotStockMeansEmptyLedger
<1>1. IInv /\ [Next]_vars => IInv'
  BY LedgerStep
<1>2. IInv => NotStockMeansEmptyLedger
  BY DEF IInv
<1> QED BY <1>1, <1>2, InitLedger, PTL DEF Spec
=============================================================================
