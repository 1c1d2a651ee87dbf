------------------------- MODULE SellDeliveryProofs -------------------------
(***************************************************************************)
(* Proofs about SellDelivery, for every set of lines, documents, products, *)
(* warehouses and quantities.                                              *)
(***************************************************************************)
EXTENDS SellDelivery, SumsProofs

LEMMA RemainingType ==
  ASSUME NEW shipped \in [Lines -> Int], qty \in [Lines -> Nat]
  PROVE  Remaining(shipped) \in LineMap
<1>1. ASSUME NEW l \in Lines
      PROVE  Remaining(shipped)[l] \in OutLine
  BY <1>1, WarehouseAssumption DEF Remaining, OutLine, NoLine
<1> QED BY <1>1 DEF Remaining, LineMap

LEMMA FollowUpType ==
  ASSUME NEW state \in [Outs -> DocStates], NEW lines \in [Outs -> LineMap],
         NEW shipped \in [Lines -> Int], qty \in [Lines -> Nat],
         FollowUp(state, lines, shipped)
  PROVE  docState' \in [Outs -> DocStates] /\ docLines' \in [Outs -> LineMap]
BY RemainingType DEF FollowUp, DocStates

LEMMA TypeStep == TypeOK /\ [Next]_vars => TypeOK'
<1> SUFFICES ASSUME TypeOK, [Next]_vars PROVE TypeOK'
  OBVIOUS
<1> USE DEF TypeOK, DocStates
<1>1. CASE OrderDone
  BY <1>1 DEF OrderDone, docVars
<1>2. CASE OrderDraft
  BY <1>2 DEF OrderDraft, NoLines, NoLine, LineMap, OutLine
<1>3. CASE OrderCancel
  BY <1>3 DEF OrderCancel, docVars
<1>4. CASE OrderOut
  BY <1>4, FollowUpType DEF OrderOut, orderVars
<1>5. CASE CreateOrderReview
  BY <1>5 DEF CreateOrderReview, docVars
<1>6. ASSUME NEW l \in Lines, NEW q \in OrderQuantities[l], EditOrderLine(l, q)
      PROVE  TypeOK'
  BY <1>6, QuantitiesAssumption DEF EditOrderLine, docVars
<1>7. ASSUME NEW r \in Reviews, ReviewDone(r) \/ ReviewDraft(r) \/ ReviewCancel(r)
      PROVE  TypeOK'
  BY <1>7 DEF ReviewDone, ReviewDraft, ReviewCancel, SetReview, orderVars, docVars
<1>8. ASSUME NEW d \in Outs, OutDone(d)
      PROVE  TypeOK'
  <2>1. Confirmed(d) \in [Lines -> Int]
    BY DEF Confirmed, LineMap, OutLine
  <2>2. [docState EXCEPT ![d] = "done"] \in [Outs -> DocStates]
    OBVIOUS
  <2>3. FollowUp([docState EXCEPT ![d] = "done"], docLines, Confirmed(d))
    BY <1>8 DEF OutDone
  <2>4. docState' \in [Outs -> DocStates] /\ docLines' \in [Outs -> LineMap]
    BY <2>1, <2>2, <2>3, FollowUpType
  <2>5. moves' \in [Outs -> Seq(LineMap)]
    BY <1>8 DEF OutDone
  <2>6. recs' \in [Outs -> Seq({"draft", "done", "cancel"})]
    BY <1>8 DEF OutDone
  <2> QED BY <1>8, <2>1, <2>4, <2>5, <2>6 DEF OutDone
<1>9. ASSUME NEW d \in Outs, OutDraft(d)
      PROVE  TypeOK'
  <2>1. out_qty' \in [Lines -> Int]
    BY <1>9 DEF OutDraft, Undone, LineMap, OutLine
  <2>2. outState' \in {"draft", "part", "done"}
    BY <1>9 DEF OutDraft
  <2>3. docLines' \in [Outs -> LineMap]
    BY <1>9 DEF OutDraft, NoLines, NoLine, LineMap, OutLine
  <2> QED BY <1>9, <2>1, <2>2, <2>3 DEF OutDraft
<1>10. ASSUME NEW d \in Outs, OutCancel(d)
       PROVE  TypeOK'
  BY <1>10 DEF OutCancel, orderVars
<1>11. ASSUME NEW d \in Outs, NEW l \in Lines, NEW w \in Places,
              NEW q \in OutQuantities \cup {docLines[d][l].qty},
              EditOutLine(d, l, q, w)
       PROVE  TypeOK'
  <2>1. q \in Nat
    BY QuantitiesAssumption DEF LineMap, OutLine
  <2>2. docLines' \in [Outs -> LineMap]
    BY <1>11, <2>1 DEF EditOutLine, LineMap, OutLine
  <2> QED BY <1>11, <2>2 DEF EditOutLine, orderVars
<1>12. ASSUME NEW d \in Outs, NEW l \in Lines, RemoveOutLine(d, l)
       PROVE  TypeOK'
  <2>1. docLines' \in [Outs -> LineMap]
    BY <1>12 DEF RemoveOutLine, NoLine, LineMap, OutLine
  <2> QED BY <1>12, <2>1 DEF RemoveOutLine, orderVars
<1>13. ASSUME NEW d \in Outs, NEW i \in DOMAIN recs[d],
              RecDone(d, i) \/ RecDraft(d, i) \/ RecCancel(d, i)
       PROVE  TypeOK'
  <2>1. \A to \in {"draft", "done", "cancel"} :
          [recs[d] EXCEPT ![i] = to] \in Seq({"draft", "done", "cancel"})
    OBVIOUS
  <2> QED BY <1>13, <2>1 DEF RecDone, RecDraft, RecCancel, SetRec, orderVars
<1>14. ASSUME NEW g \in Goods, NEW w \in Checked, NEW q \in Receipts, Receive(g, w, q)
       PROVE  TypeOK'
  BY <1>14, QuantitiesAssumption DEF Receive, orderVars, docVars
<1>15. CASE UNCHANGED vars
  BY <1>15 DEF vars, orderVars, docVars
<1>16. \A d \in Outs : Present(docLines[d]) \subseteq Lines
  BY DEF Present
<1> HIDE DEF TypeOK, DocStates
<1> QED
  BY <1>16, <1>1, <1>2, <1>3, <1>4, <1>5, <1>6, <1>7, <1>8, <1>9, <1>10, <1>11, <1>12,
     <1>13, <1>14, <1>15
  DEF Next

\* Every variable keeps its type, whether or not stale forms are in use.
THEOREM TypeCorrect == Spec => []TypeOK
<1>1. Init => TypeOK
  BY QuantitiesAssumption DEF Init, TypeOK, DocStates, LineMap, NoLines, NoLine, OutLine
<1> QED BY <1>1, TypeStep, PTL DEF Spec

-----------------------------------------------------------------------------
(* Counting the delivered units. *)

LEMMA UnitsGain ==
  ASSUME NEW S, IsFiniteSet(S), NEW d, NEW n \in Nat, S \cap ({d} \X (1..n)) = {}
  PROVE  /\ IsFiniteSet(S \cup ({d} \X (1..n)))
         /\ Cardinality(S \cup ({d} \X (1..n))) = Cardinality(S) + n
<1> DEFINE B == {d} \X (1..n)
<1>1. IsFiniteSet(B) /\ Cardinality(B) = n
  BY BlockCardinality
<1>2. Cardinality(S \cap B) = 0
  BY FS_EmptySet
<1>3. Cardinality(S) \in Nat
  BY FS_CardinalityType
<1> HIDE DEF B
<1>4. /\ IsFiniteSet(S \cup B)
      /\ Cardinality(S \cup B) = Cardinality(S) + Cardinality(B) - Cardinality(S \cap B)
  BY <1>1, FS_Union
<1>5. Cardinality(S \cup B) = Cardinality(S) + n
  BY <1>1, <1>2, <1>3, <1>4
<1> QED BY <1>4, <1>5 DEF B

LEMMA UnitsLoss ==
  ASSUME NEW S, IsFiniteSet(S), NEW d, NEW n \in Nat, ({d} \X (1..n)) \subseteq S
  PROVE  /\ IsFiniteSet(S \ ({d} \X (1..n)))
         /\ Cardinality(S \ ({d} \X (1..n))) = Cardinality(S) - n
<1> DEFINE B == {d} \X (1..n)
<1>1. Cardinality(B) = n
  BY BlockCardinality
<1>2. S \cap B = B
  OBVIOUS
<1> HIDE DEF B
<1>3. IsFiniteSet(S \ B) /\ Cardinality(S \ B) = Cardinality(S) - n
  BY <1>1, <1>2, FS_Difference
<1> QED BY <1>3 DEF B

-----------------------------------------------------------------------------
(* The inductive invariant: what the properties say, and the two facts that *)
(* carry them from step to step.                                           *)

DeliveredFinite == \A l \in Lines : IsFiniteSet(DeliveredUnits(l))
NothingDoneNothingOut == DoneDocs = {} => outState = "draft"

IInv ==
  /\ TypeOK
  /\ OutQtyIsDelivered
  /\ LedgerMatchesDocuments
  /\ NeverOverDelivered
  /\ DraftOrderIsUndelivered
  /\ DeliveredFinite
  /\ NothingDoneNothingOut

LEMMA InitIInv == Init => IInv
<1> SUFFICES ASSUME Init PROVE IInv
  OBVIOUS
<1>1. TypeOK
  BY QuantitiesAssumption DEF Init, TypeOK, DocStates, LineMap, NoLines, NoLine, OutLine
<1>2. DoneDocs = {}
  BY DEF Init, DoneDocs
<1>3. \A l \in Lines : DeliveredUnits(l) = {}
  BY <1>2 DEF DeliveredUnits
<1>4. OutQtyIsDelivered /\ DeliveredFinite
  BY <1>3, FS_EmptySet DEF OutQtyIsDelivered, DeliveredFinite, Init
<1>5. NeverOverDelivered
  BY <1>1 DEF Init, NeverOverDelivered, TypeOK
<1> QED
  BY <1>1, <1>4, <1>5
  DEF Init, IInv, LedgerMatchesDocuments, DraftOrderIsUndelivered,
      NothingDoneNothingOut

\* A step that neither confirms nor undoes a delivery, and leaves the lines of
\* the confirmed ones and the delivered quantities alone, keeps the count.
LEMMA SameDelivered ==
  ASSUME OutQtyIsDelivered, DeliveredFinite, DoneDocs' = DoneDocs, out_qty' = out_qty,
         \A d \in DoneDocs : docLines'[d] = docLines[d]
  PROVE  OutQtyIsDelivered' /\ DeliveredFinite'
<1>1. ASSUME NEW l \in Lines PROVE DeliveredUnits(l)' = DeliveredUnits(l)
  BY DEF DeliveredUnits
<1> QED BY <1>1 DEF OutQtyIsDelivered, DeliveredFinite

\* What an action keeps when it touches neither the documents nor the order's
\* delivery: everything but the link between the order and its documents.
LEMMA DocumentsKept ==
  ASSUME IInv, out_qty' = out_qty, outState' = outState, docState' = docState,
         docLines' = docLines, moves' = moves, \A d \in Outs : Len(recs'[d]) = Len(recs[d]),
         \A d \in Outs : recs[d] = <<>> => recs'[d] = <<>>
  PROVE  OutQtyIsDelivered' /\ LedgerMatchesDocuments' /\ DeliveredFinite' /\ NothingDoneNothingOut'
<1>1. DoneDocs' = DoneDocs
  BY DEF DoneDocs
<1>2. OutQtyIsDelivered' /\ DeliveredFinite'
  BY <1>1, SameDelivered DEF IInv
<1> QED BY <1>1, <1>2 DEF IInv, LedgerMatchesDocuments, NothingDoneNothingOut

LEMMA OrderStep ==
  ASSUME StaleForms = FALSE, IInv, TypeOK',
         \/ OrderDone \/ OrderDraft \/ OrderCancel \/ OrderOut \/ CreateOrderReview
         \/ \E l \in Lines : \E q \in OrderQuantities[l] : EditOrderLine(l, q)
  PROVE  IInv'
<1> USE DEF Shown
<1>1. CASE OrderDone
  BY <1>1, DocumentsKept
  DEF OrderDone, IInv, docVars, NeverOverDelivered, DraftOrderIsUndelivered
<1>2. CASE OrderDraft
  <2>1. DoneDocs = {} /\ DoneDocs' = {}
    BY <1>2 DEF OrderDraft, NothingDelivered, DoneDocs
  <2>2. \A l \in Lines : DeliveredUnits(l) = {} /\ DeliveredUnits(l)' = {}
    BY <2>1 DEF DeliveredUnits
  <2>3. \A l \in Lines : out_qty[l] = 0
    BY <2>2, FS_EmptySet DEF IInv, OutQtyIsDelivered
  <2>4. out_qty' = out_qty /\ outState' = "draft"
    BY <1>2, <2>1 DEF OrderDraft, IInv, NothingDoneNothingOut
  <2>5. OutQtyIsDelivered' /\ DeliveredFinite'
    BY <2>2, <2>3, <2>4, FS_EmptySet DEF OutQtyIsDelivered, DeliveredFinite
  <2>6. LedgerMatchesDocuments'
    BY <1>2 DEF OrderDraft, LedgerMatchesDocuments
  <2>7. NeverOverDelivered'
    BY <1>2, <2>4 DEF OrderDraft, IInv, NeverOverDelivered
  <2>8. DraftOrderIsUndelivered' /\ NothingDoneNothingOut'
    BY <1>2, <2>3, <2>4 DEF OrderDraft, DraftOrderIsUndelivered, NothingDoneNothingOut
  <2> QED BY <2>5, <2>6, <2>7, <2>8 DEF IInv
<1>3. CASE OrderCancel
  BY <1>3, DocumentsKept
  DEF OrderCancel, IInv, docVars, NeverOverDelivered, DraftOrderIsUndelivered
<1>4. CASE OrderOut
  <2>1. FollowUp(docState, docLines, out_qty)
    BY <1>4 DEF OrderOut
  <2>2. /\ DoneDocs' = DoneDocs
        /\ \A d \in DoneDocs : docLines'[d] = docLines[d]
        /\ \A d \in Outs : docState'[d] = "done" <=> docState[d] = "done"
    BY <2>1 DEF FollowUp, DoneDocs, IInv, TypeOK
  <2>3. OutQtyIsDelivered' /\ DeliveredFinite'
    BY <1>4, <2>2, SameDelivered DEF OrderOut, orderVars, IInv
  <2>4. LedgerMatchesDocuments'
    BY <1>4, <2>2 DEF OrderOut, LedgerMatchesDocuments, IInv, DoneDocs
  <2> QED
    BY <1>4, <2>2, <2>3, <2>4
    DEF OrderOut, orderVars, IInv, NeverOverDelivered, DraftOrderIsUndelivered,
        NothingDoneNothingOut
<1>5. CASE CreateOrderReview
  BY <1>5, DocumentsKept
  DEF CreateOrderReview, IInv, docVars, NeverOverDelivered, DraftOrderIsUndelivered
<1>6. ASSUME NEW l \in Lines, NEW q \in OrderQuantities[l], EditOrderLine(l, q)
      PROVE  IInv'
  <2>1. NeverOverDelivered'
    BY <1>6 DEF EditOrderLine, IInv, TypeOK, NeverOverDelivered, DraftOrderIsUndelivered
  <2> QED
    BY <1>6, <2>1, DocumentsKept DEF EditOrderLine, IInv, docVars, DraftOrderIsUndelivered
<1> QED BY <1>1, <1>2, <1>3, <1>4, <1>5, <1>6

\* Confirming a delivery adds its units, within what was ordered.
LEMMA OutDoneStep ==
  ASSUME StaleForms = FALSE, IInv, TypeOK', NEW d \in Outs, OutDone(d)
  PROVE  IInv'
<1> DEFINE n(l) == docLines[d][l].qty
<1>1. /\ docState[d] = "draft" /\ orderState \notin {"draft", "cancel"} /\ orderState' = orderState
      /\ out_qty' = Confirmed(d) /\ qty' = qty
      /\ moves' = [moves EXCEPT ![d] = Append(@, docLines[d])]
      /\ recs' = [recs EXCEPT ![d] = Append(@, "draft")]
  BY DEF OutDone, Shown, IInv, DraftOrderIsUndelivered
<1>2. FollowUp([docState EXCEPT ![d] = "done"], docLines, Confirmed(d))
  BY DEF OutDone
<1>3. /\ DoneDocs' = DoneDocs \cup {d} /\ d \notin DoneDocs
      /\ \A e \in DoneDocs' : docLines'[e] = docLines[e]
      /\ \A e \in Outs : docState'[e] = "done" <=> (docState[e] = "done" \/ e = d)
  BY <1>1, <1>2 DEF FollowUp, DoneDocs, IInv, TypeOK
<1>4. \A l \in Lines : n(l) \in Nat
  BY DEF IInv, TypeOK, LineMap, OutLine
<1>5. ASSUME NEW l \in Lines
      PROVE  /\ IsFiniteSet(DeliveredUnits(l)')
             /\ Cardinality(DeliveredUnits(l)') = Cardinality(DeliveredUnits(l)) + n(l)
  <2>1. DeliveredUnits(l)' = UNION {{e} \X (1..docLines[e][l].qty) : e \in DoneDocs \cup {d}}
    BY <1>3 DEF DeliveredUnits
  <2>2. DeliveredUnits(l)' = DeliveredUnits(l) \cup ({d} \X (1..n(l)))
    BY <2>1 DEF DeliveredUnits
  <2>3. DeliveredUnits(l) \cap ({d} \X (1..n(l))) = {}
    BY <1>3 DEF DeliveredUnits
  <2>4. IsFiniteSet(DeliveredUnits(l))
    BY DEF IInv, DeliveredFinite
  <2>5. n(l) \in Nat
    BY <1>4
  <2> DEFINE S == DeliveredUnits(l)
             k == n(l)
  <2> HIDE DEF S, k
  <2>6. /\ IsFiniteSet(S \cup ({d} \X (1..k)))
        /\ Cardinality(S \cup ({d} \X (1..k))) = Cardinality(S) + k
    <3>1. IsFiniteSet(S) /\ k \in Nat /\ S \cap ({d} \X (1..k)) = {}
      BY <2>3, <2>4, <2>5 DEF S, k
    <3> QED BY <3>1, UnitsGain
  <2> QED BY <2>2, <2>6 DEF S, k
<1>6. OutQtyIsDelivered' /\ DeliveredFinite'
  <2>1. ASSUME NEW l \in Lines PROVE out_qty'[l] = Cardinality(DeliveredUnits(l)')
    <3>1. out_qty'[l] = out_qty[l] + n(l)
      BY <1>1 DEF Confirmed
    <3> QED BY <1>5, <3>1 DEF IInv, OutQtyIsDelivered
  <2> QED BY <1>5, <2>1 DEF OutQtyIsDelivered, DeliveredFinite
<1>7. LedgerMatchesDocuments'
  <2>1. moves[d] = <<>> /\ recs[d] = <<>>
    BY <1>1 DEF IInv, LedgerMatchesDocuments
  <2>2. moves'[d] = <<docLines'[d]>> /\ Len(recs'[d]) = 1
    BY <1>1, <1>3, <2>1 DEF IInv, TypeOK, DoneDocs
  <2>3. ASSUME NEW e \in Outs, e # d
        PROVE  /\ moves'[e] = moves[e] /\ recs'[e] = recs[e]
               /\ docState[e] = "done" => docLines'[e] = docLines[e]
    BY <1>1, <1>3, <2>3 DEF IInv, TypeOK, DoneDocs
  <2> QED BY <1>1, <1>3, <2>2, <2>3 DEF IInv, LedgerMatchesDocuments
<1>8. NeverOverDelivered'
  <2>1. ASSUME NEW l \in Lines
        PROVE  0 <= out_qty'[l] /\ out_qty'[l] <= qty'[l]
    <3>1. out_qty'[l] = out_qty[l] + n(l)
      BY <1>1 DEF Confirmed
    <3>2. out_qty[l] \in Int /\ qty[l] \in Nat /\ 0 <= out_qty[l] /\ out_qty[l] <= qty[l]
      BY DEF IInv, TypeOK, NeverOverDelivered
    <3>3. CASE l \in Present(docLines[d])
      <4>1. n(l) + out_qty[l] <= qty[l]
        BY <3>3 DEF OutDone, CanShip
      <4> QED BY <1>1, <1>4, <3>1, <3>2, <4>1
    <3>4. CASE l \notin Present(docLines[d])
      <4>1. n(l) = 0
        BY <3>4 DEF Present, NoLine
      <4> QED BY <1>1, <3>1, <3>2, <4>1
    <3> QED BY <3>3, <3>4
  <2> QED BY <2>1 DEF NeverOverDelivered
<1> QED
  BY <1>1, <1>3, <1>6, <1>7, <1>8 DEF IInv, DraftOrderIsUndelivered, NothingDoneNothingOut

\* Undoing a delivery takes exactly its units back.
LEMMA OutDraftStep ==
  ASSUME StaleForms = FALSE, IInv, TypeOK', NEW d \in Outs, OutDraft(d)
  PROVE  IInv'
<1> DEFINE n(l) == docLines[d][l].qty
           drafts == {e \in Outs : docState[e] = "draft"}
<1>1. /\ docState[d] = "done" /\ orderState \notin {"draft", "cancel"} /\ orderState' = orderState
      /\ out_qty' = Undone(d) /\ qty' = qty
  BY DEF OutDraft, Shown, IInv, DraftOrderIsUndelivered
<1>2. /\ DoneDocs' = DoneDocs \ {d} /\ d \in DoneDocs
      /\ \A e \in DoneDocs : docLines'[e] = docLines[e]
      /\ \A e \in Outs : docState'[e] = "done" <=> (docState[e] = "done" /\ e # d)
  BY <1>1 DEF OutDraft, DoneDocs, IInv, TypeOK
<1>3. \A l \in Lines : n(l) \in Nat
  BY DEF IInv, TypeOK, LineMap, OutLine
<1>4. ASSUME NEW l \in Lines
      PROVE  /\ IsFiniteSet(DeliveredUnits(l)')
             /\ Cardinality(DeliveredUnits(l)') = Cardinality(DeliveredUnits(l)) - n(l)
             /\ Cardinality(DeliveredUnits(l)') \in Nat
  <2>1. DeliveredUnits(l)' = UNION {{e} \X (1..docLines[e][l].qty) : e \in DoneDocs \ {d}}
    BY <1>2 DEF DeliveredUnits
  <2>2. DeliveredUnits(l)' = DeliveredUnits(l) \ ({d} \X (1..n(l)))
    BY <2>1 DEF DeliveredUnits
  <2>3. ({d} \X (1..n(l))) \subseteq DeliveredUnits(l)
    BY <1>2 DEF DeliveredUnits
  <2>4. IsFiniteSet(DeliveredUnits(l))
    BY DEF IInv, DeliveredFinite
  <2>5. /\ IsFiniteSet(DeliveredUnits(l)')
        /\ Cardinality(DeliveredUnits(l)') = Cardinality(DeliveredUnits(l)) - n(l)
    <3>1. n(l) \in Nat
      BY <1>3
    <3> DEFINE S == DeliveredUnits(l)
               k == n(l)
    <3> HIDE DEF S, k
    <3>2. IsFiniteSet(S) /\ k \in Nat /\ ({d} \X (1..k)) \subseteq S
      BY <2>3, <2>4, <3>1 DEF S, k
    <3>3. /\ IsFiniteSet(S \ ({d} \X (1..k)))
          /\ Cardinality(S \ ({d} \X (1..k))) = Cardinality(S) - k
      BY <3>2, UnitsLoss
    <3> QED BY <2>2, <3>3 DEF S, k
  <2> QED BY <2>5, FS_CardinalityType
<1>5. \A l \in Lines : out_qty'[l] = out_qty[l] - n(l)
  BY <1>1 DEF Undone
<1>6. \A l \in Lines : out_qty'[l] = Cardinality(DeliveredUnits(l)')
  BY <1>4, <1>5 DEF IInv, OutQtyIsDelivered
<1>7. OutQtyIsDelivered' /\ DeliveredFinite'
  BY <1>4, <1>6 DEF OutQtyIsDelivered, DeliveredFinite
<1>8. LedgerMatchesDocuments'
  <2>1. ASSUME NEW e \in Outs, docState'[e] = "done"
        PROVE  moves'[e] = moves[e] /\ recs'[e] = recs[e] /\ docLines'[e] = docLines[e]
    BY <1>2, <2>1 DEF OutDraft, DoneDocs
  <2>2. ASSUME NEW e \in Outs, docState'[e] # "done"
        PROVE  moves'[e] = <<>> /\ recs'[e] = <<>>
    BY <1>2, <2>2 DEF OutDraft, IInv, LedgerMatchesDocuments
  <2> QED BY <1>2, <2>1, <2>2 DEF IInv, LedgerMatchesDocuments
<1>9. NeverOverDelivered'
  <2>1. ASSUME NEW l \in Lines
        PROVE  0 <= out_qty'[l] /\ out_qty'[l] <= qty'[l]
    <3>1. out_qty'[l] \in Nat
      BY <1>4, <1>6
    <3>2. out_qty[l] \in Int /\ qty[l] \in Nat /\ out_qty[l] <= qty[l]
      BY DEF IInv, TypeOK, NeverOverDelivered
    <3> QED BY <1>1, <1>3, <1>5, <3>1, <3>2
  <2> QED BY <2>1 DEF NeverOverDelivered
<1>10. NothingDoneNothingOut'
  <2> SUFFICES ASSUME DoneDocs' = {} PROVE outState' = "draft"
    BY DEF NothingDoneNothingOut
  <2>1. \A l \in Lines : DeliveredUnits(l)' = {}
    BY DEF DeliveredUnits
  <2>2. \A l \in Lines : Undone(d)[l] = 0
    BY <1>1, <1>6, <2>1, FS_EmptySet
  <2> QED BY <2>2 DEF OutDraft, Present
<1> QED BY <1>1, <1>7, <1>8, <1>9, <1>10 DEF IInv, DraftOrderIsUndelivered

\* Cancelling or editing a draft delivery leaves the confirmed ones alone.
LEMMA DraftStep ==
  ASSUME StaleForms = FALSE, IInv, TypeOK', NEW d \in Outs,
         \/ OutCancel(d)
         \/ \E l \in Lines, w \in Places :
              \E q \in OutQuantities \cup {docLines[d][l].qty} : EditOutLine(d, l, q, w)
         \/ \E l \in Lines : RemoveOutLine(d, l)
  PROVE  IInv'
<1>1. /\ docState[d] = "draft"
      /\ UNCHANGED <<orderVars, reviews, moves, recs, received>>
  BY DEF OutCancel, EditOutLine, RemoveOutLine, Shown
<1>2. /\ \A e \in Outs : docState'[e] = "done" <=> docState[e] = "done"
      /\ \A e \in Outs : docState[e] = "done" => docLines'[e] = docLines[e]
  BY <1>1 DEF OutCancel, EditOutLine, RemoveOutLine, IInv, TypeOK
<1>3. DoneDocs' = DoneDocs /\ \A e \in DoneDocs : docLines'[e] = docLines[e]
  BY <1>2 DEF DoneDocs
<1>4. OutQtyIsDelivered' /\ DeliveredFinite'
  BY <1>1, <1>3, SameDelivered DEF orderVars, IInv
<1>5. LedgerMatchesDocuments'
  BY <1>1, <1>2 DEF LedgerMatchesDocuments, IInv
<1>6. orderState \notin {"draft", "cancel"}
  BY <1>1 DEF IInv, DraftOrderIsUndelivered
<1> QED
  BY <1>1, <1>3, <1>4, <1>5, <1>6
  DEF orderVars, IInv, NeverOverDelivered, DraftOrderIsUndelivered, NothingDoneNothingOut

LEMMA StepIInv ==
  ASSUME StaleForms = FALSE, IInv, [Next]_vars
  PROVE  IInv'
<1>1. TypeOK'
  BY TypeStep DEF IInv
<1>2. CASE \/ OrderDone \/ OrderDraft \/ OrderCancel \/ OrderOut \/ CreateOrderReview
           \/ \E l \in Lines : \E q \in OrderQuantities[l] : EditOrderLine(l, q)
  BY <1>1, <1>2, OrderStep
<1>3. ASSUME NEW r \in Reviews, ReviewDone(r) \/ ReviewDraft(r) \/ ReviewCancel(r)
      PROVE  IInv'
  BY <1>1, <1>3, DocumentsKept
  DEF ReviewDone, ReviewDraft, ReviewCancel, SetReview, orderVars, docVars, IInv,
      NeverOverDelivered, DraftOrderIsUndelivered
<1>4. ASSUME NEW d \in Outs, OutDone(d)
      PROVE  IInv'
  BY <1>1, <1>4, OutDoneStep
<1>5. ASSUME NEW d \in Outs, OutDraft(d)
      PROVE  IInv'
  BY <1>1, <1>5, OutDraftStep
<1>6. ASSUME NEW d \in Outs,
             \/ OutCancel(d)
             \/ \E l \in Lines, w \in Places :
                  \E q \in OutQuantities \cup {docLines[d][l].qty} : EditOutLine(d, l, q, w)
             \/ \E l \in Lines : RemoveOutLine(d, l)
      PROVE  IInv'
  BY <1>1, <1>6, DraftStep
<1>7. ASSUME NEW d \in Outs, NEW i \in DOMAIN recs[d],
             RecDone(d, i) \/ RecDraft(d, i) \/ RecCancel(d, i)
      PROVE  IInv'
  <2>1. /\ \A e \in Outs : DOMAIN recs'[e] = DOMAIN recs[e]
        /\ UNCHANGED <<orderVars, docState, docLines, moves>>
    BY <1>7 DEF RecDone, RecDraft, RecCancel, SetRec, IInv, TypeOK
  <2>2. \A e \in Outs : Len(recs'[e]) = Len(recs[e]) /\ (recs[e] = <<>> => recs'[e] = <<>>)
    BY <1>1, <2>1 DEF IInv, TypeOK
  <2> QED
    BY <1>1, <2>1, <2>2, DocumentsKept
    DEF orderVars, IInv, NeverOverDelivered, DraftOrderIsUndelivered
<1>8. ASSUME NEW g \in Goods, NEW w \in Checked, NEW q \in Receipts, Receive(g, w, q)
      PROVE  IInv'
  BY <1>1, <1>8, DocumentsKept
  DEF Receive, orderVars, docVars, IInv, NeverOverDelivered, DraftOrderIsUndelivered
<1>9. CASE UNCHANGED vars
  BY <1>1, <1>9, DocumentsKept
  DEF vars, orderVars, docVars, IInv, NeverOverDelivered, DraftOrderIsUndelivered
<1>10. \A d \in Outs : Present(docLines[d]) \subseteq Lines
  BY DEF Present
<1> HIDE DEF IInv
<1> QED
  BY <1>2, <1>3, <1>4, <1>5, <1>6, <1>7, <1>8, <1>9, <1>10 DEF Next


\* The inductive invariant, from which the theorems below are read off.
LEMMA Inductive ==
  ASSUME StaleForms = FALSE
  PROVE  Spec => []IInv
<1>1. Init => IInv
  BY InitIInv
<1>2. IInv /\ [Next]_vars => IInv'
  BY StepIInv
<1> QED BY <1>1, <1>2, PTL DEF Spec

\* As long as every form shows the present state of its row, out_qty is what
\* the confirmed deliveries carry: button_done and button_draft of a delivery,
\* and the deletions button_draft makes, keep the count exact.
THEOREM DeliveredQuantityExact ==
  ASSUME StaleForms = FALSE
  PROVE  Spec => []OutQtyIsDelivered
<1>1. IInv => OutQtyIsDelivered
  BY DEF IInv
<1> QED BY <1>1, Inductive, PTL

\* Under the same assumption a delivery is confirmed exactly when it has its
\* one stock move, with its present lines, and its one statement of account.
THEOREM LedgerExact ==
  ASSUME StaleForms = FALSE
  PROVE  Spec => []LedgerMatchesDocuments
<1>1. IInv => LedgerMatchesDocuments
  BY DEF IInv
<1> QED BY <1>1, Inductive, PTL

\* Under the same assumption no order line is ever delivered beyond what was
\* ordered, nor below zero, although the order can be undone and edited.
THEOREM DeliveryWithinOrder ==
  ASSUME StaleForms = FALSE
  PROVE  Spec => []NeverOverDelivered
<1>1. IInv => NeverOverDelivered
  BY DEF IInv
<1> QED BY <1>1, Inductive, PTL

\* Under the same assumption an order in draft, or cancelled, has no delivery,
\* nothing delivered and a delivery state that says so.
THEOREM DraftUndelivered ==
  ASSUME StaleForms = FALSE
  PROVE  Spec => []DraftOrderIsUndelivered
<1>1. IInv => DraftOrderIsUndelivered
  BY DEF IInv
<1> QED BY <1>1, Inductive, PTL

\* A delivery with a confirmed statement of account is a done one, so no
\* button but its own undo could touch it, and that one refuses.
LEMMA StatementStep ==
  ASSUME StaleForms = FALSE, IInv, [Next]_vars,
         NEW d \in Outs, NEW i \in DOMAIN recs[d], recs[d][i] = "done"
  PROVE  /\ docState'[d] = docState[d] /\ docLines'[d] = docLines[d]
         /\ moves'[d] = moves[d] /\ Len(recs'[d]) = Len(recs[d])
<1> DEFINE Kept == /\ docState'[d] = docState[d] /\ docLines'[d] = docLines[d]
                   /\ moves'[d] = moves[d] /\ Len(recs'[d]) = Len(recs[d])
<1> USE DEF Shown
<1>1. docState[d] = "done" /\ orderState \notin {"draft", "cancel"}
  BY DEF IInv, LedgerMatchesDocuments, DraftOrderIsUndelivered
<1>2. ASSUME \/ OrderDone \/ OrderCancel \/ CreateOrderReview
             \/ \E l \in Lines : \E q \in OrderQuantities[l] : EditOrderLine(l, q)
             \/ \E r \in Reviews : ReviewDone(r) \/ ReviewDraft(r) \/ ReviewCancel(r)
             \/ \E g \in Goods, w \in Checked, q \in Receipts : Receive(g, w, q)
             \/ UNCHANGED vars
      PROVE  Kept
  BY <1>2
  DEF OrderDone, OrderCancel, CreateOrderReview, EditOrderLine, ReviewDone, ReviewDraft,
      ReviewCancel, SetReview, Receive, vars, docVars
<1>3. ASSUME OrderDraft PROVE Kept
  BY <1>1, <1>3 DEF OrderDraft, NothingDelivered
<1>4. ASSUME OrderOut PROVE Kept
  BY <1>1, <1>4 DEF OrderOut, FollowUp, IInv, TypeOK
<1>5. ASSUME NEW e \in Outs, OutDone(e) PROVE Kept
  <2>1. e # d
    BY <1>1, <1>5 DEF OutDone
  <2>2. FollowUp([docState EXCEPT ![e] = "done"], docLines, Confirmed(e))
    BY <1>5 DEF OutDone
  <2> QED BY <1>1, <1>5, <2>1, <2>2 DEF OutDone, FollowUp, IInv, TypeOK
<1>6. ASSUME NEW e \in Outs, OutDraft(e) PROVE Kept
  <2>1. e # d
    BY <1>6 DEF OutDraft, StatementOpen
  <2> QED BY <1>1, <1>6, <2>1 DEF OutDraft
<1>7. ASSUME NEW e \in Outs,
             \/ OutCancel(e)
             \/ \E l \in Lines, w \in Places :
                  \E q \in OutQuantities \cup {docLines[e][l].qty} : EditOutLine(e, l, q, w)
             \/ \E l \in Lines : RemoveOutLine(e, l)
      PROVE  Kept
  BY <1>1, <1>7 DEF OutCancel, EditOutLine, RemoveOutLine, IInv, TypeOK
<1>8. ASSUME NEW e \in Outs, NEW j \in DOMAIN recs[e],
             RecDone(e, j) \/ RecDraft(e, j) \/ RecCancel(e, j)
      PROVE  Kept
  <2>1. DOMAIN recs'[d] = DOMAIN recs[d] /\ UNCHANGED <<docState, docLines, moves>>
    BY <1>8 DEF RecDone, RecDraft, RecCancel, SetRec, IInv, TypeOK
  <2>2. recs'[d] \in Seq({"draft", "done", "cancel"}) /\ recs[d] \in Seq({"draft", "done", "cancel"})
    BY TypeStep DEF IInv, TypeOK
  <2> QED BY <2>1, <2>2
<1>9. \A e \in Outs : Present(docLines[e]) \subseteq Lines
  BY DEF Present
<1>10. ASSUME Next PROVE Kept
  <2> HIDE DEF Kept, Shown
  <2> QED BY <1>2, <1>3, <1>4, <1>5, <1>6, <1>7, <1>8, <1>9, <1>10 DEF Next
<1> QED BY <1>2, <1>10

\* Under the same assumption a delivery whose statement of account is
\* confirmed keeps its state, lines, move and statement at every step.
THEOREM StatementKeepsDelivery ==
  ASSUME StaleForms = FALSE
  PROVE  Spec => ConfirmedStatementKeepsDelivery
<1> DEFINE Kept(d) == /\ docState'[d] = docState[d] /\ docLines'[d] = docLines[d]
                      /\ moves'[d] = moves[d] /\ Len(recs'[d]) = Len(recs[d])
           Step == \A d \in Outs : (\E i \in DOMAIN recs[d] : recs[d][i] = "done") => Kept(d)
<1>1. IInv /\ [Next]_vars => [Step]_vars
  BY StatementStep
<1> QED BY <1>1, Inductive, PTL DEF Spec, ConfirmedStatementKeepsDelivery

-----------------------------------------------------------------------------
(* The stock that deliveries leave. *)

DistinctGoods == \A k, l \in Lines : k # l => GoodsOf[k] # GoodsOf[l]

\* Copies as LedgerMatchesDocuments has them: those in C one, of their lines.
Copied(copies, C, carried) ==
  /\ C \in SUBSET Outs /\ carried \in [Outs -> LineMap]
  /\ \A d \in Outs : copies[d] = IF d \in C THEN <<carried[d]>> ELSE <<>>

\* The ledger of a product in a warehouse then has one row for each of them.
LEMMA TakenLedger ==
  ASSUME NEW copies, NEW C, NEW carried, Copied(copies, C, carried), NEW g, NEW w
  PROVE  Ledger(TakenBy(copies, g, w), C, [d \in C |-> Taken(carried[d], g, w)])
<1> USE DEF Copied
<1>1. \A x : DOMAIN <<x>> = {1} /\ <<x>>[1] = x
  OBVIOUS
<1>2. DOMAIN << >> = {}
  OBVIOUS
<1>3. ASSUME NEW d \in C
      PROVE  /\ DOMAIN TakenBy(copies, g, w)[d] = {1}
             /\ TakenBy(copies, g, w)[d][1] = Taken(carried[d], g, w)
  BY <1>1 DEF TakenBy
<1>4. ASSUME NEW d \in Outs \ C
      PROVE  DOMAIN TakenBy(copies, g, w)[d] = {}
  BY <1>2 DEF TakenBy
<1>5. ASSUME NEW d \in C
      PROVE  Taken(carried[d], g, w) \in Nat
  <2> DEFINE f == [l \in {k \in Lines : GoodsOf[k] = g /\ carried[d][k].place = w}
                     |-> carried[d][l].qty]
  <2>1. DOMAIN f \subseteq Lines /\ \A l \in DOMAIN f : f[l] \in Nat
    BY DEF LineMap, OutLine
  <2>2. Summable(f)
    BY <2>1, LinesAssumption, FS_Subset DEF Summable
  <2> HIDE DEF f
  <2>3. Total(f) \in Nat
    BY <2>2, TotalType
  <2> QED BY <2>3 DEF Taken, f
<1>6. DOMAIN TakenBy(copies, g, w) = Outs
  BY DEF TakenBy
<1> QED BY <1>3, <1>4, <1>5, <1>6, DocumentsAssumption DEF Ledger

LEMMA MovesCopied == IInv => Copied(moves, DoneDocs, docLines)
BY DEF IInv, TypeOK, LedgerMatchesDocuments, DoneDocs, Copied

\* A delivery that passes the check takes no more than the balance: of several
\* lines at most one is of the product.
LEMMA TakenInStock ==
  ASSUME TypeOK, DistinctGoods, NEW d \in Outs, CanShip(d), NEW g \in Goods, NEW w \in Checked,
         Balance(g, w) >= 0, Balance(g, w) \in Int
  PROVE  Taken(docLines[d], g, w) <= Balance(g, w)
<1> DEFINE K == {k \in Lines : GoodsOf[k] = g /\ docLines[d][k].place = w}
           f == [l \in K |-> docLines[d][l].qty]
<1>1. Taken(docLines[d], g, w) = Total(f)
  BY DEF Taken
<1>2. CASE K = {}
  <2>1. DOMAIN f = {}
    BY <1>2
  <2> HIDE DEF f
  <2>2. Total(f) = 0
    BY <2>1, TotalEmpty
  <2> QED BY <1>1, <2>2
<1>3. ASSUME NEW l \in K
      PROVE  Taken(docLines[d], g, w) <= Balance(g, w)
  <2>1. K = {l}
    BY <1>3 DEF DistinctGoods
  <2>2. docLines[d][l].qty \in Nat
    BY DEF TypeOK, LineMap, OutLine
  <2>3. l \in Present(docLines[d])
    BY PlacesAssumption DEF Present, NoLine
  <2>4. docLines[d][l].qty <= Balance(g, w)
    BY <2>3 DEF CanShip
  <2>5. f[l] = docLines[d][l].qty /\ DOMAIN f = {} \cup {l}
    BY <2>1
  <2> DEFINE e == [x \in {} |-> 0]
  <2>6. DOMAIN e = {}
    OBVIOUS
  <2> HIDE DEF f, e
  <2>7. Summable(e) /\ Total(e) = 0
    BY <2>6, TotalEmpty
  <2>8. l \notin DOMAIN e /\ DOMAIN f = DOMAIN e \cup {l} /\ f[l] \in Nat
        /\ \A y \in DOMAIN e : f[y] = e[y]
    BY <2>2, <2>5, <2>6
  <2>9. Total(f) = Total(e) + f[l]
    BY <2>7, <2>8, TotalMore
  <2> QED BY <1>1, <2>2, <2>4, <2>5, <2>7, <2>9
<1> QED BY <1>2, <1>3

LEMMA BalanceType ==
  ASSUME IInv, NEW g \in Goods, NEW w \in Checked
  PROVE  /\ RowsTotal(TakenBy(moves, g, w)) \in Nat
         /\ received[<<g, w>>] \in Nat
         /\ Balance(g, w) = received[<<g, w>>] - RowsTotal(TakenBy(moves, g, w))
<1>1. Ledger(TakenBy(moves, g, w), DoneDocs, [d \in DoneDocs |-> Taken(docLines[d], g, w)])
  BY MovesCopied, TakenLedger
<1> QED BY <1>1, LedgerTotal DEF Balance, IInv, TypeOK

\* A step that moves nothing and takes nothing away.
LEMMA StockKept ==
  ASSUME IInv, IInv', moves' = moves, StockNeverNegative,
         \A p \in Goods \X Checked : received'[p] >= received[p]
  PROVE  StockNeverNegative'
<1>1. ASSUME NEW g \in Goods, NEW w \in Checked
      PROVE  Balance(g, w)' >= 0
  <2>1. TakenBy(moves', g, w) = TakenBy(moves, g, w)
    BY DEF TakenBy
  <2>2. RowsTotal(TakenBy(moves', g, w)) = RowsTotal(TakenBy(moves, g, w))
    BY <2>1
  <2>3. /\ RowsTotal(TakenBy(moves, g, w)) \in Nat
        /\ received[<<g, w>>] \in Nat
        /\ Balance(g, w) = received[<<g, w>>] - RowsTotal(TakenBy(moves, g, w))
    BY BalanceType
  <2>4. received'[<<g, w>>] \in Nat
    BY DEF IInv, TypeOK
  <2>5. Balance(g, w)' = received'[<<g, w>>] - RowsTotal(TakenBy(moves', g, w))
    BY DEF Balance
  <2> HIDE DEF IInv
  <2> QED BY <2>2, <2>3, <2>4, <2>5 DEF StockNeverNegative
<1> QED BY <1>1 DEF StockNeverNegative

LEMMA ShippedStock ==
  ASSUME StaleForms = FALSE, IInv, IInv', DistinctGoods, StockNeverNegative,
         NEW d \in Outs, OutDone(d)
  PROVE  StockNeverNegative'
<1>1. /\ docState[d] = "draft" /\ received' = received /\ CanShip(d)
      /\ FollowUp([docState EXCEPT ![d] = "done"], docLines, Confirmed(d))
  BY DEF OutDone, Shown
<1>2. /\ DoneDocs' = DoneDocs \cup {d} /\ d \notin DoneDocs
      /\ \A e \in DoneDocs' : docLines'[e] = docLines[e]
  BY <1>1 DEF FollowUp, DoneDocs, IInv, TypeOK
<1>3. ASSUME NEW g \in Goods, NEW w \in Checked
      PROVE  Balance(g, w)' >= 0
  <2> DEFINE v == [e \in DoneDocs |-> Taken(docLines[e], g, w)]
             u == [e \in DoneDocs' |-> Taken(docLines'[e], g, w)]
             R == TakenBy(moves, g, w)
             S == TakenBy(moves', g, w)
  <2>1. Ledger(R, DoneDocs, v)
    BY MovesCopied, TakenLedger
  <2>2. Ledger(S, DoneDocs', u)
    <3>1. Copied(moves', DoneDocs', docLines')
      BY DEF IInv, TypeOK, LedgerMatchesDocuments, DoneDocs, Copied
    <3> QED BY <3>1, TakenLedger
  <2>3. \A e \in DoneDocs : u[e] = v[e]
    BY <1>2
  <2>4. u[d] = Taken(docLines[d], g, w)
    BY <1>2
  <2>5. OneMore(R, S, DoneDocs, d, v, u)
    <3> HIDE DEF R, S, u, v
    <3> QED BY <1>2, <2>1, <2>2, <2>3 DEF OneMore
  <2>6. RowsTotal(S) = RowsTotal(R) + u[d]
    <3> HIDE DEF R, S, u, v
    <3> QED BY <2>5, LedgerMore
  <2>7. /\ RowsTotal(R) \in Nat /\ received[<<g, w>>] \in Nat
        /\ Balance(g, w) = received[<<g, w>>] - RowsTotal(R)
    BY BalanceType
  <2>8. Taken(docLines[d], g, w) <= Balance(g, w)
    BY <1>1, <2>7, TakenInStock DEF IInv, StockNeverNegative
  <2>9. u[d] \in Nat
    <3> HIDE DEF u, S
    <3> QED BY <1>2, <2>2 DEF Ledger
  <2>10. Balance(g, w)' = received[<<g, w>>] - RowsTotal(S)
    BY <1>1 DEF Balance
  <2> HIDE DEF R, S, u, v
  <2> QED BY <2>4, <2>6, <2>7, <2>8, <2>9, <2>10
<1> QED BY <1>3 DEF StockNeverNegative

LEMMA UndoneStock ==
  ASSUME StaleForms = FALSE, IInv, IInv', StockNeverNegative, NEW d \in Outs, OutDraft(d)
  PROVE  StockNeverNegative'
<1>1. /\ docState[d] = "done" /\ received' = received
      /\ DoneDocs' = DoneDocs \ {d} /\ d \in DoneDocs
      /\ \A e \in DoneDocs : docLines'[e] = docLines[e]
  BY DEF OutDraft, Shown, DoneDocs, IInv, TypeOK
<1>2. ASSUME NEW g \in Goods, NEW w \in Checked
      PROVE  Balance(g, w)' >= 0
  <2> DEFINE v == [e \in DoneDocs |-> Taken(docLines[e], g, w)]
             u == [e \in DoneDocs' |-> Taken(docLines'[e], g, w)]
             R == TakenBy(moves, g, w)
             S == TakenBy(moves', g, w)
  <2>1. Ledger(R, DoneDocs, v)
    BY MovesCopied, TakenLedger
  <2>2. Ledger(S, DoneDocs', u)
    <3>1. Copied(moves', DoneDocs', docLines')
      BY DEF IInv, TypeOK, LedgerMatchesDocuments, DoneDocs, Copied
    <3> QED BY <3>1, TakenLedger
  <2>3. \A e \in DoneDocs' : v[e] = u[e]
    BY <1>1
  <2>4. OneMore(S, R, DoneDocs', d, u, v)
    <3> HIDE DEF R, S, u, v
    <3>1. d \notin DoneDocs' /\ DoneDocs' \cup {d} = DoneDocs
      BY <1>1
    <3> QED BY <3>1, <2>1, <2>2, <2>3 DEF OneMore
  <2>5. RowsTotal(R) = RowsTotal(S) + v[d]
    <3> HIDE DEF R, S, u, v
    <3> QED BY <2>4, LedgerMore
  <2>6. /\ RowsTotal(R) \in Nat /\ received[<<g, w>>] \in Nat
        /\ Balance(g, w) = received[<<g, w>>] - RowsTotal(R)
    BY BalanceType
  <2>7. RowsTotal(S) \in Nat
    <3> HIDE DEF S, u
    <3> QED BY <2>2, LedgerTotal
  <2>8. v[d] \in Nat
    <3> HIDE DEF R, v
    <3> QED BY <1>1, <2>1 DEF Ledger
  <2>9. Balance(g, w)' = received[<<g, w>>] - RowsTotal(S)
    BY <1>1 DEF Balance
  <2>10. Balance(g, w) >= 0
    BY DEF StockNeverNegative
  <2> HIDE DEF R, S, u, v
  <2> QED BY <2>5, <2>6, <2>7, <2>8, <2>9, <2>10
<1> QED BY <1>2 DEF StockNeverNegative

LEMMA StockStep ==
  ASSUME StaleForms = FALSE, IInv, IInv', DistinctGoods, StockNeverNegative, [Next]_vars
  PROVE  StockNeverNegative'
<1>1. \A p \in Goods \X Checked : received[p] \in Nat
  BY DEF IInv, TypeOK
<1>2. CASE moves' = moves /\ received' = received
  BY <1>1, <1>2, StockKept
<1>3. CASE OrderDraft
  <2>1. \A d \in Outs : moves[d] = <<>>
    BY <1>3 DEF OrderDraft, NothingDelivered, IInv, LedgerMatchesDocuments
  <2>2. moves' = moves
    BY <1>3, <2>1 DEF OrderDraft, IInv, TypeOK
  <2>3. received' = received
    BY <1>3 DEF OrderDraft
  <2> QED BY <1>2, <2>2, <2>3
<1>4. ASSUME NEW d \in Outs, OutDone(d) PROVE StockNeverNegative'
  BY <1>4, ShippedStock
<1>5. ASSUME NEW d \in Outs, OutDraft(d) PROVE StockNeverNegative'
  BY <1>5, UndoneStock
<1>6. ASSUME NEW g \in Goods, NEW w \in Checked, NEW q \in Receipts, Receive(g, w, q)
      PROVE  StockNeverNegative'
  <2>1. moves' = moves
    BY <1>6 DEF Receive, docVars
  <2>2. received \in [Goods \X Checked -> Nat] /\ q \in Nat
    BY QuantitiesAssumption DEF IInv, TypeOK
  <2>3. \A p \in Goods \X Checked : received'[p] >= received[p]
    BY <1>6, <2>2 DEF Receive
  <2> QED BY <2>1, <2>3, StockKept
<1>7. ASSUME \/ OrderDone \/ OrderCancel \/ OrderOut \/ CreateOrderReview
             \/ \E l \in Lines : \E q \in OrderQuantities[l] : EditOrderLine(l, q)
             \/ \E r \in Reviews : ReviewDone(r) \/ ReviewDraft(r) \/ ReviewCancel(r)
             \/ UNCHANGED vars
      PROVE  moves' = moves /\ received' = received
  BY <1>7
  DEF OrderDone, OrderCancel, OrderOut, CreateOrderReview, EditOrderLine, ReviewDone,
      ReviewDraft, ReviewCancel, SetReview, vars, docVars
<1>8. ASSUME NEW d \in Outs,
             \/ OutCancel(d)
             \/ \E l \in Present(docLines[d]), w \in Places :
                  \E q \in OutQuantities \cup {docLines[d][l].qty} : EditOutLine(d, l, q, w)
             \/ \E l \in Present(docLines[d]) : RemoveOutLine(d, l)
             \/ \E i \in DOMAIN recs[d] : RecDone(d, i) \/ RecDraft(d, i) \/ RecCancel(d, i)
      PROVE  moves' = moves /\ received' = received
  BY <1>8 DEF OutCancel, EditOutLine, RemoveOutLine, RecDone, RecDraft, RecCancel, SetRec
<1> HIDE DEF StockNeverNegative, IInv, DistinctGoods
<1>9. ASSUME Next PROVE StockNeverNegative'
  BY <1>2, <1>3, <1>4, <1>5, <1>6, <1>7, <1>8, <1>9 DEF Next
<1> QED BY <1>2, <1>7, <1>9

\* Under the same assumption deliveries leave no checked warehouse below zero,
\* as long as no two lines order one product: the check of one line then sees
\* all that the same confirmation will take.
THEOREM StockSuffices ==
  ASSUME StaleForms = FALSE
  PROVE  Spec => []StockNeverNegativePerLine
<1>1. Init => StockNeverNegativePerLine
  <2> SUFFICES ASSUME Init, NEW g \in Goods, NEW w \in Checked
               PROVE  Balance(g, w) >= 0
    BY DEF StockNeverNegativePerLine, StockNeverNegative
  <2>1. IInv
    BY InitIInv
  <2> DEFINE v == [d \in DoneDocs |-> Taken(docLines[d], g, w)]
             R == TakenBy(moves, g, w)
  <2>2. DoneDocs = {}
    BY DEF Init, DoneDocs
  <2>3. Ledger(R, {}, v)
    BY <2>1, <2>2, MovesCopied, TakenLedger
  <2>4. RowsTotal(R) = 0
    <3> HIDE DEF R, v
    <3> QED BY <2>3, LedgerNone
  <2>5. received[<<g, w>>] = 0
    BY DEF Init
  <2> QED BY <2>4, <2>5 DEF Balance
<1>2. IInv /\ IInv' /\ StockNeverNegativePerLine /\ [Next]_vars => StockNeverNegativePerLine'
  BY StockStep DEF StockNeverNegativePerLine, DistinctGoods
<1> QED BY <1>1, <1>2, Inductive, PTL DEF Spec
=============================================================================
