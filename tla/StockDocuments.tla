--------------------------- MODULE StockDocuments ---------------------------
(***************************************************************************)
(* The manual stock documents of jinling_warehouse, jl.move.in (goods      *)
(* brought in) and jl.move.out (goods taken out), with the jl.move each    *)
(* confirmation makes.  The two models have the same handlers; only the    *)
(* type of the move's lines differs.  An undo keeps the move and its lines *)
(* as drafts, which no later search finds: the ledger counts done lines.   *)
(*                                                                         *)
(* The quantities of one document are added up per product.                *)
(***************************************************************************)
EXTENDS Sums, Sequences

CONSTANTS
  Materials,        \* the products in stock
  MoveIns, MoveOuts,  \* ids the rows of each document may take (bounds)
  Quantities,       \* what a user may enter on a sheet (a bound)
  MaxMoves          \* how many moves one document may collect (a bound)

ASSUME StockAssumption ==
  /\ \A S \in {Materials, MoveIns, MoveOuts} : IsFiniteSet(S)
  /\ MoveIns \cap MoveOuts = {}
  /\ Quantities \subseteq Nat /\ MaxMoves \in Nat

VARIABLES
  doc,      \* each manual document
  docMoves  \* its jl.moves, oldest first

stockVars == <<doc, docMoves>>

MoveDocs == MoveIns \cup MoveOuts
DocStates == {"none", "draft", "done", "cancel"}

\* A line of a sheet; the user chooses its warehouse.
Line == [qty : Nat, placed : BOOLEAN]
Absent == [qty |-> 0, placed |-> FALSE]
Sheet == [state : DocStates, mats : SUBSET Materials, lines : [Materials -> Line]]
NoSheet == [state |-> "none", mats |-> {}, lines |-> [m \in Materials |-> Absent]]
Amount(sheet) == [m \in Materials |-> sheet.lines[m].qty]
Placed(sheet) == sheet.mats # {} /\ \A m \in sheet.mats : sheet.lines[m].placed

\* What the done moves of some documents carry of a product.
DoneMoves(d) == {i \in DOMAIN docMoves[d] : docMoves[d][i].state = "done"}
Carried(S, m) == RowsTotal([d \in S |-> [i \in DoneMoves(d) |-> docMoves[d][i].amount[m]]])

-----------------------------------------------------------------------------
CreateMove(d) ==
  /\ doc[d].state = "none"
  /\ doc' = [doc EXCEPT ![d].state = "draft"]
  /\ UNCHANGED docMoves

\* Confirm: the done move of the document, if there is one, else a new one.  A
\* document that takes goods out does not look at the stock.
MoveDone(d) ==
  /\ doc[d].state = "draft"
  /\ Placed(doc[d])
  /\ IF DoneMoves(d) # {}
     THEN UNCHANGED docMoves
     ELSE /\ Len(docMoves[d]) < MaxMoves
          /\ docMoves' = [docMoves EXCEPT ![d] =
                            Append(@, [state |-> "done", amount |-> Amount(doc[d])])]
  /\ doc' = [doc EXCEPT ![d].state = "done"]

MutMoveDraft(d) ==
  /\ doc[d].state = "done"
  /\ UNCHANGED docMoves
  /\ doc' = [doc EXCEPT ![d].state = "draft"]
MoveDraft(d) ==
  /\ doc[d].state = "done"
  /\ docMoves' = [docMoves EXCEPT ![d] = [i \in DOMAIN @ |-> [@[i] EXCEPT !.state = "draft"]]]
  /\ doc' = [doc EXCEPT ![d].state = "draft"]

\* Cancel deletes the done moves, if there are any.
MoveCancel(d) ==
  /\ doc[d].state = "draft"
  /\ docMoves' = [docMoves EXCEPT ![d] =
       [i \in DOMAIN @ |-> IF @[i].state = "done" THEN [@[i] EXCEPT !.state = "none"] ELSE @[i]]]
  /\ doc' = [doc EXCEPT ![d].state = "cancel"]

\* The form deletes a document in every state; its moves go with it.
MoveUnlink(d) ==
  /\ doc[d].state # "none"
  /\ doc' = [doc EXCEPT ![d] = NoSheet]
  /\ docMoves' = [docMoves EXCEPT ![d] = <<>>]

\* The lines of a draft: enter one, with or without a warehouse, or remove it.
EditMoveLine(d, m, q, placed) ==
  /\ doc[d].state = "draft"
  /\ doc' = [doc EXCEPT ![d].mats = @ \cup {m}, ![d].lines[m] = [qty |-> q, placed |-> placed]]
  /\ UNCHANGED docMoves

RemoveMoveLine(d, m) ==
  /\ doc[d].state = "draft" /\ m \in doc[d].mats
  /\ doc' = [doc EXCEPT ![d].mats = @ \ {m}, ![d].lines[m] = Absent]
  /\ UNCHANGED docMoves

-----------------------------------------------------------------------------
StockInit ==
  /\ doc = [d \in MoveDocs |-> NoSheet]
  /\ docMoves = [d \in MoveDocs |-> <<>>]

StockNext ==
  \E d \in MoveDocs :
    \/ CreateMove(d) \/ MoveDone(d) \/ MoveDraft(d) \/ MoveCancel(d) \/ MoveUnlink(d)
    \/ \E m \in Materials :
         \/ RemoveMoveLine(d, m)
         \/ \E q \in Quantities, placed \in BOOLEAN : EditMoveLine(d, m, q, placed)

StockTypeOK ==
  /\ doc \in [MoveDocs -> Sheet]
  /\ docMoves \in [MoveDocs -> Seq([state : {"none", "draft", "done"}, amount : [Materials -> Nat]])]

\* A confirmed manual document has exactly one done move, with its present
\* lines, and any other has none, whatever drafts its undos have left.
DocumentLedger ==
  \A d \in MoveDocs :
    Cardinality(DoneMoves(d)) = (IF doc[d].state = "done" THEN 1 ELSE 0)
    /\ \A i \in DoneMoves(d) : docMoves[d][i].amount = Amount(doc[d])
=============================================================================
