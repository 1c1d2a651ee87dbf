--------------------------- MODULE MCSellDelivery ---------------------------
(* A sales order of two lines, two products and one checked warehouse. *)
EXTENDS SellDelivery, TLC

MCLines == {1, 2}
MCGoodsOf == <<"g1", "g2">>
MCWarehouseOf == <<"ms1", "none">>
MCOrderQuantities == <<{6, 7}, {1}>>
Symmetry == Permutations(Outs) \cup Permutations(Reviews)
=============================================================================
