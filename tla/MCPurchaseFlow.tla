----------------------------- MODULE MCPurchaseFlow -----------------------------
(* Instances of PurchaseFlow for TLC. *)
EXTENDS PurchaseFlow, TLC

CONSTANTS p1, p2, u1, i1, i2

OneUser == [p \in Purchases |-> u1]

Rich == [u \in Users |-> 3]
AllKnown == {Items}
AnyKnown == SUBSET Items
================================================================================
