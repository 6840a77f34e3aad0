----------------------------- MODULE MCPurchaseSaga -----------------------------
(***************************************************************************)
(* Instances of PurchaseSaga for TLC.  In one behaviour Trading either     *)
(* meets a mishap, with every quantity and price, or restarts, with one    *)
(* quantity and one price: both at once have too many states.              *)
(***************************************************************************)
EXTENDS PurchaseSaga

CONSTANTS p1, p2, u1, i1, i2

VARIABLE trouble   \* which of the two may happen

MCUserOf == [p \in Purchases |-> u1]

OneOf(S) == CHOOSE x \in S : TRUE

MCInit == Init /\ trouble \in {"mishap", "restart"}

MCNext ==
    /\ Next /\ UNCHANGED trouble
    /\ trouble = "mishap" => restarts' = 0
    /\ trouble = "restart" =>
          /\ mishaps' = 0
          /\ price' \in [DOMAIN price' -> {OneOf(Prices)}]
          /\ \A m \in net' : m.type = "PurchaseRequested" => m.qty = OneOf(Quantities)

MCSpec == MCInit /\ [][MCNext]_<<sagaVars, trouble>>
================================================================================
