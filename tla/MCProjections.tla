------------------------------ MODULE MCProjections ------------------------------
(***************************************************************************)
(* Instances for TLC of CatalogProjection and AccountProjections, which    *)
(* share no variable: a behaviour is one of the two, the other stays.      *)
(***************************************************************************)
EXTENDS CatalogProjection, AccountProjections, TLC

CONSTANTS i1, d1, d2, r1, r2, r3

MCAmounts == {1, -1}

VARIABLE focus   \* what the behaviour is about

vars == <<focus, catalogVars, accountVars>>

Catalog == focus = "catalog" /\ UNCHANGED <<focus, accountVars>>
Account == focus = "account" /\ UNCHANGED <<focus, catalogVars>>

MCInit ==
    /\ focus \in {"catalog", "account"}
    /\ CatalogInit /\ AccountInit
    /\ focus = "catalog" => side = "gil"

MCNext == (CatalogNext /\ Catalog) \/ (AccountNext /\ Account)

\* The fairness of the two modules, where the behaviour is about them.
MCFairness ==
    /\ \A i \in Items : \A type \in {"created", "updated", "deleted"} :
        /\ WF_vars(\E m \in queue : m.item = i /\ m.type = type /\ Handle(m) /\ Catalog)
        /\ WF_vars(\E t \in tasks :
                     t.msg.item = i /\ t.msg.type = type /\ Proceed(t) /\ Catalog)
    /\ WF_vars(\E m \in inbox : Receive(m) /\ Account)
    /\ WF_vars(\E t \in work : Step(t) /\ Account)

MCSpec == MCInit /\ [][MCNext]_vars /\ MCFairness
================================================================================
