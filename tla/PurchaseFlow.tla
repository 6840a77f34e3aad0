------------------------------ MODULE PurchaseFlow ------------------------------
(***************************************************************************)
(* A purchase end to end: Trading's saga with Inventory's and Identity's   *)
(* real consumers in the place of the abstract services of PurchaseSaga.   *)
(***************************************************************************)
EXTENDS PurchaseSaga, InventoryConsumers, DebitConsumer

inventoryVars == <<docs, known>>
serviceVars == <<tasks, failures, docs, known, users>>
flowVars == <<sagaVars, serviceVars>>

FlowInit ==
    /\ net = {} /\ sent = {}
    /\ tasks = {} /\ failures = 0
    /\ TradingInit /\ InventoryInit /\ DebitInit

FlowNext ==
    \/ TradingNext /\ UNCHANGED serviceVars
    \/ InventoryNext /\ UNCHANGED <<tradingVars, users>>
    \/ DebitNext /\ UNCHANGED <<tradingVars, inventoryVars>>

FlowSafety == FlowInit /\ [][FlowNext]_flowVars

-----------------------------------------------------------------------------
(* Fairness.  The broker delivers every queued message and every await     *)
(* returns or throws.  Clients, the catalog, failures and restarts are not *)
(* fair.                                                                   *)

Delivers(p, type) ==
    /\ \E m \in net : m.p = p /\ m.type = type /\ HandleEvent(m)
    /\ UNCHANGED serviceVars

Begins(p, type) ==
    /\ \E m \in net : m.p = p /\ m.type = type /\ (InventoryBegin(m) \/ DebitBegin(m))
    /\ UNCHANGED <<tradingVars, inventoryVars, users>>

Proceeds(p, type) ==
    \/ /\ \E t \in tasks : t.msg.p = p /\ t.msg.type = type /\ InventoryTask(t)
       /\ UNCHANGED <<tradingVars, users>>
    \/ /\ \E t \in tasks : t.msg.p = p /\ t.msg.type = type /\ DebitTask(t)
       /\ UNCHANGED <<tradingVars, inventoryVars>>

FlowFairness ==
    \A p \in Purchases :
        /\ \A type \in SagaEvents : WF_flowVars(Delivers(p, type))
        /\ \A type \in {"GrantItems", "SubtractItems", "DebitGil"} :
              WF_flowVars(Begins(p, type)) /\ WF_flowVars(Proceeds(p, type))

FlowSpec == FlowSafety /\ FlowFairness

-----------------------------------------------------------------------------
(* Properties.                                                             *)

\* The variables hold what the three services can put in them.
FlowTypeOK ==
    /\ net \subseteq PurchaseMessages
    /\ sent \subseteq PurchaseMessages \cup InventoryUpdates \cup UserUpdates
    /\ saga \in [Purchases -> Instances \cup {NoInstance}]
    /\ known \subseteq Items
    /\ \A k \in Keys : \A i \in DOMAIN docs[k] :
           docs[k][i].qty \in Int /\ docs[k][i].seen \subseteq sent \cap ItemCommands
    /\ \A u \in DOMAIN users :
           users[u].gil \in Nat /\ users[u].seen \subseteq sent \cap GilCommands
    /\ \A t \in tasks : t.msg \in net /\ t.stage \in Stages /\ t.tries \in Nat

\* p's effects on Inventory's documents and on its user's gil.
Granted(p) == \E k \in Keys : \E i \in DOMAIN docs[k] :
                 \E m \in docs[k][i].seen : m.p = p /\ m.type = "GrantItems"
TakenBack(p) == \E k \in Keys : \E i \in DOMAIN docs[k] :
                   \E m \in docs[k][i].seen : m.p = p /\ m.type = "SubtractItems"
Held(p) == Granted(p) /\ ~TakenBack(p)
Paid(p) == UserOf[p] \in DOMAIN users /\ \E m \in users[UserOf[p]].seen : m.p = p

\* No message about p is queued, so no handler is at work for it.
Quiet(p) == \A m \in net : m.p # p

\* A completed purchase has its items stored and its gil taken.
CompletedIsSettled ==
    \A p \in Purchases : saga[p].state = "Completed" => Granted(p) /\ Paid(p)

\* "Ensures consistency across services": once nothing about a purchase is in
\* flight, its saga is terminal, and the user holds the items exactly if paid.
QuietConsistent ==
    \A p \in Purchases : Quiet(p) =>
        /\ saga[p].state \in Terminal \cup {"Initial"}
        /\ saga[p].state = "Completed" => Held(p) /\ Paid(p)
        /\ saga[p].state # "Completed" => ~Held(p) /\ ~Paid(p)

\* An accepted purchase is eventually completed or faulted.
AcceptedTerminates ==
    \A p \in Purchases : saga[p].state = "Accepted" ~> saga[p].state \in Terminal

\* Once the saga has compensated, the items are eventually taken back.
CompensationArrives ==
    \A p \in Purchases :
        (\E m \in sent : m.type = "SubtractItems" /\ m.p = p) ~> ~Held(p)

\* The services do what PurchaseSaga lets its abstract services do, apart from
\* telling Trading's projections.
Updates == {"InventoryItemUpdated", "UserUpdated"}
PurchaseSent == {m \in sent : m.type \notin Updates}
Saga == INSTANCE PurchaseSaga WITH sent <- PurchaseSent
ImplementsSaga == Saga!Spec
================================================================================
