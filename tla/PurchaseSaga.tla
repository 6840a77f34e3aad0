------------------------------ MODULE PurchaseSaga ------------------------------
(***************************************************************************)
(* Play.Trading's orchestration of a purchase: the PurchaseStateMachine    *)
(* saga with its in-memory repository and in-memory outbox, the price      *)
(* projection it totals a purchase with, and the clients that submit       *)
(* purchases.  Play.Inventory and Play.Identity are abstract here: they    *)
(* may answer a command they hold with success, with a fault, with both,   *)
(* or more than once.  PurchaseFlow puts the real services in their place. *)
(***************************************************************************)
EXTENDS PurchaseBus

CONSTANTS
    MaxRestarts,  \* bound: restarts of the Trading process
    MaxMishaps    \* bound: acknowledgements and outbox deliveries lost by Trading

ASSUME TradingAssumption == MaxRestarts \in Nat /\ MaxMishaps \in Nat

VARIABLES
    saga,      \* the saga repository: instance of each correlation id
    pushed,    \* last status of each purchase handed to MessageHub
    price,     \* Trading's catalog projection: known items and their price
    restarts,  \* restarts of Trading so far
    mishaps    \* mishaps so far

tradingVars == <<saga, pushed, price, restarts, mishaps>>
sagaVars == <<net, sent, saga, pushed, price, restarts, mishaps>>

-----------------------------------------------------------------------------
(* The saga's states and the events each binds or ignores.                 *)

States == {"Initial", "Accepted", "ItemsGranted", "Completed", "Faulted"}
Terminal == {"Completed", "Faulted"}

FaultEvents == {"PurchaseRequestedFaulted", "InventoryItemsGrantedFaulted",
                "GrantItemsFaulted", "DebitGilFaulted"}

\* An id without an instance is in the state "Initial".
NoInstance == [state |-> "Initial"]
Instances == [state : States \ {"Initial"}, item : Items, qty : Quantities,
              total : Nat, error : FaultEvents \cup {"none"}]

AnyState == {"PurchaseRequestedFaulted", "InventoryItemsGrantedFaulted", "DebitGilFaulted"}

Binds == [Initial      |-> {"PurchaseRequested"},
          Accepted     |-> {"InventoryItemsGranted", "GrantItemsFaulted"} \cup AnyState,
          ItemsGranted |-> {"GilDebited", "DebitGilFaulted"} \cup AnyState,
          Completed    |-> AnyState,
          Faulted      |-> AnyState]

Ignores == [Initial      |-> {},
            Accepted     |-> {"PurchaseRequested"},
            ItemsGranted |-> {"PurchaseRequested", "InventoryItemsGranted"},
            Completed    |-> {"PurchaseRequested", "InventoryItemsGranted", "GilDebited"},
            Faulted      |-> {"PurchaseRequested", "InventoryItemsGranted", "GilDebited"}]

-----------------------------------------------------------------------------
(* Finishing a delivery.  The outbox holds what a handler sends until the  *)
(* saga is stored, and delivers it before the acknowledgement.             *)

Mishap == mishaps < MaxMishaps /\ mishaps' = mishaps + 1

Finish(m, out) ==
    \/ Acknowledge(m, out) /\ UNCHANGED mishaps
    \/ Publish(out) /\ Mishap              \* acknowledgement lost: redelivered

FaultOf(m) ==
    CASE m.type = "PurchaseRequested" -> {Event("PurchaseRequestedFaulted", m.p)}
      [] m.type = "InventoryItemsGranted" -> {Event("InventoryItemsGrantedFaulted", m.p)}
      [] OTHER -> {}

\* The outbox cannot reach the broker.  It sits outside the retry filter, so
\* nothing runs again: the delivery faults, or is redelivered with its channel.
FlushFails(m) ==
    /\ Mishap
    /\ \/ Acknowledge(m, FaultOf(m))
       \/ UNCHANGED <<net, sent>>

Flush(m, out) == Finish(m, out) \/ FlushFails(m)

\* The part of a new MessageId that tells a purchase's commands apart.
NextSeq(type, p) == Cardinality({c \in sent : c.type = type /\ c.p = p})

ItemCommand(type, p, s) ==
    [type |-> type, p |-> p, item |-> s.item, qty |-> s.qty,
     run |-> restarts, seq |-> NextSeq(type, p)]

GilCommand(type, p, s) ==
    [type |-> type, p |-> p, total |-> s.total,
     run |-> restarts, seq |-> NextSeq(type, p)]

\* The condition under which an event of purchase p finds its binding.  Mutants:
\* RestartsAccepted, RegrantsCompleted and CompensatesCompleted react where the
\* code ignores the event or has another binding.
RestartsAccepted(p) == saga[p].state \in {"Initial", "Accepted"}
NoSaga(p) == saga[p].state = "Initial"
RegrantsCompleted(p) == saga[p].state \in {"Accepted", "Completed"}
AwaitsGrant(p) == saga[p].state = "Accepted"
CompensatesCompleted(p) == saga[p].state \in {"ItemsGranted", "Completed"}
AwaitsDebit(p) == saga[p].state = "ItemsGranted"

\* CalculatePurchaseTotalActivity.  Mutant: UnitPrice forgets the quantity.
UnitPrice(item, qty) == price[item]
PurchaseTotal(item, qty) == price[item] * qty

\* Mutants: ReplacedByFault drops the purchase's terms, KeepsSilent the push.
SetState(p, s) == saga' = [saga EXCEPT ![p].state = s]
ReplacedByFault(p, fault) == saga' = [saga EXCEPT ![p] = [state |-> "Faulted", error |-> fault]]
SetFaulted(p, fault) == saga' = [saga EXCEPT ![p].state = "Faulted", ![p].error = fault]
KeepsSilent(p, s) == pushed' = pushed
SendStatus(p, s) == pushed' = [pushed EXCEPT ![p] = s]

-----------------------------------------------------------------------------
(* Event handlers, one per binding.  m is a delivered message.             *)

\* Initially(When(PurchaseRequested)), the item being known.
AcceptPurchase(m) ==
    /\ m.type = "PurchaseRequested" /\ NoSaga(m.p)
    /\ m.item \in DOMAIN price
    /\ LET s == [state |-> "Accepted", item |-> m.item, qty |-> m.qty,
                 total |-> PurchaseTotal(m.item, m.qty), error |-> "none"]
       IN  /\ saga' = [saga EXCEPT ![m.p] = s]
           /\ Flush(m, {ItemCommand("GrantItems", m.p, s)})
    /\ UNCHANGED <<pushed, price, restarts>>

\* CalculatePurchaseTotalActivity finds no item and throws: the retry filter
\* ignores UnknownItemException, no instance is stored.
RejectPurchase(m) ==
    /\ m.type = "PurchaseRequested" /\ NoSaga(m.p)
    /\ m.item \notin DOMAIN price
    /\ Finish(m, FaultOf(m))
    /\ UNCHANGED <<saga, pushed, price, restarts>>

\* During(Accepted, When(InventoryItemsGranted)).
DebitForItems(m) ==
    /\ m.type = "InventoryItemsGranted" /\ AwaitsGrant(m.p)
    /\ SetState(m.p, "ItemsGranted")
    /\ Flush(m, {GilCommand("DebitGil", m.p, saga[m.p])})
    /\ UNCHANGED <<pushed, price, restarts>>

\* During(Accepted, When(GrantItemsFaulted)).
FaultOnGrant(m) ==
    /\ m.type = "GrantItemsFaulted" /\ AwaitsGrant(m.p)
    /\ SetFaulted(m.p, m.type)
    /\ SendStatus(m.p, "Faulted")
    /\ Finish(m, {})
    /\ UNCHANGED <<price, restarts>>

\* During(ItemsGranted, When(GilDebited)).
CompletePurchase(m) ==
    /\ m.type = "GilDebited" /\ AwaitsDebit(m.p)
    /\ SetState(m.p, "Completed")
    /\ SendStatus(m.p, "Completed")
    /\ Flush(m, {GilCommand("PurchaseCompleted", m.p, saga[m.p])})
    /\ UNCHANGED <<price, restarts>>

\* During(ItemsGranted, When(DebitGilFaulted)), followed by the DuringAny
\* binding of the same event, which repeats its last two effects.
CompensatePurchase(m) ==
    /\ m.type = "DebitGilFaulted" /\ AwaitsDebit(m.p)
    /\ SetFaulted(m.p, m.type)
    /\ SendStatus(m.p, "Faulted")
    /\ Flush(m, {ItemCommand("SubtractItems", m.p, saga[m.p])})
    /\ UNCHANGED <<price, restarts>>

\* DuringAny(When(DebitGilFaulted)) outside ItemsGranted: no compensation.
LateDebitFault(m) ==
    /\ m.type = "DebitGilFaulted"
    /\ saga[m.p].state \in {"Accepted", "Completed", "Faulted"}
    /\ SetFaulted(m.p, m.type)
    /\ SendStatus(m.p, "Faulted")
    /\ Finish(m, {})
    /\ UNCHANGED <<price, restarts>>

\* DuringAny(When(PurchaseRequestedFaulted | InventoryItemsGrantedFaulted)).
RecordFault(m) ==
    /\ m.type \in {"PurchaseRequestedFaulted", "InventoryItemsGrantedFaulted"}
    /\ saga[m.p].state # "Initial"
    /\ saga' = [saga EXCEPT ![m.p].error = m.type]
    /\ SendStatus(m.p, saga[m.p].state)
    /\ Finish(m, {})
    /\ UNCHANGED <<price, restarts>>

\* Ignore(...): acknowledged without effect.
IgnoreEvent(m) ==
    /\ m.type \in Ignores[saga[m.p].state]
    /\ Finish(m, {})
    /\ UNCHANGED <<saga, pushed, price, restarts>>

\* No binding: discarded when there is no instance, otherwise thrown as an
\* unhandled event and, after the retries, moved to the error queue.
UnhandledEvent(m) ==
    /\ m.type \in SagaEvents
    /\ m.type \notin Binds[saga[m.p].state] \cup Ignores[saga[m.p].state]
    /\ Finish(m, {})
    /\ UNCHANGED <<saga, pushed, price, restarts>>

HandleEvent(m) ==
    \/ AcceptPurchase(m) \/ RejectPurchase(m)
    \/ DebitForItems(m) \/ FaultOnGrant(m)
    \/ CompletePurchase(m) \/ CompensatePurchase(m) \/ LateDebitFault(m)
    \/ RecordFault(m) \/ IgnoreEvent(m) \/ UnhandledEvent(m)

-----------------------------------------------------------------------------
(* Trading's other steps.                                                  *)

\* POST /purchase; a client repeats it with the same idempotency id.
SubmitPurchase(p, item, qty) ==
    /\ net' = net \cup {[type |-> "PurchaseRequested", p |-> p, item |-> item, qty |-> qty]}
    /\ UNCHANGED <<sent, tradingVars>>

\* Trading's CatalogItemCreatedConsumer keeps an item it already knows.
CatalogItemCreated(item, c) ==
    /\ item \notin DOMAIN price
    /\ price' = [i \in DOMAIN price \cup {item} |-> IF i = item THEN c ELSE price[i]]
    /\ UNCHANGED <<net, sent, saga, pushed, restarts, mishaps>>

\* Trading's CatalogItemUpdatedConsumer upserts.
CatalogItemUpdated(item, c) ==
    /\ price' = [i \in DOMAIN price \cup {item} |-> IF i = item THEN c ELSE price[i]]
    /\ UNCHANGED <<net, sent, saga, pushed, restarts, mishaps>>

\* The process restarts: the repository was in memory, the queues are durable.
TradingRestart ==
    /\ restarts < MaxRestarts
    /\ restarts' = restarts + 1
    /\ saga' = [p \in Purchases |-> NoInstance]
    /\ UNCHANGED <<net, sent, pushed, price, mishaps>>

TradingInit ==
    /\ saga = [p \in Purchases |-> NoInstance]
    /\ pushed = [p \in Purchases |-> "none"]
    /\ \E known \in SUBSET Items : price \in [known -> Prices]
    /\ restarts = 0
    /\ mishaps = 0

TradingNext ==
    \/ \E m \in net : HandleEvent(m)
    \/ \E p \in Purchases, i \in Items, q \in Quantities : SubmitPurchase(p, i, q)
    \/ \E i \in Items, c \in Prices : CatalogItemCreated(i, c) \/ CatalogItemUpdated(i, c)
    \/ TradingRestart

-----------------------------------------------------------------------------
(* The services, as far as the saga can tell them: while one holds a       *)
(* command it may publish any of its answers, again or not at all, success *)
(* and fault together when the last try fails after a publish, and         *)
(* acknowledge the command with the last of them.                          *)

Answers(m) ==
    CASE m.type = "GrantItems" ->
           {Event("InventoryItemsGranted", m.p), Event("GrantItemsFaulted", m.p)}
      [] m.type = "DebitGil" ->
           {Event("GilDebited", m.p), Event("DebitGilFaulted", m.p)}
      [] m.type = "SubtractItems" ->
           {Event("InventoryItemsSubtracted", m.p), Event("SubtractItemsFaulted", m.p)}

ServiceStep(m) ==
    /\ m.type \in {"GrantItems", "DebitGil", "SubtractItems"}
    /\ \E out \in SUBSET Answers(m) : Publish(out) \/ Acknowledge(m, out)
    /\ UNCHANGED tradingVars

Init == TradingInit /\ net = {} /\ sent = {}

Next == TradingNext \/ \E m \in net : ServiceStep(m)

Spec == Init /\ [][Next]_sagaVars

-----------------------------------------------------------------------------
(* Properties.                                                             *)

CommandTypes == {"GrantItems", "DebitGil", "SubtractItems", "PurchaseCompleted"}

\* The variables hold what the code can put in them.
TypeOK ==
    /\ net \subseteq PurchaseMessages
    /\ sent \subseteq PurchaseMessages
    /\ saga \in [Purchases -> Instances \cup {NoInstance}]
    /\ pushed \in [Purchases -> States \cup {"none"}]
    /\ DOMAIN price \subseteq Items /\ price \in [DOMAIN price -> Prices]
    /\ restarts \in 0..MaxRestarts
    /\ mishaps \in 0..MaxMishaps

\* One run of Trading sends a purchase at most one command of each type, however
\* often the client repeats its POST and the broker redelivers a request or a reply.
CommandsUnique ==
    \A c, d \in sent :
        (/\ c.type \in CommandTypes /\ d.type = c.type
         /\ d.p = c.p /\ d.run = c.run) => c = d

\* A purchase is debited only after Inventory reported its items granted, and
\* for a catalog price of exactly the quantity that was granted.
DebitForGrantedItems ==
    \A d \in sent : d.type = "DebitGil" =>
        /\ Event("InventoryItemsGranted", d.p) \in sent
        /\ \A g \in sent : (g.type = "GrantItems" /\ g.p = d.p /\ g.run = d.run) =>
               \E c \in Prices : d.total = c * g.qty

\* Items are taken back only when the debit faulted, exactly those this run
\* granted, and never from a purchase this run completed.
CompensationMirrorsGrant ==
    \A s \in sent : s.type = "SubtractItems" =>
        /\ Event("DebitGilFaulted", s.p) \in sent
        /\ \A g \in sent : (g.type = "GrantItems" /\ g.p = s.p /\ g.run = s.run) =>
               g.item = s.item /\ g.qty = s.qty
        /\ \A c \in sent : (c.type = "PurchaseCompleted" /\ c.p = s.p) => c.run # s.run

\* Every outcome of the saga has its cause, and its last push told it.
OutcomeJustified ==
    \A p \in Purchases :
        /\ saga[p].state = "Completed" =>
               /\ Event("InventoryItemsGranted", p) \in sent
               /\ Event("GilDebited", p) \in sent
        /\ saga[p].state = "Faulted" =>
               \/ Event("GrantItemsFaulted", p) \in sent
               \/ Event("DebitGilFaulted", p) \in sent
        /\ saga[p].state \in Terminal => pushed[p] = saga[p].state

\* While Trading runs, a faulted purchase stays faulted and a completed one
\* changes only to faulted, only on the fault of its debit.
OutcomeStable ==
    [][\A p \in Purchases :
          (saga[p].state \in Terminal /\ restarts' = restarts) =>
              \/ saga'[p].state = saga[p].state
              \/ saga'[p].state = "Faulted" /\ Event("DebitGilFaulted", p) \in net]_sagaVars

\* While Trading runs, what an accepted purchase buys, and for how much, does
\* not change: not with the catalog's price, nor with another POST of its id.
TermsFixed ==
    [][\A p \in Purchases :
          (saga[p].state # "Initial" /\ restarts' = restarts) =>
              /\ saga'[p].state # "Initial"
              /\ saga'[p].item = saga[p].item
              /\ saga'[p].qty = saga[p].qty
              /\ saga'[p].total = saga[p].total]_sagaVars
================================================================================
