------------------------------ MODULE PurchaseBus ------------------------------
(***************************************************************************)
(* The messages Play.Trading, Play.Inventory and Play.Identity exchange to *)
(* carry out a purchase, and the RabbitMQ/MassTransit transport between    *)
(* them.                                                                   *)
(*                                                                         *)
(* A message stays queued until its handler returned and the broker saw    *)
(* the acknowledgement; queues are per consumer and handlers run           *)
(* concurrently, so messages are consumed in any order and net is a set.   *)
(* An acknowledgement can be lost with its channel: the message, with the  *)
(* MessageId it had, is then delivered again.                              *)
(***************************************************************************)
EXTENDS Naturals, FiniteSets

CONSTANTS
    Purchases,   \* idempotency ids; each is its saga's CorrelationId
    Users,
    Items,
    UserOf,      \* the user whose token submits each purchase
    Quantities,  \* quantities a purchase may ask for
    Prices       \* prices a catalog item may have

ASSUME PurchaseAssumption ==
    /\ UserOf \in [Purchases -> Users]
    /\ Quantities \subseteq Nat \ {0}
    /\ Prices \subseteq Nat

VARIABLES
    net,    \* messages queued and not yet acknowledged
    sent    \* every message a service ever sent or published

-----------------------------------------------------------------------------
(* Messages.  A command carries the part of its MessageId that the         *)
(* consumers' deduplication tells apart: the run of the sending process    *)
(* and a sequence number within the purchase.                              *)

Requests ==
    [type : {"PurchaseRequested"}, p : Purchases, item : Items, qty : Quantities]

ItemCommands ==
    [type : {"GrantItems", "SubtractItems"}, p : Purchases, item : Items,
     qty : Quantities, run : Nat, seq : Nat]

GilCommands ==
    [type : {"DebitGil", "PurchaseCompleted"}, p : Purchases, total : Nat,
     run : Nat, seq : Nat]

Replies ==
    [type : {"InventoryItemsGranted", "GilDebited", "InventoryItemsSubtracted"},
     p : Purchases]

\* Fault<T> messages: MassTransit publishes one when T's handler gave up.
Faults ==
    [type : {"PurchaseRequestedFaulted", "InventoryItemsGrantedFaulted",
             "GrantItemsFaulted", "DebitGilFaulted", "SubtractItemsFaulted"},
     p : Purchases]

PurchaseMessages == Requests \cup ItemCommands \cup GilCommands \cup Replies \cup Faults

\* A reply or a fault about purchase p.
Event(type, p) == [type |-> type, p |-> p]

\* What Trading's saga subscribes to.
SagaEvents ==
    {"PurchaseRequested", "InventoryItemsGranted", "GilDebited",
     "PurchaseRequestedFaulted", "InventoryItemsGrantedFaulted",
     "GrantItemsFaulted", "DebitGilFaulted"}

\* The types some handler of the purchase subscribes to.  RabbitMQ drops a
\* published message no queue is bound to, such as PurchaseCompleted or
\* Fault<SubtractItems>.
Subscribed == SagaEvents \cup {"GrantItems", "DebitGil", "SubtractItems"}

-----------------------------------------------------------------------------
(* Transport steps.                                                        *)

Routed(out) == {m \in out : m.type \in Subscribed}

Publish(out) ==
    /\ net' = net \cup Routed(out)
    /\ sent' = sent \cup out

\* The handler of m published out and returned; the broker forgets m.
Acknowledge(m, out) ==
    /\ net' = (net \ {m}) \cup Routed(out)
    /\ sent' = sent \cup out
================================================================================
