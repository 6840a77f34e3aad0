--------------------------- MODULE PurchaseSagaProofs ---------------------------
(***************************************************************************)
(* Proofs about PurchaseSaga, for any purchases, items, quantities, prices *)
(* and bounds.                                                             *)
(***************************************************************************)
EXTENDS PurchaseSaga, FiniteSetTheorems, TLAPS

-----------------------------------------------------------------------------
(* What a delivery leaves in the queues and in the history.                *)

\* The messages in out join the history, and those queued afterwards were
\* queued before or are in out.
Adds(out) == sent' = sent \cup out /\ net' \subseteq net \cup out

LEMMA FinishAdds ==
    ASSUME NEW m, NEW out, Finish(m, out)
    PROVE  Adds(out) /\ (mishaps' = mishaps \/ Mishap)
BY DEF Finish, Acknowledge, Publish, Routed, Adds, Mishap

LEMMA FlushAdds ==
    ASSUME NEW m, NEW out, Flush(m, out)
    PROVE  /\ Adds(out) \/ Adds(FaultOf(m)) \/ Adds({})
           /\ mishaps' = mishaps \/ Mishap
<1>1. CASE Finish(m, out)
  BY <1>1, FinishAdds
<1>2. CASE FlushFails(m)
  BY <1>2 DEF FlushFails, Acknowledge, Routed, Adds, Mishap
<1> QED
  BY <1>1, <1>2 DEF Flush

-----------------------------------------------------------------------------
(* Type correctness.  A command's sequence number is a cardinality, so the *)
(* invariant keeps the history finite.                                     *)

TInv == TypeOK /\ IsFiniteSet(sent)

LEMMA FaultOfType ==
    ASSUME NEW m \in PurchaseMessages
    PROVE  FaultOf(m) \subseteq PurchaseMessages /\ IsFiniteSet(FaultOf(m))
<1>1. m.p \in Purchases
  BY DEF PurchaseMessages, Requests, ItemCommands, GilCommands, Replies, Faults
<1>2. \A type \in FaultEvents : Event(type, m.p) \in PurchaseMessages
  BY <1>1 DEF FaultEvents, Event, PurchaseMessages, Faults
<1> QED
  BY <1>2, FS_EmptySet, FS_Singleton DEF FaultOf, FaultEvents

LEMMA NextSeqType ==
    ASSUME IsFiniteSet(sent), NEW type, NEW p
    PROVE  NextSeq(type, p) \in Nat
<1>1. IsFiniteSet({c \in sent : c.type = type /\ c.p = p})
  BY FS_Subset
<1> QED
  BY <1>1, FS_CardinalityType DEF NextSeq

LEMMA CommandType ==
    ASSUME TInv, NEW p \in Purchases, NEW s \in Instances
    PROVE  /\ \A type \in {"GrantItems", "SubtractItems"} :
                 ItemCommand(type, p, s) \in PurchaseMessages
           /\ \A type \in {"DebitGil", "PurchaseCompleted"} :
                 GilCommand(type, p, s) \in PurchaseMessages
<1>1. restarts \in Nat
  BY TradingAssumption DEF TInv, TypeOK
<1>2. \A type : NextSeq(type, p) \in Nat
  BY NextSeqType DEF TInv
<1>3. s.item \in Items /\ s.qty \in Quantities /\ s.total \in Nat
  BY DEF Instances
<1>4. \A type \in {"GrantItems", "SubtractItems"} : ItemCommand(type, p, s) \in ItemCommands
  BY <1>1, <1>2, <1>3 DEF ItemCommand, ItemCommands
<1>5. \A type \in {"DebitGil", "PurchaseCompleted"} : GilCommand(type, p, s) \in GilCommands
  BY <1>1, <1>2, <1>3 DEF GilCommand, GilCommands
<1> QED
  BY <1>4, <1>5 DEF PurchaseMessages

\* Adding well-typed messages keeps the queues and the history well typed.
LEMMA AddsType ==
    ASSUME TInv, NEW out \in SUBSET PurchaseMessages, IsFiniteSet(out), Adds(out)
    PROVE  /\ net' \subseteq PurchaseMessages /\ sent' \subseteq PurchaseMessages
           /\ IsFiniteSet(sent')
BY FS_Union DEF TInv, TypeOK, Adds

LEMMA MishapType ==
    ASSUME TInv, mishaps' = mishaps \/ Mishap
    PROVE  mishaps' \in 0..MaxMishaps
BY TradingAssumption DEF TInv, TypeOK, Mishap

\* A delivery that finishes with out, or loses it, keeps every variable the
\* outbox touches well typed.
LEMMA DeliveryType ==
    ASSUME TInv, NEW m \in net, NEW out \in SUBSET PurchaseMessages, IsFiniteSet(out),
           Finish(m, out) \/ Flush(m, out)
    PROVE  /\ net' \subseteq PurchaseMessages /\ sent' \subseteq PurchaseMessages
           /\ IsFiniteSet(sent')
           /\ mishaps' \in 0..MaxMishaps
<1>1. m \in PurchaseMessages
  BY DEF TInv, TypeOK
<1>2. Adds(out) \/ Adds(FaultOf(m)) \/ Adds({})
  BY FinishAdds, FlushAdds
<1>3. mishaps' \in 0..MaxMishaps
  BY FinishAdds, FlushAdds, MishapType
<1>4. IsFiniteSet({})
  BY FS_EmptySet
<1> QED
  BY <1>1, <1>2, <1>3, <1>4, AddsType, FaultOfType

\* The saga instance a handler leaves is well typed.
LEMMA InstanceType ==
    ASSUME TInv, NEW p \in Purchases, saga[p].state # "Initial"
    PROVE  /\ saga[p] \in Instances
           /\ \A s \in States \ {"Initial"} :
                 [saga EXCEPT ![p].state = s] \in [Purchases -> Instances \cup {NoInstance}]
           /\ \A e \in FaultEvents :
                 /\ [saga EXCEPT ![p].error = e] \in [Purchases -> Instances \cup {NoInstance}]
                 /\ [saga EXCEPT ![p].state = "Faulted", ![p].error = e]
                       \in [Purchases -> Instances \cup {NoInstance}]
<1>1. saga[p] \in Instances
  BY DEF TInv, TypeOK, NoInstance
<1>2. \A s \in States \ {"Initial"} : [saga[p] EXCEPT !.state = s] \in Instances
  BY <1>1 DEF Instances
<1>3. \A e \in FaultEvents : /\ [saga[p] EXCEPT !.error = e] \in Instances
                           /\ [saga[p] EXCEPT !.state = "Faulted", !.error = e] \in Instances
  BY <1>1 DEF Instances, States
<1> QED
  BY <1>1, <1>2, <1>3 DEF TInv, TypeOK

LEMMA SagaEventType ==
    ASSUME TInv, NEW m \in net
    PROVE  m \in PurchaseMessages /\ m.p \in Purchases
BY DEF TInv, TypeOK, PurchaseMessages, Requests, ItemCommands, GilCommands, Replies, Faults

LEMMA AcceptType ==
    ASSUME TInv, NEW m \in net, m.type = "PurchaseRequested", m.item \in DOMAIN price
    PROVE  [state |-> "Accepted", item |-> m.item, qty |-> m.qty,
            total |-> PurchaseTotal(m.item, m.qty), error |-> "none"] \in Instances
<1>1. m.item \in Items /\ m.qty \in Quantities
  BY DEF TInv, TypeOK, PurchaseMessages, Requests, ItemCommands, GilCommands, Replies, Faults
<1>2. m.qty \in Nat /\ price[m.item] \in Nat
  BY <1>1, PurchaseAssumption DEF TInv, TypeOK
<1>3. PurchaseTotal(m.item, m.qty) \in Nat
  BY <1>2 DEF PurchaseTotal
<1> QED
  BY <1>1, <1>3 DEF Instances, States

LEMMA TypeInit == Init => TInv
<1> SUFFICES ASSUME Init PROVE TInv
  OBVIOUS
<1>1. IsFiniteSet(sent)
  BY FS_EmptySet DEF Init
<1>2. DOMAIN price \subseteq Items /\ price \in [DOMAIN price -> Prices]
  BY DEF Init, TradingInit
<1> QED
  BY <1>1, <1>2, TradingAssumption DEF Init, TradingInit, TInv, TypeOK, States

LEMMA TypeStep == TInv /\ [Next]_sagaVars => TInv'
<1> SUFFICES ASSUME TInv, [Next]_sagaVars PROVE TInv'
  OBVIOUS
<1> DEFINE Sagas == [Purchases -> Instances \cup {NoInstance}]
<1>1. ASSUME NEW m \in net, HandleEvent(m) PROVE TInv'
  <2>1. m \in PurchaseMessages /\ m.p \in Purchases
    BY SagaEventType
  <2>2. SUFFICES /\ net' \subseteq PurchaseMessages /\ sent' \subseteq PurchaseMessages
                 /\ IsFiniteSet(sent') /\ mishaps' \in 0..MaxMishaps
                 /\ saga' \in Sagas
                 /\ pushed' \in [Purchases -> States \cup {"none"}]
                 /\ UNCHANGED <<price, restarts>>
    BY DEF TInv, TypeOK
  <2>3. IsFiniteSet({})
    BY FS_EmptySet
  <2>4. /\ saga \in Sagas /\ pushed \in [Purchases -> States \cup {"none"}]
        /\ \A s \in States : [pushed EXCEPT ![m.p] = s] \in [Purchases -> States \cup {"none"}]
    BY <2>1 DEF TInv, TypeOK
  <2>5. CASE AcceptPurchase(m)
    <3> DEFINE s == [state |-> "Accepted", item |-> m.item, qty |-> m.qty,
                     total |-> PurchaseTotal(m.item, m.qty), error |-> "none"]
               out == {ItemCommand("GrantItems", m.p, s)}
    <3>1. s \in Instances
      BY <2>5, AcceptType DEF AcceptPurchase
    <3>2. out \subseteq PurchaseMessages /\ IsFiniteSet(out)
      BY <2>1, <3>1, CommandType, FS_Singleton
    <3>3. Flush(m, out) /\ saga' = [saga EXCEPT ![m.p] = s] /\ UNCHANGED <<pushed, price, restarts>>
      BY <2>5 DEF AcceptPurchase
    <3> HIDE DEF s, out
    <3> QED
      BY <2>4, <3>1, <3>2, <3>3, DeliveryType
  <2>6. CASE RejectPurchase(m)
    <3>1. Finish(m, FaultOf(m)) /\ UNCHANGED <<saga, pushed, price, restarts>>
      BY <2>6 DEF RejectPurchase
    <3> QED
      BY <2>1, <2>4, <3>1, FaultOfType, DeliveryType
  <2>7. CASE DebitForItems(m) \/ CompletePurchase(m) \/ CompensatePurchase(m)
    <3>1. saga[m.p].state # "Initial"
      BY <2>7 DEF DebitForItems, CompletePurchase, CompensatePurchase, AwaitsGrant, AwaitsDebit
    <3>2. /\ saga[m.p] \in Instances
          /\ \A s \in States \ {"Initial"} : [saga EXCEPT ![m.p].state = s] \in Sagas
          /\ [saga EXCEPT ![m.p].state = "Faulted", ![m.p].error = "DebitGilFaulted"] \in Sagas
      BY <2>1, <3>1, InstanceType DEF FaultEvents
    <3>3. saga' \in Sagas /\ pushed' \in [Purchases -> States \cup {"none"}]
          /\ UNCHANGED <<price, restarts>>
      BY <2>4, <2>7, <3>2 DEF DebitForItems, CompletePurchase, CompensatePurchase,
                              SetState, SetFaulted, SendStatus, States
    <3>4. PICK c \in PurchaseMessages : Flush(m, {c})
      BY <2>1, <2>7, <3>2, CommandType DEF DebitForItems, CompletePurchase, CompensatePurchase
    <3>5. IsFiniteSet({c})
      BY FS_Singleton
    <3> QED
      BY <3>3, <3>4, <3>5, DeliveryType
  <2>8. CASE FaultOnGrant(m) \/ LateDebitFault(m) \/ RecordFault(m)
    <3>1. saga[m.p].state # "Initial" /\ m.type \in FaultEvents
      BY <2>8 DEF FaultOnGrant, LateDebitFault, RecordFault, AwaitsGrant, FaultEvents
    <3>2. /\ [saga EXCEPT ![m.p].error = m.type] \in Sagas
          /\ [saga EXCEPT ![m.p].state = "Faulted", ![m.p].error = m.type] \in Sagas
          /\ saga[m.p].state \in States
      BY <2>1, <3>1, InstanceType DEF Instances
    <3>3. saga' \in Sagas /\ pushed' \in [Purchases -> States \cup {"none"}]
          /\ UNCHANGED <<price, restarts>> /\ Finish(m, {})
      BY <2>4, <2>8, <3>2 DEF FaultOnGrant, LateDebitFault, RecordFault,
                              SetFaulted, SendStatus, States
    <3> QED
      BY <2>3, <3>3, DeliveryType
  <2>9. CASE IgnoreEvent(m) \/ UnhandledEvent(m)
    <3>1. Finish(m, {}) /\ UNCHANGED <<saga, pushed, price, restarts>>
      BY <2>9 DEF IgnoreEvent, UnhandledEvent
    <3> QED
      BY <2>3, <2>4, <3>1, DeliveryType
  <2> QED
    BY <1>1, <2>5, <2>6, <2>7, <2>8, <2>9 DEF HandleEvent
<1>2. ASSUME NEW p \in Purchases, NEW i \in Items, NEW q \in Quantities, SubmitPurchase(p, i, q)
      PROVE  TInv'
  <2>1. [type |-> "PurchaseRequested", p |-> p, item |-> i, qty |-> q] \in PurchaseMessages
    BY DEF PurchaseMessages, Requests
  <2> QED
    BY <1>2, <2>1 DEF SubmitPurchase, TInv, TypeOK, tradingVars
<1>3. ASSUME NEW i \in Items, NEW c \in Prices,
             CatalogItemCreated(i, c) \/ CatalogItemUpdated(i, c)
      PROVE  TInv'
  BY <1>3 DEF CatalogItemCreated, CatalogItemUpdated, TInv, TypeOK
<1>4. CASE TradingRestart
  BY <1>4, TradingAssumption DEF TradingRestart, TInv, TypeOK
<1>5. ASSUME NEW m \in net, ServiceStep(m) PROVE TInv'
  <2>1. m.p \in Purchases
    BY SagaEventType
  <2>2. \A a \in Answers(m) : a \in PurchaseMessages
    BY <1>5, <2>1 DEF ServiceStep, Answers, Event, PurchaseMessages, Replies, Faults
  <2>3. PICK out \in SUBSET PurchaseMessages : IsFiniteSet(out) /\ Adds(out)
    <3>1. PICK out \in SUBSET Answers(m) : Adds(out)
      BY <1>5 DEF ServiceStep, Publish, Acknowledge, Routed, Adds
    <3>2. IsFiniteSet(Answers(m))
      <4>1. ASSUME NEW a, NEW b PROVE IsFiniteSet({a, b})
        <5>1. IsFiniteSet({a})
          BY FS_Singleton
        <5>2. IsFiniteSet({a} \cup {b})
          BY <5>1, FS_AddElement
        <5>3. {a, b} = {a} \cup {b}
          OBVIOUS
        <5> QED
          BY <5>2, <5>3, Zenon
      <4>2. \/ Answers(m) = {Event("InventoryItemsGranted", m.p), Event("GrantItemsFaulted", m.p)}
            \/ Answers(m) = {Event("GilDebited", m.p), Event("DebitGilFaulted", m.p)}
            \/ Answers(m) = {Event("InventoryItemsSubtracted", m.p),
                            Event("SubtractItemsFaulted", m.p)}
        BY <1>5 DEF ServiceStep, Answers
      <4> QED
        BY <4>1, <4>2
    <3>3. IsFiniteSet(out)
      BY <3>1, <3>2, FS_Subset
    <3> QED
      BY <2>2, <3>1, <3>3
  <2>4. UNCHANGED tradingVars
    BY <1>5 DEF ServiceStep
  <2> QED
    BY <2>3, <2>4, AddsType DEF TInv, TypeOK, tradingVars
<1>6. CASE UNCHANGED sagaVars
  BY <1>6 DEF sagaVars, TInv, TypeOK
<1> QED
  BY <1>1, <1>2, <1>3, <1>4, <1>5, <1>6 DEF Next, TradingNext

-----------------------------------------------------------------------------
(* The safety invariant.  None of the properties about the history is      *)
(* inductive alone: that a new command is the first of its type needs the  *)
(* types the run can have sent in the saga's state, that it agrees with an *)
(* earlier one needs the terms the saga remembers, and that its cause      *)
(* happened needs the queued reply to have been sent.                      *)

SentIn == [Initial      |-> {},
           Accepted     |-> {"GrantItems"},
           ItemsGranted |-> {"GrantItems", "DebitGil"},
           Completed    |-> {"GrantItems", "DebitGil", "PurchaseCompleted"},
           Faulted      |-> CommandTypes]

\* The commands this run of Trading sent for p.
Issued(p) == {c \in sent : c.type \in CommandTypes /\ c.p = p /\ c.run = restarts}

\* Command c is on the terms of instance s.
Matches(c, s) ==
    /\ c.type \in {"GrantItems", "SubtractItems"} => c.item = s.item /\ c.qty = s.qty
    /\ c.type = "DebitGil" => c.total = s.total

Priced(s) == \E c \in Prices : s.total = c * s.qty

QueuedWereSent == \A m \in net : m.type # "PurchaseRequested" => m \in sent
RunsBounded == \A c \in sent : c.type \in CommandTypes => c.run \in 0..restarts
IssuedInState == \A p \in Purchases : \A c \in Issued(p) : c.type \in SentIn[saga[p].state]
IssuedMatch == \A p \in Purchases : \A c \in Issued(p) : Matches(c, saga[p])
InstancesPriced == \A p \in Purchases : saga[p].state # "Initial" => Priced(saga[p])
GrantWasReported ==
    \A p \in Purchases : saga[p].state = "ItemsGranted" =>
        Event("InventoryItemsGranted", p) \in sent

Bookkeeping == /\ QueuedWereSent /\ RunsBounded /\ IssuedInState /\ IssuedMatch
               /\ InstancesPriced /\ GrantWasReported
Safety == /\ CommandsUnique /\ DebitForGrantedItems
          /\ CompensationMirrorsGrant /\ OutcomeJustified
SInv == TInv /\ Bookkeeping /\ Safety

\* While Trading runs, an instance's terms do not change.
TermsKept ==
    \A p \in Purchases : saga[p].state # "Initial" =>
        /\ saga'[p].state # "Initial"
        /\ saga'[p].item = saga[p].item
        /\ saga'[p].qty = saga[p].qty
        /\ saga'[p].total = saga[p].total

NewCommands == {c \in sent' \ sent : c.type \in CommandTypes}

\* What every step but a restart does to the history and to the instances.
Shape ==
    /\ restarts' = restarts
    /\ sent \subseteq sent'
    /\ \A m \in net' : m.type # "PurchaseRequested" => m \in net \/ m \in sent'
    /\ \A p \in Purchases : SentIn[saga[p].state] \subseteq SentIn[saga'[p].state]
    /\ \A d, e \in NewCommands : d = e
    /\ \A d \in NewCommands :
          /\ d.p \in Purchases /\ d.run = restarts
          /\ d.type \in SentIn[saga'[d.p].state] \ SentIn[saga[d.p].state]
          /\ Matches(d, saga'[d.p])
          /\ d.type = "DebitGil" => Event("InventoryItemsGranted", d.p) \in net
          /\ d.type = "SubtractItems" =>
                 saga[d.p].state = "ItemsGranted" /\ Event("DebitGilFaulted", d.p) \in net
    /\ TermsKept
    /\ \A p \in Purchases :
          (saga[p].state = "Initial" /\ saga'[p].state # "Initial") => Priced(saga'[p])

\* How an instance's state changes, and with what cause.
Caused ==
    \A p \in Purchases : saga'[p].state # saga[p].state =>
        /\ saga'[p].state = "ItemsGranted" => Event("InventoryItemsGranted", p) \in net
        /\ saga'[p].state = "Completed" =>
               saga[p].state = "ItemsGranted" /\ Event("GilDebited", p) \in net
        /\ saga'[p].state = "Faulted" =>
               \/ saga[p].state = "Accepted" /\ Event("GrantItemsFaulted", p) \in net
               \/ Event("DebitGilFaulted", p) \in net
        /\ saga'[p].state \in Terminal => pushed'[p] = saga'[p].state
Pushed ==
    \A p \in Purchases :
        (saga'[p].state = saga[p].state /\ saga[p].state # "Initial") =>
            pushed'[p] \in {pushed[p], saga[p].state}

-----------------------------------------------------------------------------
(* The shape keeps the invariant.                                          *)

LEMMA ShapeKeepsBookkeeping ==
    ASSUME SInv, TInv', Shape, Caused
    PROVE  Bookkeeping'
<1>1. QueuedWereSent'
  BY DEF SInv, Bookkeeping, QueuedWereSent, Shape
<1>2. RunsBounded'
  BY TradingAssumption DEF SInv, TInv, TypeOK, Bookkeeping, RunsBounded, Shape, NewCommands
<1>3. ASSUME NEW p \in Purchases, NEW c \in Issued(p)'
      PROVE  c.type \in SentIn[saga'[p].state] /\ Matches(c, saga'[p])
  <2>1. c \in sent' /\ c.type \in CommandTypes /\ c.p = p /\ c.run = restarts
    BY <1>3 DEF Issued, Shape
  <2>2. CASE c \in sent
    <3>1. c \in Issued(p)
      BY <2>1, <2>2 DEF Issued
    <3>2. c.type \in SentIn[saga[p].state] /\ Matches(c, saga[p])
      BY <3>1 DEF SInv, Bookkeeping, IssuedInState, IssuedMatch
    <3>3. saga[p].state # "Initial"
      BY <3>2 DEF SentIn
    <3> QED
      BY <3>2, <3>3 DEF Shape, TermsKept, Matches
  <2>3. CASE c \notin sent
    BY <2>1, <2>3 DEF Shape, NewCommands
  <2> QED
    BY <2>2, <2>3
<1>4. IssuedInState' /\ IssuedMatch'
  BY <1>3 DEF IssuedInState, IssuedMatch
<1>5. InstancesPriced'
  BY DEF SInv, Bookkeeping, InstancesPriced, Shape, TermsKept, Priced
<1>6. GrantWasReported'
  <2> SUFFICES ASSUME NEW p \in Purchases, saga'[p].state = "ItemsGranted"
               PROVE  Event("InventoryItemsGranted", p) \in sent'
    BY DEF GrantWasReported, Event
  <2>1. CASE saga[p].state = "ItemsGranted"
    BY <2>1 DEF SInv, Bookkeeping, GrantWasReported, Shape
  <2>2. CASE saga[p].state # "ItemsGranted"
    BY <2>2 DEF Caused, SInv, Bookkeeping, QueuedWereSent, Shape, Event
  <2> QED
    BY <2>1, <2>2
<1> QED
  BY <1>1, <1>2, <1>4, <1>5, <1>6 DEF Bookkeeping

LEMMA ShapeKeepsUnique ==
    ASSUME SInv, Shape
    PROVE  CommandsUnique'
<1> SUFFICES ASSUME NEW c \in sent', NEW d \in sent',
                    c.type \in CommandTypes, d.type = c.type, d.p = c.p, d.run = c.run
             PROVE  c = d
  BY DEF CommandsUnique
\* A command of this run in the history has a type the state allows.
<1>1. ASSUME NEW new \in NewCommands, NEW old \in sent,
             old.type = new.type, old.p = new.p, old.run = new.run
      PROVE  FALSE
  <2>1. new.p \in Purchases /\ old \in Issued(new.p)
    BY <1>1 DEF Shape, NewCommands, Issued
  <2>2. old.type \in SentIn[saga[new.p].state]
    BY <2>1 DEF SInv, Bookkeeping, IssuedInState
  <2> QED
    BY <1>1, <2>2 DEF Shape
<1>2. CASE c \in sent /\ d \in sent
  BY <1>2 DEF SInv, Safety, CommandsUnique
<1>3. CASE c \notin sent /\ d \notin sent
  BY <1>3 DEF Shape, NewCommands
<1>4. CASE c \in sent /\ d \notin sent
  BY <1>1, <1>4 DEF NewCommands
<1>5. CASE c \notin sent /\ d \in sent
  BY <1>1, <1>5 DEF NewCommands
<1> QED
  BY <1>2, <1>3, <1>4, <1>5
LEMMA ShapeKeepsDebits ==
    ASSUME SInv, Bookkeeping', Shape
    PROVE  DebitForGrantedItems'
<1> SUFFICES ASSUME NEW d \in sent', d.type = "DebitGil"
             PROVE  /\ Event("InventoryItemsGranted", d.p) \in sent'
                    /\ \A g \in sent' : (g.type = "GrantItems" /\ g.p = d.p /\ g.run = d.run) =>
                           \E c \in Prices : d.total = c * g.qty
  BY DEF DebitForGrantedItems, Event
<1>1. Event("InventoryItemsGranted", d.p) \in sent'
  <2>1. CASE d \in sent
    BY <2>1 DEF SInv, Safety, DebitForGrantedItems, Shape
  <2>2. CASE d \notin sent
    BY <2>2 DEF NewCommands, CommandTypes, Shape, SInv, Bookkeeping, QueuedWereSent, Event
  <2> QED
    BY <2>1, <2>2
<1>2. ASSUME NEW g \in sent', g.type = "GrantItems", g.p = d.p, g.run = d.run
      PROVE  \E c \in Prices : d.total = c * g.qty
  <2>1. CASE d \in sent /\ g \in sent
    BY <1>2, <2>1 DEF SInv, Safety, DebitForGrantedItems
  <2>2. CASE d \notin sent \/ g \notin sent
    <3>1. d.p \in Purchases /\ d.run = restarts
      BY <1>2, <2>2 DEF NewCommands, CommandTypes, Shape
    <3>2. d \in Issued(d.p)' /\ g \in Issued(d.p)'
      BY <1>2, <3>1 DEF Issued, CommandTypes, Shape
    <3>3. d.total = saga'[d.p].total /\ g.qty = saga'[d.p].qty
      BY <1>2, <3>1, <3>2 DEF Bookkeeping, IssuedMatch, Matches
    <3>4. d.type \in SentIn[saga'[d.p].state]
      BY <3>1, <3>2 DEF Bookkeeping, IssuedInState
    <3>5. saga'[d.p].state # "Initial"
      BY <3>4 DEF SentIn
    <3> QED
      BY <3>1, <3>3, <3>5 DEF Bookkeeping, InstancesPriced, Priced
  <2> QED
    BY <2>1, <2>2
<1> QED
  BY <1>1, <1>2

LEMMA ShapeKeepsCompensation ==
    ASSUME SInv, Bookkeeping', Shape
    PROVE  CompensationMirrorsGrant'
<1> SUFFICES ASSUME NEW s \in sent', s.type = "SubtractItems"
             PROVE  /\ Event("DebitGilFaulted", s.p) \in sent'
                    /\ \A g \in sent' : (g.type = "GrantItems" /\ g.p = s.p /\ g.run = s.run) =>
                           g.item = s.item /\ g.qty = s.qty
                    /\ \A c \in sent' : (c.type = "PurchaseCompleted" /\ c.p = s.p) => c.run # s.run
  BY DEF CompensationMirrorsGrant, Event
<1>1. Event("DebitGilFaulted", s.p) \in sent'
  <2>1. CASE s \in sent
    BY <2>1 DEF SInv, Safety, CompensationMirrorsGrant, Shape
  <2>2. CASE s \notin sent
    BY <2>2 DEF NewCommands, CommandTypes, Shape, SInv, Bookkeeping, QueuedWereSent, Event
  <2> QED
    BY <2>1, <2>2
<1>2. ASSUME NEW g \in sent', g.type = "GrantItems", g.p = s.p, g.run = s.run
      PROVE  g.item = s.item /\ g.qty = s.qty
  <2>1. CASE s \in sent /\ g \in sent
    BY <1>2, <2>1 DEF SInv, Safety, CompensationMirrorsGrant
  <2>2. CASE s \notin sent \/ g \notin sent
    <3>1. s.p \in Purchases /\ s.run = restarts
      BY <1>2, <2>2 DEF NewCommands, CommandTypes, Shape
    <3>2. s \in Issued(s.p)' /\ g \in Issued(s.p)'
      BY <1>2, <3>1 DEF Issued, CommandTypes, Shape
    <3> QED
      BY <1>2, <3>1, <3>2 DEF Bookkeeping, IssuedMatch, Matches
  <2> QED
    BY <2>1, <2>2
<1>3. ASSUME NEW c \in sent', c.type = "PurchaseCompleted", c.p = s.p, c.run = s.run
      PROVE  FALSE
  <2>1. CASE s \in sent /\ c \in sent
    BY <1>3, <2>1 DEF SInv, Safety, CompensationMirrorsGrant
  \* The state that sends one excludes that the other was sent.
  <2>2. CASE s \notin sent /\ c \in sent
    <3>1. /\ s.p \in Purchases /\ s.run = restarts /\ saga[s.p].state = "ItemsGranted"
      BY <2>2 DEF NewCommands, CommandTypes, Shape
    <3>2. c \in Issued(s.p)
      BY <1>3, <2>2, <3>1 DEF Issued, CommandTypes
    <3> QED
      BY <1>3, <3>1, <3>2 DEF SInv, Bookkeeping, IssuedInState, SentIn
  <2>3. CASE s \in sent /\ c \notin sent
    <3>1. /\ c.p \in Purchases /\ c.run = restarts
          /\ c.type \notin SentIn[saga[c.p].state]
      BY <1>3, <2>3 DEF NewCommands, CommandTypes, Shape
    <3>2. s \in Issued(c.p)
      BY <1>3, <2>3, <3>1 DEF Issued, CommandTypes
    <3>3. s.type \in SentIn[saga[c.p].state] /\ saga[c.p].state \in States
      BY <3>1, <3>2 DEF SInv, Bookkeeping, IssuedInState, TInv, TypeOK, Instances, NoInstance, States
    <3> QED
      BY <1>3, <3>1, <3>3 DEF SentIn, States, CommandTypes
  <2>4. CASE s \notin sent /\ c \notin sent
    BY <1>3, <2>4 DEF NewCommands, CommandTypes, Shape
  <2> QED
    BY <2>1, <2>2, <2>3, <2>4
<1> QED
  BY <1>1, <1>2, <1>3

LEMMA ShapeKeepsOutcome ==
    ASSUME SInv, TInv', Shape, Caused, Pushed
    PROVE  OutcomeJustified'
<1> SUFFICES ASSUME NEW p \in Purchases
             PROVE  /\ saga'[p].state = "Completed" =>
                           /\ Event("InventoryItemsGranted", p) \in sent'
                           /\ Event("GilDebited", p) \in sent'
                    /\ saga'[p].state = "Faulted" =>
                           \/ Event("GrantItemsFaulted", p) \in sent'
                           \/ Event("DebitGilFaulted", p) \in sent'
                    /\ saga'[p].state \in Terminal => pushed'[p] = saga'[p].state
  BY DEF OutcomeJustified, Event
<1>1. \A type \in SagaEvents \ {"PurchaseRequested"} :
         Event(type, p) \in net => Event(type, p) \in sent'
  BY DEF SInv, Bookkeeping, QueuedWereSent, Shape, Event
<1>2. CASE saga'[p].state = saga[p].state
  <2>1. saga[p].state \in Terminal => pushed'[p] = saga[p].state
    BY <1>2 DEF Pushed, SInv, Safety, OutcomeJustified, Terminal
  <2> QED
    BY <1>2, <2>1 DEF SInv, Safety, OutcomeJustified, Shape
<1>3. CASE saga'[p].state # saga[p].state
  <2>1. saga'[p].state = "Completed" => Event("InventoryItemsGranted", p) \in sent'
    BY <1>3 DEF Caused, SInv, Bookkeeping, GrantWasReported, Shape
  <2> QED
    BY <1>1, <1>3, <2>1 DEF Caused, SagaEvents
<1> QED
  BY <1>2, <1>3

LEMMA ShapeKeepsInvariant ==
    ASSUME SInv, TInv', Shape, Caused, Pushed
    PROVE  SInv'
<1>1. Bookkeeping'
  BY ShapeKeepsBookkeeping
<1>2. Safety'
  BY <1>1, ShapeKeepsUnique, ShapeKeepsDebits, ShapeKeepsCompensation, ShapeKeepsOutcome DEF Safety
<1> QED
  BY <1>1, <1>2 DEF SInv
-----------------------------------------------------------------------------
(* Every step but a restart has the shape.                                 *)

LEMMA EventOf ==
    ASSUME TInv, NEW m \in net, m.type \in SagaEvents \ {"PurchaseRequested"}
    PROVE  m = Event(m.type, m.p)
BY DEF TInv, TypeOK, PurchaseMessages, Requests, ItemCommands, GilCommands, Replies, Faults,
       SagaEvents, Event

LEMMA FaultOfNoCommand ==
    ASSUME NEW m, NEW c \in FaultOf(m)
    PROVE  c.type \notin CommandTypes
<1>1. CASE m.type = "PurchaseRequested"
  BY <1>1 DEF FaultOf, Event, CommandTypes
<1>2. CASE m.type = "InventoryItemsGranted"
  BY <1>2 DEF FaultOf, Event, CommandTypes
<1>3. CASE m.type \notin {"PurchaseRequested", "InventoryItemsGranted"}
  BY <1>3 DEF FaultOf
<1> QED
  BY <1>1, <1>2, <1>3

\* The part of the shape that is about the history, for a delivery that sends c.
LEMMA SendsOne ==
    ASSUME NEW m, NEW c, Adds({c}) \/ Adds(FaultOf(m)) \/ Adds({})
    PROVE  /\ sent \subseteq sent'
           /\ \A n \in net' : n \in net \/ n \in sent'
           /\ NewCommands \subseteq {c}
BY FaultOfNoCommand DEF Adds, NewCommands

LEMMA SendsNone ==
    ASSUME NEW m, Adds(FaultOf(m)) \/ Adds({})
    PROVE  /\ sent \subseteq sent'
           /\ \A n \in net' : n \in net \/ n \in sent'
           /\ NewCommands = {}
BY FaultOfNoCommand DEF Adds, NewCommands

LEMMA AcceptShape ==
    ASSUME SInv, NEW m \in net, AcceptPurchase(m)
    PROVE  Shape /\ Caused /\ Pushed
<1> DEFINE s == [state |-> "Accepted", item |-> m.item, qty |-> m.qty,
                 total |-> PurchaseTotal(m.item, m.qty), error |-> "none"]
           c == ItemCommand("GrantItems", m.p, s)
<1>1. m.p \in Purchases /\ saga[m.p].state = "Initial" /\ m.type = "PurchaseRequested"
  BY SagaEventType DEF SInv, AcceptPurchase, NoSaga
<1>2. /\ Flush(m, {c}) /\ saga' = [saga EXCEPT ![m.p] = s]
      /\ UNCHANGED <<pushed, price, restarts>>
  BY DEF AcceptPurchase
<1>3. /\ sent \subseteq sent'
      /\ \A n \in net' : n \in net \/ n \in sent'
      /\ NewCommands \subseteq {c}
  BY <1>2, FlushAdds, SendsOne
<1>4. saga'[m.p] = s /\ \A q \in Purchases : q # m.p => saga'[q] = saga[q]
  BY <1>1, <1>2 DEF SInv, TInv, TypeOK
<1>5. /\ c.type = "GrantItems" /\ c.p = m.p /\ c.run = restarts
      /\ c.item = s.item /\ c.qty = s.qty
  BY DEF ItemCommand
<1>6. Priced(s)
  <2>1. price[m.item] \in Prices
    BY DEF AcceptPurchase, SInv, TInv, TypeOK
  <2> QED
    BY <2>1 DEF Priced, PurchaseTotal
<1>7. s.state = "Accepted"
  OBVIOUS
<1> HIDE DEF s, c
<1>8. Shape
  <2>1. \A p \in Purchases : SentIn[saga[p].state] \subseteq SentIn[saga'[p].state]
    BY <1>1, <1>4, <1>7 DEF SentIn
  <2>2. \A d \in NewCommands :
          /\ d.p \in Purchases /\ d.run = restarts
          /\ d.type \in SentIn[saga'[d.p].state] \ SentIn[saga[d.p].state]
          /\ Matches(d, saga'[d.p])
          /\ d.type # "DebitGil" /\ d.type # "SubtractItems"
    BY <1>1, <1>3, <1>4, <1>5, <1>7 DEF SentIn, Matches
  <2>3. TermsKept
    BY <1>1, <1>4 DEF TermsKept
  <2> QED
    BY <1>2, <1>3, <1>4, <1>6, <2>1, <2>2, <2>3 DEF Shape
<1>9. Caused /\ Pushed
  BY <1>1, <1>2, <1>4, <1>7 DEF Caused, Pushed, Terminal
<1> QED
  BY <1>8, <1>9

\* A handler that keeps every instance and sends no command.
LEMMA IdleShape ==
    ASSUME SInv, UNCHANGED <<saga, pushed, restarts>>,
           sent \subseteq sent', \A n \in net' : n.type # "PurchaseRequested" => n \in net \/ n \in sent',
           NewCommands = {}
    PROVE  Shape /\ Caused /\ Pushed
BY DEF Shape, Caused, Pushed, TermsKept

\* The instance of p moves to state st, which allows all its old state did.
Moves(p, st) ==
    /\ saga[p].state \notin {"Initial", st} /\ st \in States \ {"Initial"}
    /\ SentIn[saga[p].state] \subseteq SentIn[st]
    /\ saga' \in [Purchases -> Instances \cup {NoInstance}]
    /\ saga'[p].state = st /\ saga'[p].item = saga[p].item
    /\ saga'[p].qty = saga[p].qty /\ saga'[p].total = saga[p].total
    /\ \A q \in Purchases : q # p => saga'[q] = saga[q] /\ pushed'[q] = pushed[q]
    /\ st \in Terminal => pushed'[p] = st
    /\ restarts' = restarts

\* It does so on an event that is the cause.
OnCause(p, st) ==
    /\ st = "ItemsGranted" => Event("InventoryItemsGranted", p) \in net
    /\ st = "Completed" => saga[p].state = "ItemsGranted" /\ Event("GilDebited", p) \in net
    /\ st = "Faulted" => \/ saga[p].state = "Accepted" /\ Event("GrantItemsFaulted", p) \in net
                         \/ Event("DebitGilFaulted", p) \in net

\* And sends at most c, which the new state allows and the old did not.
SendsAtMost(p, st, c) ==
    /\ sent \subseteq sent' /\ \A n \in net' : n \in net \/ n \in sent'
    /\ NewCommands \subseteq {c}
    /\ c \in NewCommands =>
           /\ c.p = p /\ c.run = restarts
           /\ c.type \in SentIn[st] \ SentIn[saga[p].state]
           /\ Matches(c, saga[p])
           /\ c.type = "DebitGil" => st = "ItemsGranted"
           /\ c.type = "SubtractItems" =>
                 saga[p].state = "ItemsGranted" /\ Event("DebitGilFaulted", p) \in net

LEMMA MoveShape ==
    ASSUME SInv, NEW p \in Purchases, NEW st, NEW c,
           Moves(p, st), OnCause(p, st), SendsAtMost(p, st, c)
    PROVE  Shape /\ Caused /\ Pushed
<1>1. \A q \in Purchases : SentIn[saga[q].state] \subseteq SentIn[saga'[q].state]
  BY DEF Moves
<1>2. TermsKept
  BY DEF Moves, TermsKept
<1>3. ASSUME NEW d \in NewCommands
      PROVE  /\ d.p \in Purchases /\ d.run = restarts
             /\ d.type \in SentIn[saga'[d.p].state] \ SentIn[saga[d.p].state]
             /\ Matches(d, saga'[d.p])
             /\ d.type = "DebitGil" => Event("InventoryItemsGranted", d.p) \in net
             /\ d.type = "SubtractItems" =>
                    saga[d.p].state = "ItemsGranted" /\ Event("DebitGilFaulted", d.p) \in net
  <2>1. d = c
    BY DEF SendsAtMost
  <2>2. /\ d.p = p /\ d.run = restarts /\ d.type \in SentIn[st] \ SentIn[saga[p].state]
        /\ d.type = "DebitGil" => st = "ItemsGranted"
        /\ d.type = "SubtractItems" =>
                 saga[p].state = "ItemsGranted" /\ Event("DebitGilFaulted", p) \in net
    BY <2>1 DEF SendsAtMost
  <2>3. Matches(d, saga'[p])
    BY <2>1 DEF SendsAtMost, Moves, Matches
  <2> QED
    BY <2>2, <2>3 DEF Moves, OnCause
<1>4. \A d, e \in NewCommands : d = e
  BY DEF SendsAtMost
<1>5. Shape
  BY <1>1, <1>2, <1>3, <1>4 DEF Shape, Moves, SendsAtMost
<1>6. Caused /\ Pushed
  BY DEF Moves, OnCause, Caused, Pushed
<1> QED
  BY <1>5, <1>6

LEMMA DebitShape ==
    ASSUME SInv, NEW m \in net, DebitForItems(m)
    PROVE  Shape /\ Caused /\ Pushed
<1> DEFINE c == GilCommand("DebitGil", m.p, saga[m.p])
<1>1. /\ m.p \in Purchases /\ saga[m.p].state = "Accepted"
      /\ Event("InventoryItemsGranted", m.p) \in net
  BY SagaEventType, EventOf DEF SInv, DebitForItems, AwaitsGrant, SagaEvents
<1>2. saga[m.p] \in Instances
  BY <1>1, InstanceType DEF SInv
<1>3. /\ saga' = [saga EXCEPT ![m.p].state = "ItemsGranted"] /\ Flush(m, {c})
      /\ UNCHANGED <<pushed, restarts>>
  BY DEF DebitForItems, SetState
<1>4. /\ sent \subseteq sent'
      /\ \A n \in net' : n \in net \/ n \in sent'
      /\ NewCommands \subseteq {c}
  BY <1>3, FlushAdds, SendsOne
<1>5. /\ c.type = "DebitGil" /\ c.p = m.p /\ c.run = restarts /\ c.total = saga[m.p].total
  BY DEF GilCommand
<1>6. saga' \in [Purchases -> Instances \cup {NoInstance}]
  BY <1>1, <1>3, InstanceType DEF SInv, States
<1>7. /\ saga'[m.p] = [saga[m.p] EXCEPT !.state = "ItemsGranted"]
      /\ \A q \in Purchases : q # m.p => saga'[q] = saga[q]
  BY <1>1, <1>3 DEF SInv, TInv, TypeOK
<1>8. /\ saga'[m.p].state = "ItemsGranted" /\ saga'[m.p].item = saga[m.p].item
      /\ saga'[m.p].qty = saga[m.p].qty /\ saga'[m.p].total = saga[m.p].total
  BY <1>2, <1>7 DEF Instances
<1>9. Matches(c, saga[m.p])
  BY <1>5 DEF Matches
<1> HIDE DEF c
<1>10. SentIn[saga[m.p].state] \subseteq SentIn["ItemsGranted"] /\ "DebitGil" \in SentIn["ItemsGranted"] \ SentIn[saga[m.p].state]
  BY <1>1 DEF SentIn
<1>11. Moves(m.p, "ItemsGranted")
  BY <1>1, <1>3, <1>6, <1>7, <1>8, <1>10 DEF Moves, States, Terminal
<1>12. OnCause(m.p, "ItemsGranted")
  BY <1>1 DEF OnCause
<1>13. SendsAtMost(m.p, "ItemsGranted", c)
  BY <1>4, <1>5, <1>9, <1>10 DEF SendsAtMost
<1> QED
  BY <1>1, <1>11, <1>12, <1>13, MoveShape

LEMMA CompleteShape ==
    ASSUME SInv, NEW m \in net, CompletePurchase(m)
    PROVE  Shape /\ Caused /\ Pushed
<1> DEFINE c == GilCommand("PurchaseCompleted", m.p, saga[m.p])
<1>1. /\ m.p \in Purchases /\ saga[m.p].state = "ItemsGranted"
      /\ Event("GilDebited", m.p) \in net
  BY SagaEventType, EventOf DEF SInv, CompletePurchase, AwaitsDebit, SagaEvents
<1>2. saga[m.p] \in Instances
  BY <1>1, InstanceType DEF SInv
<1>3. /\ saga' = [saga EXCEPT ![m.p].state = "Completed"] /\ Flush(m, {c})
      /\ pushed' = [pushed EXCEPT ![m.p] = "Completed"] /\ restarts' = restarts
  BY DEF CompletePurchase, SetState, SendStatus
<1>4. /\ sent \subseteq sent'
      /\ \A n \in net' : n \in net \/ n \in sent'
      /\ NewCommands \subseteq {c}
  BY <1>3, FlushAdds, SendsOne
<1>5. c.type = "PurchaseCompleted" /\ c.p = m.p /\ c.run = restarts
  BY DEF GilCommand
<1>6. saga' \in [Purchases -> Instances \cup {NoInstance}]
  BY <1>1, <1>3, InstanceType DEF SInv, States
<1>7. /\ saga'[m.p] = [saga[m.p] EXCEPT !.state = "Completed"]
      /\ pushed'[m.p] = "Completed"
      /\ \A q \in Purchases : q # m.p => saga'[q] = saga[q] /\ pushed'[q] = pushed[q]
  BY <1>1, <1>3 DEF SInv, TInv, TypeOK
<1>8. /\ saga'[m.p].state = "Completed" /\ saga'[m.p].item = saga[m.p].item
      /\ saga'[m.p].qty = saga[m.p].qty /\ saga'[m.p].total = saga[m.p].total
  BY <1>2, <1>7 DEF Instances
<1>9. Matches(c, saga[m.p])
  BY <1>5 DEF Matches
<1> HIDE DEF c
<1>10. SentIn[saga[m.p].state] \subseteq SentIn["Completed"] /\ "PurchaseCompleted" \in SentIn["Completed"] \ SentIn[saga[m.p].state]
  BY <1>1 DEF SentIn
<1>11. Moves(m.p, "Completed")
  BY <1>1, <1>3, <1>6, <1>7, <1>8, <1>10 DEF Moves, States, Terminal
<1>12. OnCause(m.p, "Completed")
  BY <1>1 DEF OnCause
<1>13. SendsAtMost(m.p, "Completed", c)
  BY <1>4, <1>5, <1>9, <1>10 DEF SendsAtMost
<1> QED
  BY <1>1, <1>11, <1>12, <1>13, MoveShape

LEMMA CompensateShape ==
    ASSUME SInv, NEW m \in net, CompensatePurchase(m)
    PROVE  Shape /\ Caused /\ Pushed
<1> DEFINE c == ItemCommand("SubtractItems", m.p, saga[m.p])
<1>1. /\ m.p \in Purchases /\ saga[m.p].state = "ItemsGranted" /\ m.type = "DebitGilFaulted"
      /\ Event("DebitGilFaulted", m.p) \in net
  BY SagaEventType, EventOf DEF SInv, CompensatePurchase, AwaitsDebit, SagaEvents
<1>2. saga[m.p] \in Instances
  BY <1>1, InstanceType DEF SInv
<1>3. /\ saga' = [saga EXCEPT ![m.p].state = "Faulted", ![m.p].error = m.type] /\ Flush(m, {c})
      /\ pushed' = [pushed EXCEPT ![m.p] = "Faulted"] /\ restarts' = restarts
  BY DEF CompensatePurchase, SetFaulted, SendStatus
<1>4. /\ sent \subseteq sent'
      /\ \A n \in net' : n \in net \/ n \in sent'
      /\ NewCommands \subseteq {c}
  BY <1>3, FlushAdds, SendsOne
<1>5. /\ c.type = "SubtractItems" /\ c.p = m.p /\ c.run = restarts
      /\ c.item = saga[m.p].item /\ c.qty = saga[m.p].qty
  BY DEF ItemCommand
<1>6. saga' \in [Purchases -> Instances \cup {NoInstance}]
  BY <1>1, <1>3, InstanceType DEF SInv, FaultEvents
<1>7. /\ saga'[m.p] = [saga[m.p] EXCEPT !.state = "Faulted", !.error = m.type]
      /\ pushed'[m.p] = "Faulted"
      /\ \A q \in Purchases : q # m.p => saga'[q] = saga[q] /\ pushed'[q] = pushed[q]
  BY <1>1, <1>3 DEF SInv, TInv, TypeOK
<1>8. /\ saga'[m.p].state = "Faulted" /\ saga'[m.p].item = saga[m.p].item
      /\ saga'[m.p].qty = saga[m.p].qty /\ saga'[m.p].total = saga[m.p].total
  BY <1>2, <1>7 DEF Instances
<1>9. Matches(c, saga[m.p])
  BY <1>5 DEF Matches
<1> HIDE DEF c
<1>10. /\ SentIn[saga[m.p].state] \subseteq SentIn["Faulted"]
       /\ "SubtractItems" \in SentIn["Faulted"] \ SentIn[saga[m.p].state]
  BY <1>1 DEF SentIn, CommandTypes
<1>11. Moves(m.p, "Faulted")
  BY <1>1, <1>3, <1>6, <1>7, <1>8, <1>10 DEF Moves, States
<1>12. OnCause(m.p, "Faulted")
  BY <1>1 DEF OnCause
<1>13. SendsAtMost(m.p, "Faulted", c)
  BY <1>1, <1>4, <1>5, <1>9, <1>10 DEF SendsAtMost
<1> QED
  BY <1>1, <1>11, <1>12, <1>13, MoveShape

\* An instance that stays faulted or in its state, with another error.
LEMMA StayShape ==
    ASSUME SInv, NEW m \in net, m.p \in Purchases, saga[m.p].state # "Initial",
           saga' \in [Purchases -> Instances \cup {NoInstance}],
           saga'[m.p].state = saga[m.p].state,
           saga'[m.p].item = saga[m.p].item, saga'[m.p].qty = saga[m.p].qty,
           saga'[m.p].total = saga[m.p].total,
           \A q \in Purchases : q # m.p => saga'[q] = saga[q] /\ pushed'[q] = pushed[q],
           restarts' = restarts, pushed'[m.p] = saga[m.p].state,
           sent \subseteq sent', \A n \in net' : n \in net \/ n \in sent',
           NewCommands = {}
    PROVE  Shape /\ Caused /\ Pushed
<1>1. TermsKept
  BY DEF TermsKept
<1> QED
  BY <1>1 DEF Shape, Caused, Pushed

LEMMA FaultShape ==
    ASSUME SInv, NEW m \in net, FaultOnGrant(m) \/ LateDebitFault(m)
    PROVE  Shape /\ Caused /\ Pushed
<1>1. /\ m.p \in Purchases /\ saga[m.p].state \in {"Accepted", "Completed", "Faulted"}
      /\ m.type = "GrantItemsFaulted" => saga[m.p].state = "Accepted"
      /\ m.type \in {"GrantItemsFaulted", "DebitGilFaulted"} /\ Event(m.type, m.p) \in net
  BY SagaEventType, EventOf DEF SInv, FaultOnGrant, LateDebitFault, AwaitsGrant, SagaEvents
<1>2. saga[m.p] \in Instances
  BY <1>1, InstanceType DEF SInv
<1>3. /\ saga' = [saga EXCEPT ![m.p].state = "Faulted", ![m.p].error = m.type] /\ Finish(m, {})
      /\ pushed' = [pushed EXCEPT ![m.p] = "Faulted"] /\ restarts' = restarts
  BY DEF FaultOnGrant, LateDebitFault, SetFaulted, SendStatus
<1>4. /\ sent \subseteq sent'
      /\ \A n \in net' : n \in net \/ n \in sent'
      /\ NewCommands = {}
  BY <1>3, FinishAdds, SendsNone
<1>5. saga' \in [Purchases -> Instances \cup {NoInstance}]
  BY <1>1, <1>3, InstanceType DEF SInv, FaultEvents
<1>6. /\ saga'[m.p] = [saga[m.p] EXCEPT !.state = "Faulted", !.error = m.type]
      /\ pushed'[m.p] = "Faulted"
      /\ \A q \in Purchases : q # m.p => saga'[q] = saga[q] /\ pushed'[q] = pushed[q]
  BY <1>1, <1>3 DEF SInv, TInv, TypeOK
<1>7. /\ saga'[m.p].state = "Faulted" /\ saga'[m.p].item = saga[m.p].item
      /\ saga'[m.p].qty = saga[m.p].qty /\ saga'[m.p].total = saga[m.p].total
  BY <1>2, <1>6 DEF Instances
<1>8. CASE saga[m.p].state = "Faulted"
  BY <1>1, <1>3, <1>4, <1>5, <1>6, <1>7, <1>8, StayShape
<1>9. CASE saga[m.p].state # "Faulted"
  <2>1. SentIn[saga[m.p].state] \subseteq SentIn["Faulted"]
    BY <1>1 DEF SentIn, CommandTypes
  <2>2. /\ saga[m.p].state \notin {"Initial", "Faulted"} /\ "Faulted" \in States
        /\ \/ saga[m.p].state = "Accepted" /\ Event("GrantItemsFaulted", m.p) \in net
           \/ Event("DebitGilFaulted", m.p) \in net
    BY <1>1, <1>9 DEF States
  <2>3. Moves(m.p, "Faulted")
    BY <1>1, <1>3, <1>5, <1>6, <1>7, <2>1, <2>2 DEF Moves
  <2>4. OnCause(m.p, "Faulted")
    BY <2>2 DEF OnCause
  <2>5. SendsAtMost(m.p, "Faulted", m)
    BY <1>4 DEF SendsAtMost
  <2> QED
    BY <1>1, <2>3, <2>4, <2>5, MoveShape
<1> QED
  BY <1>8, <1>9

LEMMA RecordShape ==
    ASSUME SInv, NEW m \in net, RecordFault(m)
    PROVE  Shape /\ Caused /\ Pushed
<1>1. /\ m.p \in Purchases /\ saga[m.p].state # "Initial" /\ m.type \in FaultEvents
  BY SagaEventType DEF SInv, RecordFault, FaultEvents
<1>2. saga[m.p] \in Instances
  BY <1>1, InstanceType DEF SInv
<1>3. /\ saga' = [saga EXCEPT ![m.p].error = m.type] /\ Finish(m, {})
      /\ pushed' = [pushed EXCEPT ![m.p] = saga[m.p].state] /\ restarts' = restarts
  BY DEF RecordFault, SendStatus
<1>4. /\ sent \subseteq sent'
      /\ \A n \in net' : n \in net \/ n \in sent'
      /\ NewCommands = {}
  BY <1>3, FinishAdds, SendsNone
<1>5. saga' \in [Purchases -> Instances \cup {NoInstance}]
  BY <1>1, <1>3, InstanceType DEF SInv
<1>6. /\ saga'[m.p] = [saga[m.p] EXCEPT !.error = m.type]
      /\ pushed'[m.p] = saga[m.p].state
      /\ \A q \in Purchases : q # m.p => saga'[q] = saga[q] /\ pushed'[q] = pushed[q]
  BY <1>1, <1>3 DEF SInv, TInv, TypeOK
<1>7. /\ saga'[m.p].state = saga[m.p].state /\ saga'[m.p].item = saga[m.p].item
      /\ saga'[m.p].qty = saga[m.p].qty /\ saga'[m.p].total = saga[m.p].total
  BY <1>2, <1>6 DEF Instances
<1> QED
  BY <1>1, <1>3, <1>4, <1>5, <1>6, <1>7, StayShape

LEMMA RunShape ==
    ASSUME SInv, [Next]_sagaVars, ~TradingRestart
    PROVE  Shape /\ Caused /\ Pushed
<1>1. ASSUME NEW m \in net, HandleEvent(m) PROVE Shape /\ Caused /\ Pushed
  <2>1. CASE RejectPurchase(m) \/ IgnoreEvent(m) \/ UnhandledEvent(m)
    <3>1. /\ UNCHANGED <<saga, pushed, restarts>>
          /\ Finish(m, FaultOf(m)) \/ Finish(m, {})
      BY <2>1 DEF RejectPurchase, IgnoreEvent, UnhandledEvent
    <3>2. Adds(FaultOf(m)) \/ Adds({})
      BY <3>1, FinishAdds
    <3> QED
      BY <3>1, <3>2, SendsNone, IdleShape
  <2> QED
    BY <1>1, <2>1, AcceptShape, DebitShape, CompleteShape, CompensateShape, FaultShape, RecordShape
    DEF HandleEvent
<1>2. ASSUME NEW p \in Purchases, NEW i \in Items, NEW q \in Quantities, SubmitPurchase(p, i, q)
      PROVE  Shape /\ Caused /\ Pushed
  <2>1. /\ UNCHANGED <<saga, pushed, restarts>> /\ sent' = sent
        /\ \A n \in net' : n.type # "PurchaseRequested" => n \in net
    BY <1>2 DEF SubmitPurchase, tradingVars
  <2> QED
    BY <2>1, IdleShape DEF NewCommands
<1>3. ASSUME NEW i \in Items, NEW c \in Prices,
             CatalogItemCreated(i, c) \/ CatalogItemUpdated(i, c)
      PROVE  Shape /\ Caused /\ Pushed
  BY <1>3, IdleShape DEF CatalogItemCreated, CatalogItemUpdated, NewCommands
<1>4. ASSUME NEW m \in net, ServiceStep(m) PROVE Shape /\ Caused /\ Pushed
  <2>1. /\ UNCHANGED <<saga, pushed, restarts>>
        /\ \E out \in SUBSET Answers(m) : Adds(out)
    BY <1>4 DEF ServiceStep, tradingVars, Publish, Acknowledge, Routed, Adds
  <2>2. \A a \in Answers(m) : a.type \notin CommandTypes
    BY <1>4 DEF ServiceStep, Answers, Event, CommandTypes
  <2>3. /\ sent \subseteq sent' /\ NewCommands = {}
        /\ \A n \in net' : n \in net \/ n \in sent'
    BY <2>1, <2>2 DEF Adds, NewCommands
  <2> QED
    BY <2>1, <2>3, IdleShape
<1>5. CASE UNCHANGED sagaVars
  BY <1>5, IdleShape DEF sagaVars, NewCommands
<1> QED
  BY <1>1, <1>2, <1>3, <1>4, <1>5 DEF Next, TradingNext

\* A restart forgets the instances; what earlier runs sent stays consistent,
\* and the new run has sent nothing.
LEMMA RestartKeepsInvariant ==
    ASSUME SInv, TInv', TradingRestart
    PROVE  SInv'
<1>1. /\ sent' = sent /\ net' = net /\ restarts' = restarts + 1
      /\ \A p \in Purchases : saga'[p].state = "Initial"
  BY DEF TradingRestart, NoInstance
<1>2. restarts \in Nat
  BY TradingAssumption DEF SInv, TInv, TypeOK
<1>3. RunsBounded' /\ QueuedWereSent'
  BY <1>1, <1>2 DEF SInv, Bookkeeping, RunsBounded, QueuedWereSent
<1>4. \A p \in Purchases : Issued(p)' = {}
  BY <1>1, <1>2 DEF SInv, Bookkeeping, RunsBounded, Issued
<1>5. IssuedInState' /\ IssuedMatch'
  BY <1>4 DEF IssuedInState, IssuedMatch
<1>6. InstancesPriced' /\ GrantWasReported'
  BY <1>1 DEF InstancesPriced, GrantWasReported
<1>7. Safety'
  BY <1>1 DEF SInv, Safety, CommandsUnique, DebitForGrantedItems, CompensationMirrorsGrant,
              OutcomeJustified, Terminal, Event
<1> QED
  BY <1>3, <1>5, <1>6, <1>7 DEF SInv, Bookkeeping

LEMMA SafetyInit == Init => SInv
<1> SUFFICES ASSUME Init PROVE SInv
  OBVIOUS
<1>1. /\ sent = {} /\ net = {} /\ \A p \in Purchases : saga[p].state = "Initial"
  BY DEF Init, TradingInit, NoInstance
<1>2. Bookkeeping
  BY <1>1 DEF Bookkeeping, QueuedWereSent, RunsBounded, IssuedInState, IssuedMatch, Issued,
              InstancesPriced, GrantWasReported
<1>3. Safety
  BY <1>1 DEF Safety, CommandsUnique, DebitForGrantedItems, CompensationMirrorsGrant,
              OutcomeJustified, Terminal
<1> QED
  BY <1>2, <1>3, TypeInit DEF SInv

LEMMA SafetyStep == SInv /\ [Next]_sagaVars => SInv'
<1> SUFFICES ASSUME SInv, [Next]_sagaVars PROVE SInv'
  OBVIOUS
<1>1. TInv'
  BY TypeStep DEF SInv
<1>2. CASE TradingRestart
  BY <1>1, <1>2, RestartKeepsInvariant
<1>3. CASE ~TradingRestart
  BY <1>1, <1>3, RunShape, ShapeKeepsInvariant
<1> QED
  BY <1>2, <1>3

-----------------------------------------------------------------------------
(* The theorems.                                                           *)

LEMMA Invariant == Spec => []SInv
<1> QED
  BY SafetyInit, SafetyStep, PTL DEF Spec

\* The variables hold what the code can put in them.
THEOREM TypeIsCorrect == Spec => []TypeOK
<1>1. SInv => TypeOK
  BY DEF SInv, TInv
<1> QED
  BY <1>1, Invariant, PTL

\* One run of Trading sends a purchase at most one command of each type.
THEOREM CommandsAreUnique == Spec => []CommandsUnique
<1>1. SInv => CommandsUnique
  BY DEF SInv, Safety
<1> QED
  BY <1>1, Invariant, PTL

\* A purchase is debited only for items reported granted, at quantity times a
\* catalog price.
THEOREM DebitsAreForGrantedItems == Spec => []DebitForGrantedItems
<1>1. SInv => DebitForGrantedItems
  BY DEF SInv, Safety
<1> QED
  BY <1>1, Invariant, PTL

\* Items are taken back only on a faulted debit, exactly as granted, and never
\* from a purchase the same run completed.
THEOREM CompensationsMirrorGrants == Spec => []CompensationMirrorsGrant
<1>1. SInv => CompensationMirrorsGrant
  BY DEF SInv, Safety
<1> QED
  BY <1>1, Invariant, PTL

\* Every outcome of the saga has its cause in the history and was pushed.
THEOREM OutcomesAreJustified == Spec => []OutcomeJustified
<1>1. SInv => OutcomeJustified
  BY DEF SInv, Safety
<1> QED
  BY <1>1, Invariant, PTL

\* What an accepted purchase buys, and for how much, does not change while
\* Trading runs.
THEOREM TermsAreFixed == Spec => TermsFixed
<1>1. SInv /\ [Next]_sagaVars =>
        [\A p \in Purchases :
          (saga[p].state # "Initial" /\ restarts' = restarts) =>
              /\ saga'[p].state # "Initial"
              /\ saga'[p].item = saga[p].item
              /\ saga'[p].qty = saga[p].qty
              /\ saga'[p].total = saga[p].total]_sagaVars
  <2> SUFFICES ASSUME SInv, [Next]_sagaVars, restarts' = restarts
               PROVE  TermsKept
    BY DEF TermsKept
  <2>1. ~TradingRestart
    BY TradingAssumption DEF TradingRestart, SInv, TInv, TypeOK
  <2> QED
    BY <2>1, RunShape DEF Shape
<1> QED
  BY <1>1, Invariant, PTL DEF Spec, TermsFixed

\* While Trading runs, an outcome changes only from completed to faulted, and
\* only on the fault of the purchase's debit.
THEOREM OutcomesAreStable == Spec => OutcomeStable
<1>1. SInv /\ [Next]_sagaVars =>
        [\A p \in Purchases :
          (saga[p].state \in Terminal /\ restarts' = restarts) =>
              \/ saga'[p].state = saga[p].state
              \/ saga'[p].state = "Faulted" /\ Event("DebitGilFaulted", p) \in net]_sagaVars
  <2> SUFFICES ASSUME SInv, [Next]_sagaVars, restarts' = restarts,
                      NEW p \in Purchases, saga[p].state \in Terminal,
                      saga'[p].state # saga[p].state
               PROVE  saga'[p].state = "Faulted" /\ Event("DebitGilFaulted", p) \in net
    OBVIOUS
  <2>1. ~TradingRestart
    BY TradingAssumption DEF TradingRestart, SInv, TInv, TypeOK
  <2>2. Shape /\ Caused
    BY <2>1, RunShape
  <2>3. saga'[p].state \in States
    BY TypeStep DEF SInv, TInv, TypeOK, Instances, NoInstance, States
  <2>4. SentIn[saga[p].state] \subseteq SentIn[saga'[p].state]
    BY <2>2 DEF Shape
  <2>5. saga'[p].state = "Faulted"
    BY <2>3, <2>4 DEF SentIn, CommandTypes, States, Terminal
  <2> QED
    BY <2>2, <2>5 DEF Caused, Terminal
<1> QED
  BY <1>1, Invariant, PTL DEF Spec, OutcomeStable
================================================================================
