--------------------------- MODULE PurchaseFlowProofs ---------------------------
(***************************************************************************)
(* Proofs about PurchaseFlow, for any purchases, users, items, quantities, *)
(* prices, retries and bounds.                                             *)
(***************************************************************************)
EXTENDS PurchaseFlow, FiniteSetTheorems, SequenceTheorems, WellFoundedInduction, TLAPS

-----------------------------------------------------------------------------
(* The amount a document accounts for is a sum over a finite set of        *)
(* commands, a fold that chooses an element and recurs.  A function on the *)
(* subsets that adds the effect of any element, whichever is added last,   *)
(* solves the fold's equation; there is one, and only one solution.        *)

\* The equation MapThenSumSet solves for the commands in S.
Recurs(g, S) ==
    g = [s \in SUBSET S |->
            IF s = {} THEN 0
            ELSE Effect(CHOOSE x \in s : TRUE) + g[s \ {CHOOSE x \in s : TRUE}]]

Additive(w, S) ==
    /\ w \in [SUBSET S -> Int] /\ w[{}] = 0
    /\ \A T \in SUBSET S : \A x \in S \ T : w[T \cup {x}] = w[T] + Effect(x)

Integral(S) == IsFiniteSet(S) /\ \A m \in S : Effect(m) \in Int

LEMMA SumIsRecursive ==
    ASSUME NEW S
    PROVE  MapThenSumSet(Effect, S) = (CHOOSE g : Recurs(g, S))[S]
BY Zenon DEF MapThenSumSet, MapThenFoldSet, Recurs

LEMMA AdditiveRecurs ==
    ASSUME NEW S, Integral(S), NEW w, Additive(w, S)
    PROVE  Recurs(w, S)
<1> DEFINE F == [s \in SUBSET S |->
            IF s = {} THEN 0
            ELSE Effect(CHOOSE x \in s : TRUE) + w[s \ {CHOOSE x \in s : TRUE}]]
<1>1. ASSUME NEW s \in SUBSET S, s # {}
      PROVE  w[s] = Effect(CHOOSE x \in s : TRUE) + w[s \ {CHOOSE x \in s : TRUE}]
  <2> DEFINE c == CHOOSE x \in s : TRUE
  <2>1. c \in s
    BY <1>1
  <2> HIDE DEF c
  <2>2. s \ {c} \in SUBSET S /\ c \in S \ (s \ {c}) /\ s = (s \ {c}) \cup {c}
    BY <2>1
  <2>3. w[s] = w[s \ {c}] + Effect(c)
    BY <2>2 DEF Additive
  <2>4. Effect(c) \in Int /\ w[s \ {c}] \in Int
    BY <2>2 DEF Additive, Integral
  <2>5. w[s] = Effect(c) + w[s \ {c}]
    BY <2>3, <2>4
  <2> QED
    BY <2>5 DEF c
<1>2. ASSUME NEW s \in SUBSET S PROVE w[s] = F[s]
  BY <1>1, <1>2 DEF Additive
<1>3. w = F
  BY <1>2 DEF Additive
<1> QED
  BY <1>3 DEF Recurs

\* A set of subsets of a finite set has a member none of whose proper subsets
\* is in it.
LEMMA SmallestSubset ==
    ASSUME NEW S, IsFiniteSet(S), NEW B \in SUBSET (SUBSET S), B # {}
    PROVE  \E T \in B : \A U \in B : ~(U \subseteq T /\ U # T)
<1>1. IsWellFoundedOn(StrictSubsetOrdering(S), SUBSET S)
  BY FS_StrictSubsetOrderingWellFounded, FS_FiniteSubsetsOfFinite
<1>2. \E T \in B : \A U \in B : <<U, T>> \notin StrictSubsetOrdering(S)
  BY <1>1, WFMin
<1>3. \A T, U \in B : U \subseteq T /\ U # T => <<U, T>> \in StrictSubsetOrdering(S)
  BY DEF StrictSubsetOrdering
<1> QED
  BY <1>2, <1>3

LEMMA AdditiveExtends ==
    ASSUME NEW T, \A x \in T : Effect(x) \in Int,
           NEW m \in T, NEW w, Additive(w, T \ {m})
    PROVE  \E v : Additive(v, T)
<1> DEFINE v == [U \in SUBSET T |-> IF m \in U THEN w[U \ {m}] + Effect(m) ELSE w[U]]
<1>1. \A U \in SUBSET T : U \ {m} \in SUBSET (T \ {m}) /\ w[U \ {m}] \in Int
  BY DEF Additive
<1>2. \A U \in SUBSET T : m \notin U => U \ {m} = U
  OBVIOUS
<1>3. v \in [SUBSET T -> Int]
  BY <1>1, <1>2
<1>4. v[{}] = 0
  BY DEF Additive
<1>5. ASSUME NEW U \in SUBSET T, NEW x \in T \ U
      PROVE  v[U \cup {x}] = v[U] + Effect(x)
  <2>1. U \cup {x} \in SUBSET T
    OBVIOUS
  <2>2. CASE x = m
    <3>1. (U \cup {x}) \ {m} = U
      BY <2>2
    <3> QED
      BY <2>1, <2>2, <3>1
  <2>3. CASE x # m /\ m \in U
    <3>1. /\ (U \cup {x}) \ {m} = (U \ {m}) \cup {x}
          /\ U \ {m} \in SUBSET (T \ {m}) /\ x \in (T \ {m}) \ (U \ {m})
      BY <2>3
    <3>2. w[(U \ {m}) \cup {x}] = w[U \ {m}] + Effect(x)
      BY <3>1 DEF Additive
    <3>3. v[U \cup {x}] = w[(U \ {m}) \cup {x}] + Effect(m)
      BY <2>1, <2>3, <3>1
    <3>4. v[U] = w[U \ {m}] + Effect(m)
      BY <2>3
    <3>5. w[U \ {m}] \in Int
      BY <3>1 DEF Additive
    <3> QED
      BY <3>2, <3>3, <3>4, <3>5
  <2>4. CASE x # m /\ m \notin U
    <3>1. U \in SUBSET (T \ {m}) /\ x \in (T \ {m}) \ U /\ m \notin U \cup {x}
      BY <2>4
    <3> QED
      BY <2>1, <2>4, <3>1 DEF Additive
  <2> QED
    BY <2>2, <2>3, <2>4
<1> HIDE DEF v
<1> QED
  BY <1>3, <1>4, <1>5 DEF Additive

LEMMA AdditiveExists ==
    ASSUME NEW S, Integral(S)
    PROVE  \E w : Additive(w, S)
<1> DEFINE B == {T \in SUBSET S : ~ \E w : Additive(w, T)}
<1>1. SUFFICES ASSUME B # {} PROVE FALSE
  OBVIOUS
<1>2. PICK T \in B : \A U \in B : ~(U \subseteq T /\ U # T)
  <2>1. B \in SUBSET (SUBSET S)
    OBVIOUS
  <2> HIDE DEF B
  <2> QED
    BY <1>1, <2>1, SmallestSubset DEF Integral
<1>3. CASE T = {}
  <2>1. Additive([U \in SUBSET T |-> 0], T)
    BY <1>3 DEF Additive
  <2> QED
    BY <1>2, <2>1
<1>4. CASE T # {}
  <2>1. PICK m \in T : TRUE
    BY <1>4
  <2>2. T \ {m} \notin B /\ T \ {m} \in SUBSET S
    BY <1>2
  <2>3. PICK w : Additive(w, T \ {m})
    BY <2>2
  <2>4. \A x \in T : Effect(x) \in Int
    BY DEF Integral
  <2> QED
    BY <1>2, <2>3, <2>4, AdditiveExtends
<1> QED
  BY <1>3, <1>4

LEMMA RecursIsUnique ==
    ASSUME NEW S, Integral(S), NEW g, NEW h, Recurs(g, S), Recurs(h, S)
    PROVE  g = h
<1> DEFINE B == {T \in SUBSET S : g[T] # h[T]}
<1>1. B = {}
  <2>1. SUFFICES ASSUME B # {} PROVE FALSE
    OBVIOUS
  <2>2. PICK T \in B : \A U \in B : ~(U \subseteq T /\ U # T)
    <3>1. B \in SUBSET (SUBSET S)
      OBVIOUS
    <3> HIDE DEF B
    <3> QED
      BY <2>1, <3>1, SmallestSubset DEF Integral
  <2>3. CASE T = {}
    BY <2>3 DEF Recurs
  <2>4. CASE T # {}
    <3> DEFINE c == CHOOSE x \in T : TRUE
    <3>1. c \in T
      BY <2>4
    <3>2. T \in SUBSET S
      OBVIOUS
    <3>3. g[T] = Effect(c) + g[T \ {c}] /\ h[T] = Effect(c) + h[T \ {c}]
      BY <2>4, <3>2 DEF Recurs
    <3> HIDE DEF c
    <3>4. T \ {c} \notin B /\ T \ {c} \in SUBSET S
      BY <2>2, <3>1
    <3> QED
      BY <3>3, <3>4
  <2> QED
    BY <2>3, <2>4
<1>2. DOMAIN g = SUBSET S /\ DOMAIN h = SUBSET S
  BY DEF Recurs
<1>3. g = [s \in DOMAIN g |-> g[s]] /\ h = [s \in DOMAIN h |-> h[s]]
  BY DEF Recurs
<1> QED
  BY <1>1, <1>2, <1>3

\* Every solution's value at S is the sum.
LEMMA SumIsAdditive ==
    ASSUME NEW S, Integral(S), NEW w, Additive(w, S)
    PROVE  MapThenSumSet(Effect, S) = w[S]
<1>1. Recurs(w, S)
  BY AdditiveRecurs
<1>2. Recurs(CHOOSE g : Recurs(g, S), S)
  BY <1>1, Zenon
<1> QED
  BY <1>1, <1>2, RecursIsUnique, SumIsRecursive

\* The sum over nothing is zero, and one more command adds its effect.
LEMMA SumOfNone == MapThenSumSet(Effect, {}) = 0
<1>1. Integral({})
  BY FS_EmptySet DEF Integral
<1>2. PICK w : Additive(w, {})
  BY <1>1, AdditiveExists
<1> QED
  BY <1>1, <1>2, SumIsAdditive DEF Additive

LEMMA SumOfOneMore ==
    ASSUME NEW S, Integral(S), NEW m, m \notin S, Effect(m) \in Int
    PROVE  /\ MapThenSumSet(Effect, S) \in Int
           /\ MapThenSumSet(Effect, S \cup {m}) = MapThenSumSet(Effect, S) + Effect(m)
<1>1. Integral(S \cup {m})
  BY FS_AddElement DEF Integral
<1>2. PICK w : Additive(w, S \cup {m})
  BY <1>1, AdditiveExists
<1> DEFINE v == [T \in SUBSET S |-> w[T]]
<1>3. Additive(v, S)
  BY <1>2 DEF Additive
<1>4. w[S \cup {m}] = w[S] + Effect(m) /\ v[S] = w[S] /\ w[S] \in Int
  BY <1>2 DEF Additive
<1> HIDE DEF v
<1> QED
  BY <1>1, <1>2, <1>3, <1>4, SumIsAdditive

-----------------------------------------------------------------------------
(* Every step of the flow is a step of PurchaseSaga, of which P brings the *)
(* invariant along with the proof that steps keep it.                      *)

P == INSTANCE PurchaseSagaProofs WITH sent <- PurchaseSent

Told(out) == {a \in out : a.type \notin Updates}

LEMMA PublishMaps ==
    ASSUME NEW out, Publish(out)
    PROVE  P!Publish(Told(out))
<1>1. Routed(out) = P!Routed(Told(out))
  BY DEF Routed, P!Routed, Told, Updates, Subscribed, P!Subscribed, SagaEvents, P!SagaEvents
<1>2. PurchaseSent' = PurchaseSent \cup Told(out)
  BY DEF Publish, PurchaseSent, Told
<1> QED
  BY <1>1, <1>2 DEF Publish, P!Publish, PurchaseSent

LEMMA AcknowledgeMaps ==
    ASSUME NEW m, NEW out, Acknowledge(m, out)
    PROVE  P!Acknowledge(m, Told(out))
<1>1. Routed(out) = P!Routed(Told(out))
  BY DEF Routed, P!Routed, Told, Updates, Subscribed, P!Subscribed, SagaEvents, P!SagaEvents
<1>2. PurchaseSent' = PurchaseSent \cup Told(out)
  BY DEF Acknowledge, PurchaseSent, Told
<1> QED
  BY <1>1, <1>2 DEF Acknowledge, P!Acknowledge, PurchaseSent

\* Trading sends no update of its own.
Trading(out) == \A a \in out : a.type \notin Updates

LEMMA FinishMaps ==
    ASSUME NEW m, NEW out, Trading(out), Finish(m, out)
    PROVE  P!Finish(m, out)
<1>1. Told(out) = out
  BY DEF Told, Trading
<1> QED
  BY <1>1, PublishMaps, AcknowledgeMaps DEF Finish, P!Finish, Mishap, P!Mishap

LEMMA FaultOfMaps ==
    ASSUME NEW m
    PROVE  FaultOf(m) = P!FaultOf(m) /\ Trading(FaultOf(m))
<1>1. FaultOf(m) = P!FaultOf(m)
  BY DEF FaultOf, P!FaultOf, Event, P!Event
<1>2. CASE m.type = "PurchaseRequested"
  BY <1>1, <1>2 DEF FaultOf, Event, Trading, Updates
<1>3. CASE m.type = "InventoryItemsGranted"
  BY <1>1, <1>3 DEF FaultOf, Event, Trading, Updates
<1>4. CASE m.type \notin {"PurchaseRequested", "InventoryItemsGranted"}
  BY <1>1, <1>4 DEF FaultOf, Trading
<1> QED
  BY <1>1, <1>2, <1>3, <1>4

LEMMA FlushMaps ==
    ASSUME NEW m, NEW out, Trading(out), Flush(m, out)
    PROVE  P!Flush(m, out)
<1>1. CASE Finish(m, out)
  BY <1>1, FinishMaps DEF P!Flush
<1>2. CASE FlushFails(m)
  <2>1. CASE Acknowledge(m, FaultOf(m))
    <3>1. Told(FaultOf(m)) = P!FaultOf(m)
      BY FaultOfMaps DEF Told, Trading
    <3> QED
      BY <1>2, <2>1, <3>1, AcknowledgeMaps DEF FlushFails, P!FlushFails, P!Flush, Mishap, P!Mishap
  <2>2. CASE UNCHANGED <<net, sent>>
    BY <1>2, <2>2 DEF FlushFails, P!FlushFails, P!Flush, Mishap, P!Mishap, PurchaseSent
  <2> QED
    BY <1>2, <2>1, <2>2 DEF FlushFails
<1> QED
  BY <1>1, <1>2 DEF Flush

\* A command is numbered by the commands before it, which the updates are not.
LEMMA CommandMaps ==
    ASSUME NEW type \in CommandTypes, NEW p, NEW s
    PROVE  /\ ItemCommand(type, p, s) = P!ItemCommand(type, p, s)
           /\ GilCommand(type, p, s) = P!GilCommand(type, p, s)
           /\ Trading({ItemCommand(type, p, s)}) /\ Trading({GilCommand(type, p, s)})
<1>1. {c \in sent : c.type = type /\ c.p = p} = {c \in PurchaseSent : c.type = type /\ c.p = p}
  BY DEF PurchaseSent, Updates, CommandTypes
<1>2. \A S : Cardinality(S) = P!Cardinality(S)
  BY Zenon DEF Cardinality, P!Cardinality, IsFiniteSet, P!IsFiniteSet
<1>3. NextSeq(type, p) = P!NextSeq(type, p)
  BY <1>1, <1>2 DEF NextSeq, P!NextSeq
<1> QED
  BY <1>3 DEF ItemCommand, P!ItemCommand, GilCommand, P!GilCommand, Trading, Updates, CommandTypes

LEMMA HandleMaps ==
    ASSUME NEW m, HandleEvent(m)
    PROVE  P!HandleEvent(m)
<1> USE DEF CommandTypes
<1>1. Trading({})
  BY DEF Trading
<1>2. ASSUME AcceptPurchase(m) PROVE P!AcceptPurchase(m)
  <2> DEFINE s == [state |-> "Accepted", item |-> m.item, qty |-> m.qty,
                   total |-> PurchaseTotal(m.item, m.qty), error |-> "none"]
  <2>1. Flush(m, {ItemCommand("GrantItems", m.p, s)})
    BY <1>2 DEF AcceptPurchase
  <2>2. P!Flush(m, {P!ItemCommand("GrantItems", m.p, s)})
    <3> HIDE DEF s
    <3> QED
      BY <2>1, FlushMaps, CommandMaps
  <2>3. s = [state |-> "Accepted", item |-> m.item, qty |-> m.qty,
             total |-> P!PurchaseTotal(m.item, m.qty), error |-> "none"]
    BY DEF PurchaseTotal, P!PurchaseTotal
  <2> QED
    BY <1>2, <2>2, <2>3 DEF AcceptPurchase, P!AcceptPurchase, NoSaga, P!NoSaga
<1>3. ASSUME RejectPurchase(m) PROVE P!RejectPurchase(m)
  BY <1>3, FinishMaps, FaultOfMaps DEF RejectPurchase, P!RejectPurchase, NoSaga, P!NoSaga
<1>4. ASSUME DebitForItems(m) PROVE P!DebitForItems(m)
  <2>1. P!Flush(m, {P!GilCommand("DebitGil", m.p, saga[m.p])})
    BY <1>4, FlushMaps, CommandMaps DEF DebitForItems
  <2> QED
    BY <1>4, <2>1 DEF DebitForItems, P!DebitForItems, AwaitsGrant, P!AwaitsGrant, SetState, P!SetState
<1>5. ASSUME FaultOnGrant(m) PROVE P!FaultOnGrant(m)
  BY <1>1, <1>5, FinishMaps DEF FaultOnGrant, P!FaultOnGrant, AwaitsGrant, P!AwaitsGrant,
                               SetFaulted, P!SetFaulted, SendStatus, P!SendStatus
<1>6. ASSUME CompletePurchase(m) PROVE P!CompletePurchase(m)
  <2>1. P!Flush(m, {P!GilCommand("PurchaseCompleted", m.p, saga[m.p])})
    BY <1>6, FlushMaps, CommandMaps DEF CompletePurchase
  <2> QED
    BY <1>6, <2>1 DEF CompletePurchase, P!CompletePurchase, AwaitsDebit, P!AwaitsDebit,
                      SetState, P!SetState, SendStatus, P!SendStatus
<1>7. ASSUME CompensatePurchase(m) PROVE P!CompensatePurchase(m)
  <2>1. P!Flush(m, {P!ItemCommand("SubtractItems", m.p, saga[m.p])})
    BY <1>7, FlushMaps, CommandMaps DEF CompensatePurchase
  <2> QED
    BY <1>7, <2>1 DEF CompensatePurchase, P!CompensatePurchase, AwaitsDebit, P!AwaitsDebit,
                      SetFaulted, P!SetFaulted, SendStatus, P!SendStatus
<1>8. ASSUME LateDebitFault(m) PROVE P!LateDebitFault(m)
  BY <1>1, <1>8, FinishMaps DEF LateDebitFault, P!LateDebitFault,
                               SetFaulted, P!SetFaulted, SendStatus, P!SendStatus
<1>9. ASSUME RecordFault(m) PROVE P!RecordFault(m)
  BY <1>1, <1>9, FinishMaps DEF RecordFault, P!RecordFault, SendStatus, P!SendStatus
<1>10. ASSUME IgnoreEvent(m) PROVE P!IgnoreEvent(m)
  BY <1>1, <1>10, FinishMaps DEF IgnoreEvent, P!IgnoreEvent, Ignores, P!Ignores
<1>11. ASSUME UnhandledEvent(m) PROVE P!UnhandledEvent(m)
  BY <1>1, <1>11, FinishMaps DEF UnhandledEvent, P!UnhandledEvent, SagaEvents, P!SagaEvents,
        Ignores, P!Ignores, Binds, P!Binds, AnyState, P!AnyState
<1> QED
  BY <1>2, <1>3, <1>4, <1>5, <1>6, <1>7, <1>8, <1>9, <1>10, <1>11 DEF HandleEvent, P!HandleEvent

LEMMA TradingMaps == TradingNext => P!Next
<1>1. ASSUME NEW m \in net, HandleEvent(m) PROVE P!Next
  BY <1>1, HandleMaps DEF P!Next, P!TradingNext
<1>2. ASSUME NEW p \in Purchases, NEW i \in Items, NEW q \in Quantities, SubmitPurchase(p, i, q)
      PROVE  P!Next
  <2>1. P!SubmitPurchase(p, i, q)
    BY <1>2 DEF SubmitPurchase, P!SubmitPurchase, tradingVars, P!tradingVars, PurchaseSent
  <2> QED
    BY <2>1 DEF P!Next, P!TradingNext
<1>3. ASSUME NEW i \in Items, NEW c \in Prices,
             CatalogItemCreated(i, c) \/ CatalogItemUpdated(i, c)
      PROVE  P!Next
  <2>1. P!CatalogItemCreated(i, c) \/ P!CatalogItemUpdated(i, c)
    BY <1>3 DEF CatalogItemCreated, P!CatalogItemCreated,
                CatalogItemUpdated, P!CatalogItemUpdated, PurchaseSent
  <2> QED
    BY <2>1 DEF P!Next, P!TradingNext
<1>4. ASSUME TradingRestart PROVE P!Next
  BY <1>4 DEF TradingRestart, P!TradingRestart, NoInstance, P!NoInstance, PurchaseSent,
              P!Next, P!TradingNext
<1> QED
  BY <1>1, <1>2, <1>3, <1>4 DEF TradingNext

LEMMA InitMaps == FlowInit => P!Init
BY DEF FlowInit, TradingInit, P!Init, P!TradingInit, NoInstance, P!NoInstance, PurchaseSent

-----------------------------------------------------------------------------
(* The invariant of the two services.                                      *)

Commanded == {"GrantItems", "SubtractItems", "DebitGil"}

DocSet == [qty : Int, seen : SUBSET ItemCommands]
UserSet == [gil : Nat, seen : SUBSET GilCommands, stamp : Nat]
CopySet == {<<>>} \cup [doc : DocSet, new : BOOLEAN] \cup UserSet
TaskSet == [msg : ItemCommands \cup GilCommands, stage : Stages, copy : CopySet, tries : Nat]

\* A document of key k accounts for the commands it records, which were sent
\* and are about k.
GoodDoc(k, d) ==
    /\ d \in DocSet /\ d.seen \subseteq sent /\ IsFiniteSet(d.seen)
    /\ \A m \in d.seen : Key(m) = k
    /\ d.qty = MapThenSumSet(Effect, d.seen)

\* So does a user for the debits.
GoodUser(u, a) ==
    /\ a \in UserSet /\ a.seen \subseteq sent /\ IsFiniteSet(a.seen)
    /\ \A m \in a.seen : m.type = "DebitGil" /\ UserOf[m.p] = u
    /\ a.gil = InitialGil[u] + MapThenSumSet(Effect, a.seen)

GoodCopy(t) ==
    IF t.msg.type = "DebitGil"
    THEN Payer(t) \in DOMAIN users /\ GoodUser(Payer(t), t.copy)
    ELSE t.copy \in [doc : DocSet, new : BOOLEAN] /\ GoodDoc(Key(t.msg), t.copy.doc)

GoodTask(t) ==
    /\ t \in TaskSet /\ t.msg.type \in Commanded
    /\ t.stage \in {"write", "publish"} => GoodCopy(t)

\* A user about to be stored is older than the stored one, or it is the stored
\* one and the debit at hand.
Current(t) ==
    t.msg.type = "DebitGil" /\ t.stage = "write" =>
        /\ t.copy.stamp <= users[Payer(t)].stamp
        /\ t.copy.stamp = users[Payer(t)].stamp =>
               t.copy.seen = users[Payer(t)].seen \cup {t.msg}

\* A queued message is handled by one task at most.
OneTask ==
    /\ \A t \in tasks : t.msg \in net
    /\ \A t, u \in tasks : t.msg = u.msg => t = u

GoodTasks == \A t \in tasks : GoodTask(t)
CurrentTasks == \A t \in tasks : Current(t)
GoodDocs ==
    /\ docs \in [Keys -> Seq(DocSet)]
    /\ \A k \in Keys : \A i \in DOMAIN docs[k] : GoodDoc(k, docs[k][i])
GoodUsers ==
    /\ users \in [DOMAIN InitialGil -> UserSet]
    /\ \A u \in DOMAIN InitialGil : GoodUser(u, users[u])
UpdatesTyped == \A m \in sent : m.type \in Updates => m \in InventoryUpdates \cup UserUpdates

ServiceInv ==
    /\ OneTask /\ GoodTasks /\ CurrentTasks /\ GoodDocs /\ GoodUsers
    /\ UpdatesTyped /\ known \subseteq Items

FlowInv == P!SInv /\ ServiceInv

\* Nothing good goes bad while the history grows.
LEMMA GoodStays ==
    ASSUME sent \subseteq sent', DOMAIN users' = DOMAIN users
    PROVE  /\ \A k, d : GoodDoc(k, d) => GoodDoc(k, d)'
           /\ \A u, a : GoodUser(u, a) => GoodUser(u, a)'
           /\ \A t : GoodTask(t) => GoodTask(t)'
<1>1. ASSUME NEW k, NEW d, GoodDoc(k, d) PROVE GoodDoc(k, d)'
  BY <1>1 DEF GoodDoc
<1>2. ASSUME NEW u, NEW a, GoodUser(u, a) PROVE GoodUser(u, a)'
  BY <1>2 DEF GoodUser
<1>3. ASSUME NEW t, GoodTask(t) PROVE GoodTask(t)'
  BY <1>1, <1>2, <1>3 DEF GoodTask, GoodCopy, Payer
<1> QED
  BY <1>1, <1>2, <1>3

LEMMA MessagesMap == PurchaseMessages = P!PurchaseMessages
BY DEF PurchaseMessages, P!PurchaseMessages, Requests, P!Requests, ItemCommands, P!ItemCommands,
       GilCommands, P!GilCommands, Replies, P!Replies, Faults, P!Faults

LEMMA NetTyped ==
    ASSUME P!SInv, NEW m \in net
    PROVE  /\ m \in PurchaseMessages /\ m.p \in Purchases
           /\ m.type \in {"GrantItems", "SubtractItems"} => m \in ItemCommands
           /\ m.type = "DebitGil" => m \in GilCommands
           /\ m.type # "PurchaseRequested" => m \in sent
<1>1. m \in PurchaseMessages
  BY MessagesMap DEF P!SInv, P!TInv, P!TypeOK
<1>2. m.type # "PurchaseRequested" => m \in sent
  BY DEF P!SInv, P!Bookkeeping, P!QueuedWereSent, PurchaseSent
<1>3. /\ m.p \in Purchases
      /\ m.type \in {"GrantItems", "SubtractItems"} => m \in ItemCommands
      /\ m.type = "DebitGil" => m \in GilCommands
  BY <1>1 DEF PurchaseMessages, Requests, ItemCommands, GilCommands, Replies, Faults
<1> QED
  BY <1>1, <1>2, <1>3

-----------------------------------------------------------------------------
(* Trading's steps leave the services' messages queued.                    *)

\* A handler of m may take m off its queue, and sends what is Trading's.
Handles(m) ==
    \E out : Trading(out) /\ sent' = sent \cup out /\ net \ {m} \subseteq net'

LEMMA FinishHandles ==
    ASSUME NEW m, NEW out, Trading(out), Finish(m, out) \/ Flush(m, out)
    PROVE  Handles(m)
<1>1. Trading(FaultOf(m)) /\ Trading({})
  BY FaultOfMaps DEF Trading
<1>2. CASE Finish(m, out)
  BY <1>2 DEF Finish, Acknowledge, Publish, Handles
<1>3. CASE FlushFails(m)
  <2>1. CASE Acknowledge(m, FaultOf(m))
    BY <1>1, <2>1 DEF Acknowledge, Handles
  <2>2. CASE UNCHANGED <<net, sent>>
    BY <1>1, <2>2 DEF Handles
  <2> QED
    BY <1>3, <2>1, <2>2 DEF FlushFails
<1> QED
  BY <1>2, <1>3 DEF Flush

LEMMA EventHandles ==
    ASSUME P!SInv, NEW m \in net, HandleEvent(m)
    PROVE  Handles(m) /\ m.type \in SagaEvents
<1> USE DEF CommandTypes, SagaEvents
<1>1. Trading({}) /\ Trading(FaultOf(m))
  BY FaultOfMaps DEF Trading
<1>2. CASE AcceptPurchase(m)
  <2> DEFINE s == [state |-> "Accepted", item |-> m.item, qty |-> m.qty,
                   total |-> PurchaseTotal(m.item, m.qty), error |-> "none"]
  <2>1. Flush(m, {ItemCommand("GrantItems", m.p, s)}) /\ m.type = "PurchaseRequested"
    BY <1>2 DEF AcceptPurchase
  <2> HIDE DEF s
  <2> QED
    BY <2>1, CommandMaps, FinishHandles
<1>3. CASE RejectPurchase(m)
  BY <1>1, <1>3, FinishHandles DEF RejectPurchase
<1>4. CASE DebitForItems(m)
  BY <1>4, CommandMaps, FinishHandles DEF DebitForItems
<1>5. CASE CompletePurchase(m)
  BY <1>5, CommandMaps, FinishHandles DEF CompletePurchase
<1>6. CASE CompensatePurchase(m)
  BY <1>6, CommandMaps, FinishHandles DEF CompensatePurchase
<1>7. CASE FaultOnGrant(m) \/ LateDebitFault(m) \/ RecordFault(m) \/ UnhandledEvent(m)
  BY <1>1, <1>7, FinishHandles DEF FaultOnGrant, LateDebitFault, RecordFault, UnhandledEvent
<1>8. CASE IgnoreEvent(m)
  <2>1. saga[m.p].state \in States
    BY NetTyped DEF P!SInv, P!TInv, P!TypeOK, P!Instances, P!NoInstance, P!States, States
  <2>2. m.type \in SagaEvents
    BY <1>8, <2>1 DEF IgnoreEvent, Ignores, States
  <2> QED
    BY <1>1, <1>8, <2>2, FinishHandles DEF IgnoreEvent
<1> QED
  BY <1>2, <1>3, <1>4, <1>5, <1>6, <1>7, <1>8 DEF HandleEvent

LEMMA TradingKeeps ==
    ASSUME P!SInv, TradingNext
    PROVE  /\ sent \subseteq sent'
           /\ \A m \in sent' \ sent : m.type \notin Updates
           /\ \A m \in net : m.type \in Commanded => m \in net'
<1>1. ASSUME NEW m \in net, HandleEvent(m)
      PROVE  /\ sent \subseteq sent' /\ \A n \in sent' \ sent : n.type \notin Updates
             /\ \A n \in net : n.type \in Commanded => n \in net'
  <2>1. Handles(m) /\ m.type \notin Commanded
    BY <1>1, EventHandles DEF SagaEvents, Commanded
  <2> QED
    BY <2>1 DEF Handles, Trading
<1>2. ASSUME sent' = sent, net \subseteq net'
      PROVE  /\ sent \subseteq sent' /\ \A n \in sent' \ sent : n.type \notin Updates
             /\ \A n \in net : n.type \in Commanded => n \in net'
  BY <1>2
<1> QED
  BY <1>1, <1>2 DEF TradingNext, SubmitPurchase, CatalogItemCreated, CatalogItemUpdated, TradingRestart

LEMMA TradingKeepsInv ==
    ASSUME FlowInv, TradingNext, UNCHANGED serviceVars
    PROVE  ServiceInv'
<1>1. /\ sent \subseteq sent' /\ \A m \in sent' \ sent : m.type \notin Updates
      /\ \A m \in net : m.type \in Commanded => m \in net'
  BY TradingKeeps DEF FlowInv
<1>2. UNCHANGED <<tasks, docs, known, users>>
  BY DEF serviceVars
<1>3. OneTask'
  BY <1>1, <1>2 DEF FlowInv, ServiceInv, OneTask, GoodTasks, GoodTask
<1>4. GoodTasks' /\ GoodDocs' /\ GoodUsers'
  BY <1>1, <1>2, GoodStays DEF FlowInv, ServiceInv, GoodTasks, GoodDocs, GoodUsers
<1>5. CurrentTasks' /\ UpdatesTyped' /\ (known \subseteq Items)'
  BY <1>1, <1>2 DEF FlowInv, ServiceInv, CurrentTasks, Current, Payer, UpdatesTyped
<1> QED
  BY <1>3, <1>4, <1>5 DEF ServiceInv

-----------------------------------------------------------------------------
(* What every step of a task has in common.                                *)

\* A task may publish answers to its message, and updates.
Answered(t, out) ==
    /\ Told(out) \subseteq P!Answers(t.msg)
    /\ \A m \in out : m.type \in Updates => m \in InventoryUpdates \cup UserUpdates

\* t becomes u, on the same message, and publishes out.
Becomes(t, u, out) ==
    Replace(t, u) /\ u.msg = t.msg /\ Publish(out) /\ Answered(t, out)

\* What the step of a task is to PurchaseSaga.
Serves(m) ==
    \/ \E out : Publish(out) /\ Told(out) \subseteq P!Answers(m)
    \/ Acknowledge(m, {})

LEMMA PublishNone == UNCHANGED <<net, sent>> => Publish({})
BY DEF Publish, Routed

LEMMA AnsweredNone == \A t : Answered(t, {})
BY DEF Answered, Told

LEMMA FaultAnswers ==
    ASSUME NEW t, t.msg.type \in Commanded, NEW out, Answered(t, out)
    PROVE  Answered(t, out \cup {Event(FaultType[t.msg.type], t.msg.p)})
<1> DEFINE f == Event(FaultType[t.msg.type], t.msg.p)
<1>1. f \in P!Answers(t.msg)
  <2>1. CASE t.msg.type = "GrantItems"
    BY <2>1 DEF P!Answers, FaultType, Event, P!Event
  <2>2. CASE t.msg.type = "SubtractItems"
    BY <2>2 DEF P!Answers, FaultType, Event, P!Event
  <2>3. CASE t.msg.type = "DebitGil"
    BY <2>3 DEF P!Answers, FaultType, Event, P!Event
  <2> QED
    BY <2>1, <2>2, <2>3 DEF Commanded
<1>2. f.type \notin Updates
  BY DEF Commanded, FaultType, Event, Updates
<1> HIDE DEF f
<1>3. Answered(t, out \cup {f})
  BY <1>1, <1>2 DEF Answered, Told
<1> QED
  BY <1>3 DEF f

\* A throw starts the task again or leaves it to be acknowledged.
LEMMA ThrowBecomes ==
    ASSUME NEW t \in TaskSet, t.msg.type \in Commanded, NEW out, Answered(t, out),
           NEW attempts, Throw(t, out, attempts)
    PROVE  \E u \in TaskSet : \E o : Becomes(t, u, o) /\ u.stage \in {"read", "ack"}
<1>1. CASE t.tries < attempts
  <2> DEFINE u == [NewTask(t.msg) EXCEPT !.tries = t.tries + 1]
  <2>1. u = [msg |-> t.msg, stage |-> "read", copy |-> <<>>, tries |-> t.tries + 1]
    BY DEF NewTask
  <2>2. u \in TaskSet /\ u.msg = t.msg /\ u.stage = "read"
    BY <2>1 DEF TaskSet, Stages, CopySet
  <2>3. Replace(t, u) /\ Publish(out)
    BY <1>1 DEF Throw
  <2> HIDE DEF u
  <2> QED
    BY <2>2, <2>3 DEF Becomes
<1>2. CASE ~(t.tries < attempts)
  <2> DEFINE u == [t EXCEPT !.stage = "ack", !.copy = <<>>]
             o == out \cup {Event(FaultType[t.msg.type], t.msg.p)}
  <2>1. u \in TaskSet /\ u.msg = t.msg /\ u.stage = "ack"
    BY DEF TaskSet, Stages, CopySet
  <2>2. Replace(t, u) /\ Publish(o)
    BY <1>2 DEF Throw, Advance
  <2>3. Answered(t, o)
    BY FaultAnswers
  <2> HIDE DEF u, o
  <2> QED
    BY <2>1, <2>2, <2>3 DEF Becomes
<1> QED
  BY <1>1, <1>2

LEMMA AdvanceBecomes ==
    ASSUME NEW t \in TaskSet, NEW out, Answered(t, out), Publish(out),
           NEW stage \in Stages, NEW copy \in CopySet, Advance(t, stage, copy)
    PROVE  \E u \in TaskSet : Becomes(t, u, out) /\ u.stage = stage /\ u.copy = copy
<1> DEFINE u == [t EXCEPT !.stage = stage, !.copy = copy]
<1>1. u \in TaskSet /\ u.msg = t.msg /\ u.stage = stage /\ u.copy = copy
  BY DEF TaskSet
<1>2. Replace(t, u)
  BY DEF Advance
<1> HIDE DEF u
<1> QED
  BY <1>1, <1>2 DEF Becomes

\* The invariant is kept by a step of t if it is for t, the documents and the users.
LEMMA BecomesKeeps ==
    ASSUME FlowInv, NEW t \in tasks, NEW u, NEW out, Becomes(t, u, out),
           DOMAIN users' = DOMAIN users, GoodTask(u)', Current(u)',
           \A v \in tasks : v # t => Current(v)',
           GoodDocs', GoodUsers', known' = known
    PROVE  ServiceInv' /\ Serves(t.msg)
<1>1. /\ tasks' = (tasks \ {t}) \cup {u} /\ u.msg = t.msg
      /\ sent' = sent \cup out /\ net \subseteq net'
  BY DEF Becomes, Replace, Publish
<1>2. OneTask'
  BY <1>1 DEF FlowInv, ServiceInv, OneTask
<1>3. GoodTasks'
  BY <1>1, GoodStays DEF FlowInv, ServiceInv, GoodTasks
<1>4. CurrentTasks'
  BY <1>1 DEF CurrentTasks
<1>5. UpdatesTyped'
  BY <1>1 DEF FlowInv, ServiceInv, UpdatesTyped, Becomes, Answered
<1>6. Serves(t.msg)
  BY DEF Becomes, Answered, Serves
<1> QED
  BY <1>2, <1>3, <1>4, <1>5, <1>6 DEF FlowInv, ServiceInv

\* A step that leaves documents and users alone.
LEMMA QuietKeeps ==
    ASSUME FlowInv, NEW t \in tasks, NEW u, NEW out, Becomes(t, u, out),
           UNCHANGED <<docs, known, users>>, GoodTask(u), Current(u)
    PROVE  ServiceInv' /\ Serves(t.msg)
<1>1. sent \subseteq sent'
  BY DEF Becomes, Publish
<1>2. GoodTask(u)' /\ GoodDocs' /\ GoodUsers'
  BY <1>1, GoodStays DEF FlowInv, ServiceInv, GoodDocs, GoodUsers
<1>3. \A v : Current(v) => Current(v)'
  BY DEF Current, Payer
<1>4. \A v \in tasks : Current(v)
  BY DEF FlowInv, ServiceInv, CurrentTasks
<1> QED
  BY <1>2, <1>3, <1>4, BecomesKeeps

LEMMA ThrowKeeps ==
    ASSUME FlowInv, NEW t \in tasks, NEW out, Answered(t, out),
           NEW attempts, Throw(t, out, attempts), UNCHANGED <<docs, known, users>>
    PROVE  ServiceInv' /\ Serves(t.msg)
<1>1. t \in TaskSet /\ t.msg.type \in Commanded
  BY DEF FlowInv, ServiceInv, GoodTasks, GoodTask
<1>2. PICK u \in TaskSet : \E o : Becomes(t, u, o) /\ u.stage \in {"read", "ack"}
  BY <1>1, ThrowBecomes
<1>3. GoodTask(u) /\ Current(u)
  BY <1>1, <1>2 DEF GoodTask, Current, Becomes
<1> QED
  BY <1>2, <1>3, QuietKeeps

LEMMA SettleKeeps ==
    ASSUME FlowInv, NEW t \in tasks, Settle(t), UNCHANGED <<docs, known, users>>
    PROVE  ServiceInv' /\ Serves(t.msg)
<1>1. /\ tasks' = tasks \ {t} /\ sent' = sent /\ net' = net \ {t.msg}
  BY DEF Settle, Acknowledge, Routed
<1>2. OneTask'
  BY <1>1 DEF FlowInv, ServiceInv, OneTask
<1>3. GoodTasks' /\ GoodDocs' /\ GoodUsers'
  BY <1>1, GoodStays DEF FlowInv, ServiceInv, GoodTasks, GoodDocs, GoodUsers
<1>4. CurrentTasks' /\ UpdatesTyped' /\ (known \subseteq Items)'
  BY <1>1 DEF FlowInv, ServiceInv, CurrentTasks, Current, Payer, UpdatesTyped
<1>5. Serves(t.msg)
  BY DEF Settle, Serves
<1> QED
  BY <1>2, <1>3, <1>4, <1>5 DEF ServiceInv

-----------------------------------------------------------------------------
(* Inventory's steps.                                                      *)

LEMMA QuantityIsInt == \A q \in Quantities : q \in Nat /\ q \in Int
<1> SUFFICES ASSUME NEW q \in Quantities PROVE q \in Nat
  OBVIOUS
<1> QED
  BY PurchaseAssumption

LEMMA EffectIsInt ==
    ASSUME NEW m, m \in ItemCommands \/ (m \in GilCommands /\ m.type = "DebitGil")
    PROVE  Effect(m) \in Int
<1>1. CASE m \in ItemCommands
  <2>1. m.qty \in Quantities /\ m.type \in {"GrantItems", "SubtractItems"}
    BY <1>1 DEF ItemCommands
  <2>2. m.qty \in Int
    BY <2>1, QuantityIsInt
  <2> QED
    BY <2>1, <2>2 DEF Effect
<1>2. CASE m \in GilCommands /\ m.type = "DebitGil"
  BY <1>2 DEF GilCommands, Effect
<1> QED
  BY <1>1, <1>2

\* A new document, and one more command in a document.
LEMMA FirstGrant ==
    ASSUME NEW m \in ItemCommands, m \in sent, m.type = "GrantItems"
    PROVE  GoodDoc(Key(m), Doc(m.qty, {m}))
<1>1. Effect(m) = m.qty /\ m.qty \in Int
  BY QuantityIsInt DEF Effect, ItemCommands
<1>2. Integral({})
  BY FS_EmptySet DEF Integral
<1>3. MapThenSumSet(Effect, {m}) = m.qty
  <2>1. {} \cup {m} = {m}
    OBVIOUS
  <2>2. MapThenSumSet(Effect, {} \cup {m}) = 0 + m.qty
    BY <1>1, <1>2, SumOfNone, SumOfOneMore
  <2> QED
    BY <1>1, <2>1, <2>2
<1> QED
  BY <1>1, <1>3, FS_Singleton DEF GoodDoc, Doc, DocSet

LEMMA OneMoreCommand ==
    ASSUME NEW m \in ItemCommands, m \in sent, NEW d, GoodDoc(Key(m), d), m \notin d.seen
    PROVE  GoodDoc(Key(m), Doc(d.qty + Effect(m), d.seen \cup {m}))
<1>1. Integral(d.seen) /\ Effect(m) \in Int /\ d.qty \in Int
  BY EffectIsInt DEF GoodDoc, DocSet, Integral
<1>2. d.qty + Effect(m) = MapThenSumSet(Effect, d.seen \cup {m})
  BY <1>1, SumOfOneMore DEF GoodDoc
<1>3. IsFiniteSet(d.seen \cup {m})
  BY FS_AddElement DEF GoodDoc
<1>4. /\ d.seen \cup {m} \subseteq ItemCommands /\ d.seen \cup {m} \subseteq sent
      /\ \A n \in d.seen \cup {m} : Key(n) = Key(m)
  BY DEF GoodDoc, DocSet
<1> DEFINE e == Doc(d.qty + Effect(m), d.seen \cup {m})
<1>5. e \in DocSet /\ e.qty = d.qty + Effect(m) /\ e.seen = d.seen \cup {m}
  BY <1>1, <1>4 DEF Doc, DocSet
<1> HIDE DEF e
<1>6. GoodDoc(Key(m), e)
  BY <1>2, <1>3, <1>4, <1>5 DEF GoodDoc
<1> QED
  BY <1>6 DEF e

LEMMA ItemTask ==
    ASSUME FlowInv, NEW t \in tasks, t.msg.type \in InventoryTypes
    PROVE  /\ t \in TaskSet /\ t.msg \in net /\ t.msg.type \in Commanded
           /\ t.msg \in ItemCommands /\ t.msg \in sent /\ Key(t.msg) \in Keys
           /\ \A u : u.msg = t.msg => Current(u)
<1>1. t \in TaskSet /\ t.msg \in net /\ t.msg.type \in Commanded
  BY DEF FlowInv, ServiceInv, GoodTasks, GoodTask, OneTask
<1>2. t.msg \in ItemCommands /\ t.msg \in sent
  BY <1>1, NetTyped DEF FlowInv, InventoryTypes
<1>3. Key(t.msg) \in Keys
  BY <1>2, PurchaseAssumption DEF ItemCommands, Key, Keys
<1>4. \A u : u.msg = t.msg => Current(u)
  BY DEF Current, InventoryTypes
<1> QED
  BY <1>1, <1>2, <1>3, <1>4

\* The document a query returns.
LEMMA FoundDoc ==
    ASSUME FlowInv, NEW k \in Keys, docs[k] # <<>>
    PROVE  1 \in DOMAIN docs[k] /\ GoodDoc(k, docs[k][1])
<1>1. docs[k] \in Seq(DocSet)
  BY DEF FlowInv, ServiceInv, GoodDocs
<1>2. 1 \in DOMAIN docs[k]
  BY <1>1
<1> QED
  BY <1>2 DEF FlowInv, ServiceInv, GoodDocs

\* A query's answer makes a good document to store.
LEMMA ReadKeeps ==
    ASSUME FlowInv, NEW t \in tasks, t.msg.type \in InventoryTypes,
           NEW qty, NEW seen, NEW new \in BOOLEAN,
           GoodDoc(Key(t.msg), Doc(qty, seen)),
           Advance(t, "write", Copy(qty, seen, new)),
           UNCHANGED <<net, sent, docs, known, users>>
    PROVE  ServiceInv' /\ Serves(t.msg)
<1> DEFINE c == Copy(qty, seen, new)
<1>1. c \in [doc : DocSet, new : BOOLEAN] /\ c.doc = Doc(qty, seen)
  BY DEF GoodDoc, Copy
<1>2. c \in CopySet /\ "write" \in Stages
  BY <1>1 DEF CopySet, Stages
<1>3. Advance(t, "write", c)
  OBVIOUS
<1> HIDE DEF c
<1>4. PICK u \in TaskSet : Becomes(t, u, {}) /\ u.stage = "write" /\ u.copy = c
  BY <1>2, <1>3, ItemTask, PublishNone, AnsweredNone, AdvanceBecomes
<1>5. u.msg = t.msg
  BY <1>4 DEF Becomes
<1>6. GoodTask(u) /\ Current(u)
  BY <1>1, <1>4, <1>5, ItemTask DEF GoodTask, GoodCopy, InventoryTypes
<1> QED
  BY <1>4, <1>6, QuietKeeps

\* A step to a stage that needs no document.
LEMMA PassKeeps ==
    ASSUME FlowInv, NEW t \in tasks, NEW out, Publish(out), Answered(t, out),
           NEW stage \in {"republish", "ack"}, Advance(t, stage, <<>>),
           UNCHANGED <<docs, known, users>>
    PROVE  ServiceInv' /\ Serves(t.msg)
<1>1. t \in TaskSet /\ t.msg.type \in Commanded
  BY DEF FlowInv, ServiceInv, GoodTasks, GoodTask
<1>2. stage \in Stages /\ <<>> \in CopySet
  BY DEF Stages, CopySet
<1>3. PICK u \in TaskSet : Becomes(t, u, out) /\ u.stage = stage
  BY <1>1, <1>2, AdvanceBecomes
<1>4. GoodTask(u) /\ Current(u)
  BY <1>1, <1>3 DEF GoodTask, Current, Becomes
<1> QED
  BY <1>3, <1>4, QuietKeeps

LEMMA GrantReadKeeps ==
    ASSUME FlowInv, NEW t \in tasks, GrantRead(t), UNCHANGED users
    PROVE  ServiceInv' /\ Serves(t.msg)
<1> DEFINE m == t.msg
           k == Key(m)
<1>1. /\ m.type = "GrantItems" /\ m.type \in InventoryTypes
      /\ UNCHANGED <<net, sent, docs, known, users>>
  BY DEF GrantRead, InventoryTypes
<1>2. m \in ItemCommands /\ m \in sent /\ k \in Keys
  BY <1>1, ItemTask
<1>3. CASE docs[k] = <<>>
  <2>1. Advance(t, "write", Copy(m.qty, {m}, TRUE))
    BY <1>3 DEF GrantRead
  <2> QED
    BY <1>1, <1>2, <2>1, FirstGrant, ReadKeeps
<1>4. CASE docs[k] # <<>> /\ m \in docs[k][1].seen
  <2>1. Advance(t, "republish", <<>>)
    BY <1>4 DEF GrantRead
  <2> QED
    BY <1>1, <2>1, PublishNone, AnsweredNone, PassKeeps
<1>5. CASE docs[k] # <<>> /\ m \notin docs[k][1].seen
  <2>1. Advance(t, "write", Copy(docs[k][1].qty + m.qty, docs[k][1].seen \cup {m}, FALSE))
    BY <1>5 DEF GrantRead
  <2>2. GoodDoc(k, Doc(docs[k][1].qty + Effect(m), docs[k][1].seen \cup {m}))
    BY <1>2, <1>5, FoundDoc, OneMoreCommand
  <2>3. Effect(m) = m.qty
    BY <1>1 DEF Effect
  <2> QED
    BY <1>1, <2>1, <2>2, <2>3, ReadKeeps
<1> QED
  BY <1>3, <1>4, <1>5

LEMMA SubtractReadKeeps ==
    ASSUME FlowInv, NEW t \in tasks, SubtractRead(t), UNCHANGED users
    PROVE  ServiceInv' /\ Serves(t.msg)
<1> DEFINE m == t.msg
           k == Key(m)
<1>1. /\ m.type = "SubtractItems" /\ m.type \in InventoryTypes
      /\ UNCHANGED <<net, sent, docs, known, users>>
  BY DEF SubtractRead, InventoryTypes
<1>2. m \in ItemCommands /\ m \in sent /\ k \in Keys
  BY <1>1, ItemTask
<1>3. CASE docs[k] = <<>> \/ m \in docs[k][1].seen
  <2>1. Advance(t, "republish", <<>>)
    BY <1>3 DEF SubtractRead
  <2> QED
    BY <1>1, <2>1, PublishNone, AnsweredNone, PassKeeps
<1>4. CASE docs[k] # <<>> /\ m \notin docs[k][1].seen
  <2>1. Advance(t, "write", Copy(docs[k][1].qty - m.qty, docs[k][1].seen \cup {m}, FALSE))
    BY <1>4 DEF SubtractRead
  <2>2. GoodDoc(k, docs[k][1]) /\ docs[k][1].qty \in Int
    BY <1>2, <1>4, FoundDoc DEF GoodDoc, DocSet
  <2>3. GoodDoc(k, Doc(docs[k][1].qty + Effect(m), docs[k][1].seen \cup {m}))
    BY <1>2, <1>4, <2>2, OneMoreCommand
  <2>4. m.qty \in Int /\ Effect(m) = -m.qty
    BY <1>1, <1>2, QuantityIsInt DEF Effect, ItemCommands
  <2>5. docs[k][1].qty + Effect(m) = docs[k][1].qty - m.qty
    BY <2>2, <2>4
  <2> QED
    BY <1>1, <2>1, <2>3, <2>5, ReadKeeps
<1> QED
  BY <1>3, <1>4

\* A sequence of documents with one more, or with its first replaced.
LEMMA StoredSeq ==
    ASSUME NEW s \in Seq(DocSet), NEW d \in DocSet, NEW r,
           r = Append(s, d) \/ r = [s EXCEPT ![1] = d]
    PROVE  /\ r \in Seq(DocSet)
           /\ \A i \in DOMAIN r : r[i] = d \/ (i \in DOMAIN s /\ r[i] = s[i])
<1>1. CASE r = Append(s, d)
  <2>1. r \in Seq(DocSet) /\ Len(r) = Len(s) + 1 /\ Len(s) \in Nat
    BY <1>1, AppendProperties
  <2>2. \A i \in 1..Len(s) : r[i] = s[i]
    BY <1>1, AppendProperties
  <2>3. r[Len(s) + 1] = d
    BY <1>1, AppendProperties
  <2>4. DOMAIN r = 1..(Len(s) + 1) /\ DOMAIN s = 1..Len(s)
    BY <2>1
  <2>5. ASSUME NEW i \in DOMAIN r PROVE r[i] = d \/ (i \in DOMAIN s /\ r[i] = s[i])
    <3>1. i \in 1..Len(s) \/ i = Len(s) + 1
      <4>1. i \in 1..(Len(s) + 1) /\ Len(s) \in Nat
        BY <2>1, <2>4
      <4> QED
        BY <4>1
    <3> QED
      BY <2>2, <2>3, <2>4, <3>1
  <2> QED
    BY <2>1, <2>5
<1>2. CASE r = [s EXCEPT ![1] = d] /\ Len(s) # 0
  <2>1. Len(s) \in Nat /\ 1 \in 1..Len(s) /\ DOMAIN s = 1..Len(s)
    BY <1>2
  <2>2. r \in Seq(DocSet) /\ \A i \in 1..Len(s) : r[i] = IF i = 1 THEN d ELSE s[i]
    BY <1>2, <2>1, ExceptSeq
  <2>3. DOMAIN r = DOMAIN s
    BY <1>2
  <2> QED
    BY <2>1, <2>2, <2>3
<1>3. CASE r = [s EXCEPT ![1] = d] /\ Len(s) = 0
  <2>1. DOMAIN s = {}
    BY <1>3
  <2>2. s = r
    BY <1>3, <2>1
  <2> QED
    BY <2>1, <2>2
<1> QED
  BY <1>1, <1>2, <1>3

LEMMA StoredKeeps ==
    ASSUME FlowInv, NEW t \in tasks, t.msg.type \in InventoryTypes, t.stage = "write",
           sent \subseteq sent', docs' \in {docs, Stored(t)}, DOMAIN users' = DOMAIN users
    PROVE  GoodDocs'
<1> DEFINE k == Key(t.msg)
           d == t.copy.doc
<1>1. k \in Keys /\ d \in DocSet /\ GoodDoc(k, d)
  BY ItemTask DEF FlowInv, ServiceInv, GoodTasks, GoodTask, GoodCopy, InventoryTypes
<1>2. /\ docs \in [Keys -> Seq(DocSet)]
      /\ \A j \in Keys : \A i \in DOMAIN docs[j] : GoodDoc(j, docs[j][i])
  BY DEF FlowInv, ServiceInv, GoodDocs
<1> DEFINE s == docs[k]
<1>3. \/ docs' = docs
      \/ docs' = [docs EXCEPT ![k] = Append(s, d)]
      \/ docs' = [docs EXCEPT ![k] = [s EXCEPT ![1] = d]]
  BY DEF Stored
<1>4. s \in Seq(DocSet) /\ s = docs[k]
  BY <1>1, <1>2
<1> HIDE DEF k, d, s
<1> DEFINE New(j, i) == docs'[j][i] = d /\ j = k
           Old(j, i) == i \in DOMAIN docs[j] /\ docs'[j][i] = docs[j][i]
           Each == /\ docs' \in [Keys -> Seq(DocSet)]
                   /\ \A j \in Keys : \A i \in DOMAIN docs'[j] : New(j, i) \/ Old(j, i)
<1>5. Each
  <2>1. CASE docs' = docs
    BY <1>2, <2>1
  <2>2. ASSUME NEW r, docs' = [docs EXCEPT ![k] = r],
               r = Append(s, d) \/ r = [s EXCEPT ![1] = d]
        PROVE  Each
    <3>1. s \in Seq(DocSet) /\ d \in DocSet /\ (r = Append(s, d) \/ r = [s EXCEPT ![1] = d])
      BY <1>1, <1>4, <2>2, Zenon
    <3>2. /\ r \in Seq(DocSet)
          /\ \A i \in DOMAIN r : r[i] = d \/ (i \in DOMAIN s /\ r[i] = s[i])
      BY ONLY <3>1, StoredSeq, Zenon
    <3>3. \A j \in Keys : docs'[j] = IF j = k THEN r ELSE docs[j]
      <4>1. docs' = [docs EXCEPT ![k] = r] /\ DOMAIN docs = Keys
        BY <1>2, <2>2, Zenon
      <4> QED
        BY <4>1, Zenon
    <3>4. docs' \in [Keys -> Seq(DocSet)]
      BY <1>2, <2>2, <3>2
    <3>5. ASSUME NEW j \in Keys, NEW i \in DOMAIN docs'[j] PROVE New(j, i) \/ Old(j, i)
      <4>1. CASE j = k
        <5>1. docs'[j] = r
          BY <3>3, <4>1
        <5>2. r[i] = d \/ (i \in DOMAIN docs[k] /\ r[i] = docs[k][i])
          BY <1>4, <3>2, <5>1
        <5> QED
          BY <4>1, <5>1, <5>2
      <4>2. CASE j # k
        BY <3>3, <4>2
      <4> QED
        BY <4>1, <4>2
    <3> QED
      BY <3>4, <3>5
  <2> HIDE DEF Each
  <2> QED
    BY <1>3, <2>1, <2>2
<1>6. ASSUME NEW j \in Keys, NEW i \in DOMAIN docs'[j]
      PROVE  GoodDoc(j, docs[j][i])'
  <2>1. PICK e : e = docs'[j][i]
    OBVIOUS
  <2>2. GoodDoc(j, e)
    BY <1>1, <1>2, <1>5, <2>1
  <2>3. GoodDoc(j, e)'
    BY <2>2, GoodStays
  <2> QED
    BY <2>1, <2>3 DEF GoodDoc
<1> QED
  BY <1>5, <1>6 DEF GoodDocs

LEMMA StoreDocKeeps ==
    ASSUME FlowInv, NEW t \in tasks, StoreDoc(t), UNCHANGED users
    PROVE  ServiceInv' /\ Serves(t.msg)
<1>1. /\ t.stage = "write" /\ t.msg.type \in InventoryTypes /\ docs' = Stored(t)
      /\ Advance(t, "publish", t.copy) /\ UNCHANGED <<net, sent, known>>
  BY DEF StoreDoc
<1>2. t \in TaskSet /\ t.copy \in CopySet /\ "publish" \in Stages
  BY <1>1, ItemTask DEF TaskSet, Stages
<1>3. PICK u \in TaskSet : Becomes(t, u, {}) /\ u.stage = "publish" /\ u.copy = t.copy
  BY <1>1, <1>2, PublishNone, AnsweredNone, AdvanceBecomes
<1>4. u.msg = t.msg
  BY <1>3 DEF Becomes
<1>5. GoodTask(u)
  <2>1. GoodTask(t)
    BY DEF FlowInv, ServiceInv, GoodTasks
  <2> QED
    BY <1>1, <1>3, <1>4, <2>1 DEF GoodTask, GoodCopy, Payer
<1>6. GoodTask(u)' /\ GoodDocs' /\ GoodUsers'
  BY <1>1, <1>5, GoodStays, StoredKeeps DEF FlowInv, ServiceInv, GoodUsers
<1>7. /\ Current(u)' /\ \A v \in tasks : v # t => Current(v)'
      /\ DOMAIN users' = DOMAIN users /\ known' = known
  BY <1>1, <1>3 DEF FlowInv, ServiceInv, CurrentTasks, Current, Payer
<1> QED
  BY <1>3, <1>6, <1>7, BecomesKeeps

LEMMA StoreFailsKeeps ==
    ASSUME FlowInv, NEW t \in tasks, StoreFails(t), UNCHANGED users
    PROVE  ServiceInv' /\ Serves(t.msg)
<1>1. /\ t.stage = "write" /\ t.msg.type \in InventoryTypes /\ docs' \in {docs, Stored(t)}
      /\ Throw(t, {}, InventoryRetries) /\ UNCHANGED known
  BY DEF StoreFails
<1>2. t \in TaskSet /\ t.msg.type \in Commanded
  BY <1>1, ItemTask
<1>3. PICK u \in TaskSet : \E o : Becomes(t, u, o) /\ u.stage \in {"read", "ack"}
  BY <1>1, <1>2, AnsweredNone, ThrowBecomes
<1>4. sent \subseteq sent' /\ u.msg = t.msg
  BY <1>3 DEF Becomes, Publish
<1>5. GoodTask(u)' /\ GoodDocs' /\ GoodUsers'
  BY <1>1, <1>2, <1>3, <1>4, GoodStays, StoredKeeps
     DEF FlowInv, ServiceInv, GoodUsers, GoodTask
<1>6. /\ Current(u)' /\ \A v \in tasks : v # t => Current(v)'
      /\ DOMAIN users' = DOMAIN users /\ known' = known
  BY <1>1, <1>3 DEF FlowInv, ServiceInv, CurrentTasks, Current, Payer
<1> QED
  BY <1>3, <1>5, <1>6, BecomesKeeps

LEMMA InventoryAnswers ==
    ASSUME FlowInv, NEW t \in tasks, t.msg.type \in InventoryTypes,
           t.stage \in {"publish", "republish"},
           NEW out, out \subseteq (IF t.msg.type = "GrantItems" THEN GrantOut(t) ELSE SubtractOut(t))
    PROVE  Answered(t, out)
<1> DEFINE m == t.msg
           n == InventoryItemUpdated(m, t.copy.doc)
<1>1. m \in ItemCommands /\ UserOf[m.p] \in Users /\ m.item \in Items
  BY ItemTask, PurchaseAssumption DEF ItemCommands
<1>2. n.type = "InventoryItemUpdated" /\ n.type \in Updates
  BY DEF InventoryItemUpdated, Updates
<1>3. t.stage = "publish" => n \in InventoryUpdates
  <2>1. t.stage = "publish" => t.copy.doc.qty \in Int
    BY DEF FlowInv, ServiceInv, GoodTasks, GoodTask, GoodCopy, GoodDoc, DocSet, InventoryTypes
  <2> QED
    BY <1>1, <2>1 DEF InventoryItemUpdated, InventoryUpdates
<1>4. ASSUME NEW a \in out
      PROVE  \/ t.stage = "publish" /\ a = n
             \/ a.type \notin Updates /\ a \in P!Answers(m)
  <2>1. CASE m.type = "GrantItems"
    <3>1. a = Event("InventoryItemsGranted", m.p) \/ (t.stage = "publish" /\ a = n)
      BY <2>1 DEF GrantOut
    <3> QED
      BY <2>1, <3>1 DEF Event, P!Event, P!Answers, Updates
  <2>2. CASE m.type = "SubtractItems"
    <3>1. a = Event("InventoryItemsSubtracted", m.p) \/ (t.stage = "publish" /\ a = n)
      BY <2>2 DEF SubtractOut
    <3> QED
      BY <2>2, <3>1 DEF Event, P!Event, P!Answers, Updates
  <2> QED
    BY <2>1, <2>2 DEF InventoryTypes
<1> HIDE DEF n
<1> QED
  BY <1>2, <1>3, <1>4 DEF Answered, Told

LEMMA InventoryTaskKeeps ==
    ASSUME FlowInv, NEW t \in tasks, InventoryTask(t), UNCHANGED users
    PROVE  ServiceInv' /\ Serves(t.msg)
<1>1. CASE ItemUnknown(t) \/ ReadFails(t)
  BY <1>1, AnsweredNone, ThrowKeeps DEF ItemUnknown, ReadFails
<1>2. CASE GrantRead(t)
  BY <1>2, GrantReadKeeps
<1>3. CASE SubtractRead(t)
  BY <1>3, SubtractReadKeeps
<1>4. CASE StoreDoc(t)
  BY <1>4, StoreDocKeeps
<1>5. CASE GrantPublish(t)
  <2>1. Answered(t, GrantOut(t))
    BY <1>5, InventoryAnswers DEF GrantPublish, InventoryTypes
  <2> QED
    BY <1>5, <2>1, PassKeeps DEF GrantPublish
<1>6. CASE SubtractPublish(t)
  <2>1. Answered(t, SubtractOut(t))
    BY <1>6, InventoryAnswers DEF SubtractPublish, InventoryTypes
  <2>2. PICK stage \in {"republish", "ack"} : Advance(t, stage, <<>>)
    BY <1>6 DEF SubtractPublish
  <2> QED
    BY <1>6, <2>1, <2>2, PassKeeps DEF SubtractPublish
<1>7. CASE StoreFails(t)
  BY <1>7, StoreFailsKeeps
<1>8. CASE PublishFails(t)
  <2>1. PICK out \in SUBSET (IF t.msg.type = "GrantItems" THEN GrantOut(t) ELSE SubtractOut(t)) :
            Throw(t, out, InventoryRetries)
    BY <1>8 DEF PublishFails
  <2>2. Answered(t, out)
    BY <1>8, InventoryAnswers DEF PublishFails
  <2> QED
    BY <1>8, <2>1, <2>2, ThrowKeeps DEF PublishFails
<1>9. CASE Settle(t) /\ UNCHANGED <<docs, known>>
  BY <1>9, SettleKeeps
<1> QED
  BY <1>1, <1>2, <1>3, <1>4, <1>5, <1>6, <1>7, <1>8, <1>9 DEF InventoryTask

-----------------------------------------------------------------------------
(* Identity's steps.                                                       *)

LEMMA DebitTaskOf ==
    ASSUME FlowInv, NEW t \in tasks, t.msg.type = "DebitGil"
    PROVE  /\ t \in TaskSet /\ t.msg \in net /\ t.msg.type \in Commanded
           /\ t.msg \in GilCommands /\ t.msg \in sent /\ t.msg.total \in Nat
           /\ Payer(t) \in Users
<1>1. t \in TaskSet /\ t.msg \in net /\ t.msg.type \in Commanded
  BY DEF FlowInv, ServiceInv, GoodTasks, GoodTask, OneTask
<1>2. t.msg \in GilCommands /\ t.msg \in sent
  BY <1>1, NetTyped DEF FlowInv
<1>3. t.msg.total \in Nat /\ Payer(t) \in Users
  BY <1>2, PurchaseAssumption DEF GilCommands, Payer
<1> QED
  BY <1>1, <1>2, <1>3

\* A good user who can pay is a good user once it paid.
LEMMA OneMoreDebit ==
    ASSUME NEW m \in GilCommands, m \in sent, m.type = "DebitGil",
           NEW a, GoodUser(UserOf[m.p], a), UserOf[m.p] \in DOMAIN InitialGil,
           m \notin a.seen, a.gil >= m.total
    PROVE  GoodUser(UserOf[m.p], User(a.gil - m.total, a.seen \cup {m}, a.stamp))
<1> DEFINE u == UserOf[m.p]
           b == User(a.gil - m.total, a.seen \cup {m}, a.stamp)
<1>1. m.total \in Nat /\ a.gil \in Nat /\ a.stamp \in Nat /\ InitialGil[u] \in Nat
  BY DebitAssumption DEF GilCommands, GoodUser, UserSet
<1>2. Effect(m) = -m.total /\ Effect(m) \in Int
  BY <1>1 DEF Effect
<1>3. Integral(a.seen)
  <2>1. \A n \in a.seen : n \in GilCommands /\ n.type = "DebitGil"
    BY DEF GoodUser, UserSet
  <2> QED
    BY <2>1, EffectIsInt DEF GoodUser, Integral
<1>4. /\ MapThenSumSet(Effect, a.seen) \in Int
      /\ MapThenSumSet(Effect, a.seen \cup {m}) = MapThenSumSet(Effect, a.seen) + Effect(m)
  BY <1>2, <1>3, SumOfOneMore
<1>5. a.gil = InitialGil[u] + MapThenSumSet(Effect, a.seen)
  BY DEF GoodUser
<1>6. /\ a.gil - m.total \in Nat
      /\ a.gil - m.total = InitialGil[u] + MapThenSumSet(Effect, a.seen \cup {m})
  BY <1>1, <1>2, <1>4, <1>5
<1>7. /\ b \in UserSet /\ b.seen = a.seen \cup {m} /\ b.gil = a.gil - m.total
      /\ IsFiniteSet(b.seen)
  BY <1>1, <1>6, FS_AddElement DEF GoodUser, User, UserSet
<1>8. b.seen \subseteq sent /\ \A n \in b.seen : n.type = "DebitGil" /\ UserOf[n.p] = u
  BY <1>7 DEF GoodUser
<1> HIDE DEF b
<1>9. GoodUser(u, b)
  BY <1>6, <1>7, <1>8 DEF GoodUser
<1> QED
  BY <1>9 DEF b

LEMMA DebitReadKeeps ==
    ASSUME FlowInv, NEW t \in tasks, DebitRead(t), UNCHANGED <<docs, known>>
    PROVE  ServiceInv' /\ Serves(t.msg)
<1> DEFINE m == t.msg
           a == users[Payer(t)]
           c == User(a.gil - m.total, a.seen \cup {m}, a.stamp)
<1>1. /\ m.type = "DebitGil" /\ t.stage = "read" /\ Payer(t) \in DOMAIN users
      /\ UNCHANGED <<net, sent, docs, known, users>>
  BY DEF DebitRead, Debiting
<1>2. DOMAIN users = DOMAIN InitialGil /\ GoodUser(Payer(t), a)
  BY <1>1 DEF FlowInv, ServiceInv, GoodUsers
<1>3. CASE m \in a.seen /\ Advance(t, "republish", <<>>)
  BY <1>1, <1>3, PublishNone, AnsweredNone, PassKeeps
<1>4. CASE m \notin a.seen /\ a.gil >= m.total /\ Advance(t, "write", c)
  <2>1. GoodUser(Payer(t), c)
    BY <1>1, <1>2, <1>4, DebitTaskOf, OneMoreDebit DEF Payer
  <2>2. c.stamp = a.stamp /\ c.seen = a.seen \cup {m} /\ a.stamp \in Nat
    BY <1>2 DEF User, GoodUser, UserSet
  <2> HIDE DEF c
  <2>3. c \in CopySet /\ "write" \in Stages
    BY <2>1 DEF GoodUser, CopySet, Stages
  <2>4. PICK u \in TaskSet : Becomes(t, u, {}) /\ u.stage = "write" /\ u.copy = c
    BY <1>1, <1>4, <2>3, DebitTaskOf, PublishNone, AnsweredNone, AdvanceBecomes
  <2>5. u.msg = m
    BY <2>4 DEF Becomes
  <2>6. GoodTask(u)
    BY <1>1, <2>1, <2>4, <2>5, DebitTaskOf DEF GoodTask, GoodCopy, Payer
  <2>7. Current(u)
    BY <2>2, <2>4, <2>5 DEF Current, Payer
  <2> QED
    BY <1>1, <2>4, <2>6, <2>7, QuietKeeps
<1> QED
  BY <1>3, <1>4 DEF DebitRead

\* The update of a user: taken or not, it leaves good users, and no task with
\* an older user becomes able to store it.
LEMMA UpdatedKeeps ==
    ASSUME FlowInv, NEW t \in tasks, Debiting(t, "write"), sent \subseteq sent',
           users' \in {users, Updated(Payer(t), t.copy)}
    PROVE  /\ DOMAIN users' = DOMAIN users /\ GoodUsers'
           /\ \A v \in tasks : v # t => Current(v)'
<1> DEFINE p == Payer(t)
           c == t.copy
           b == User(c.gil, c.seen, c.stamp + 1)
<1>1. /\ users \in [DOMAIN InitialGil -> UserSet] /\ DOMAIN users = DOMAIN InitialGil
      /\ \A u \in DOMAIN InitialGil : GoodUser(u, users[u])
  BY DEF FlowInv, ServiceInv, GoodUsers
<1>2. p \in DOMAIN users /\ GoodUser(p, c) /\ c \in UserSet
  BY DEF FlowInv, ServiceInv, GoodTasks, GoodTask, GoodCopy, Debiting, GoodUser
<1>3. GoodUser(p, b) /\ b \in UserSet /\ b.stamp = c.stamp + 1
  BY <1>2 DEF GoodUser, User, UserSet
<1>4. \/ users' = users
      \/ users[p].stamp = c.stamp /\ users' = [users EXCEPT ![p] = b]
  BY DEF Updated
<1> HIDE DEF p, c, b
<1>5. users' \in [DOMAIN InitialGil -> UserSet] /\ DOMAIN users' = DOMAIN users
  BY <1>1, <1>2, <1>3, <1>4
<1>6. ASSUME NEW u \in DOMAIN InitialGil PROVE GoodUser(u, users[u])'
  <2>1. PICK e : e = users'[u]
    OBVIOUS
  <2>2. GoodUser(u, e)
    BY <1>1, <1>2, <1>3, <1>4, <2>1
  <2>3. GoodUser(u, e)'
    BY <1>5, <2>2, GoodStays
  <2> QED
    BY <2>1, <2>3 DEF GoodUser
<1>7. ASSUME NEW v \in tasks, v # t PROVE Current(v)'
  <2> SUFFICES ASSUME v.msg.type = "DebitGil", v.stage = "write"
               PROVE  /\ v.copy.stamp <= users'[Payer(v)].stamp
                      /\ v.copy.stamp = users'[Payer(v)].stamp =>
                             v.copy.seen = users'[Payer(v)].seen \cup {v.msg}
    BY DEF Current, Payer
  <2>1. /\ v.copy.stamp <= users[Payer(v)].stamp
        /\ v.copy.stamp = users[Payer(v)].stamp =>
               v.copy.seen = users[Payer(v)].seen \cup {v.msg}
    BY DEF FlowInv, ServiceInv, CurrentTasks, Current
  <2>2. Payer(v) \in DOMAIN users /\ v.copy.stamp \in Nat
    BY DEF FlowInv, ServiceInv, GoodTasks, GoodTask, GoodCopy, GoodUser, UserSet
  <2>3. CASE users' = users \/ Payer(v) # p
    <3>1. users'[Payer(v)] = users[Payer(v)]
      BY <1>1, <1>4, <2>2, <2>3
    <3> QED
      BY <2>1, <3>1
  <2>4. CASE users[p].stamp = c.stamp /\ users' = [users EXCEPT ![p] = b] /\ Payer(v) = p
    <3>1. users'[Payer(v)].stamp = users[Payer(v)].stamp + 1 /\ users[Payer(v)].stamp \in Nat
      BY <1>1, <1>2, <1>3, <2>4 DEF UserSet
    <3> QED
      BY <2>1, <2>2, <3>1
  <2> QED
    BY <1>4, <2>3, <2>4
<1> QED
  BY <1>5, <1>6, <1>7 DEF GoodUsers

LEMMA DebitWriteKeeps ==
    ASSUME FlowInv, NEW t \in tasks, DebitWrite(t), UNCHANGED <<docs, known>>
    PROVE  ServiceInv' /\ Serves(t.msg)
<1>1. /\ Debiting(t, "write") /\ t.msg.type = "DebitGil" /\ t.stage = "write"
      /\ users' = Updated(Payer(t), t.copy)
      /\ Advance(t, "publish", t.copy) /\ UNCHANGED <<net, sent>>
  BY DEF DebitWrite, Debiting
<1>2. t \in TaskSet /\ t.copy \in CopySet /\ "publish" \in Stages
  BY <1>1, DebitTaskOf DEF TaskSet, Stages
<1>3. PICK u \in TaskSet : Becomes(t, u, {}) /\ u.stage = "publish" /\ u.copy = t.copy
  BY <1>1, <1>2, PublishNone, AnsweredNone, AdvanceBecomes
<1>4. u.msg = t.msg
  BY <1>3 DEF Becomes
<1>5. GoodTask(u)
  <2>1. GoodTask(t)
    BY DEF FlowInv, ServiceInv, GoodTasks
  <2> QED
    BY <1>1, <1>3, <1>4, <2>1 DEF GoodTask, GoodCopy, Payer
<1>6. /\ DOMAIN users' = DOMAIN users /\ GoodUsers' /\ \A v \in tasks : v # t => Current(v)'
  BY <1>1, UpdatedKeeps
<1>7. GoodTask(u)' /\ GoodDocs' /\ Current(u)'
  BY <1>1, <1>3, <1>5, <1>6, GoodStays DEF FlowInv, ServiceInv, GoodDocs, Current
<1> QED
  BY <1>3, <1>6, <1>7, BecomesKeeps

LEMMA WriteFailsKeeps ==
    ASSUME FlowInv, NEW t \in tasks, Debiting(t, "write"), Throw(t, {}, DebitRetries),
           users' \in {users, Updated(Payer(t), t.copy)}, UNCHANGED <<docs, known>>
    PROVE  ServiceInv' /\ Serves(t.msg)
<1>1. t \in TaskSet /\ t.msg.type \in Commanded
  BY DebitTaskOf DEF Debiting
<1>2. PICK u \in TaskSet : \E o : Becomes(t, u, o) /\ u.stage \in {"read", "ack"}
  BY <1>1, AnsweredNone, ThrowBecomes
<1>3. sent \subseteq sent' /\ u.msg = t.msg
  BY <1>2 DEF Becomes, Publish
<1>4. /\ DOMAIN users' = DOMAIN users /\ GoodUsers' /\ \A v \in tasks : v # t => Current(v)'
  BY <1>3, UpdatedKeeps
<1>5. GoodTask(u)' /\ GoodDocs' /\ Current(u)'
  BY <1>1, <1>2, <1>3, <1>4, GoodStays
     DEF FlowInv, ServiceInv, GoodDocs, GoodTask, Current
<1> QED
  BY <1>2, <1>4, <1>5, BecomesKeeps

LEMMA DebitAnswers ==
    ASSUME FlowInv, NEW t \in tasks, t.msg.type = "DebitGil",
           t.stage \in {"publish", "republish"}, NEW out \in SUBSET DebitOut(t)
    PROVE  Answered(t, out)
<1> DEFINE m == t.msg
           n == UserUpdated(Payer(t), t.copy.gil)
<1>1. n.type = "UserUpdated" /\ n.type \in Updates
  BY DEF UserUpdated, Updates
<1>2. t.stage = "publish" => n \in UserUpdates
  <2>1. t.stage = "publish" => t.copy.gil \in Nat
    BY DEF FlowInv, ServiceInv, GoodTasks, GoodTask, GoodCopy, GoodUser, UserSet
  <2> QED
    BY <2>1, DebitTaskOf DEF UserUpdated, UserUpdates
<1>3. ASSUME NEW a \in out
      PROVE  \/ t.stage = "publish" /\ a = n
             \/ a.type \notin Updates /\ a \in P!Answers(m)
  <2>1. a = Event("GilDebited", m.p) \/ (t.stage = "publish" /\ a = n)
    BY DEF DebitOut
  <2> QED
    BY <2>1 DEF Event, P!Event, P!Answers, Updates
<1> HIDE DEF n
<1> QED
  BY <1>1, <1>2, <1>3 DEF Answered, Told

LEMMA DebitTaskKeeps ==
    ASSUME FlowInv, NEW t \in tasks, DebitTask(t), UNCHANGED <<docs, known>>
    PROVE  ServiceInv' /\ Serves(t.msg)
<1>1. CASE DebitRefused(t)
  BY <1>1, AnsweredNone, ThrowKeeps DEF DebitRefused
<1>2. CASE DebitRead(t)
  BY <1>2, DebitReadKeeps
<1>3. CASE DebitWrite(t)
  BY <1>3, DebitWriteKeeps
<1>4. CASE DebitPublish(t)
  <2>1. Answered(t, DebitOut(t))
    BY <1>4, DebitAnswers DEF DebitPublish, Debiting
  <2> QED
    BY <1>4, <2>1, PassKeeps DEF DebitPublish
<1>5. CASE DebitFails(t)
  <2>1. CASE t.stage = "read" /\ Throw(t, {}, DebitRetries) /\ UNCHANGED users
    BY <2>1, AnsweredNone, ThrowKeeps
  <2>2. CASE /\ t.stage = "write" /\ Throw(t, {}, DebitRetries)
             /\ users' \in {users, Updated(Payer(t), t.copy)}
    BY <1>5, <2>2, WriteFailsKeeps DEF DebitFails, Debiting
  <2>3. CASE /\ t.stage \in {"publish", "republish"}
             /\ \E out \in SUBSET DebitOut(t) : Throw(t, out, DebitRetries)
             /\ UNCHANGED users
    BY <1>5, <2>3, DebitAnswers, ThrowKeeps DEF DebitFails
  <2> QED
    BY <1>5, <2>1, <2>2, <2>3 DEF DebitFails
<1>6. CASE Settle(t) /\ UNCHANGED users
  BY <1>6, SettleKeeps
<1> QED
  BY <1>1, <1>2, <1>3, <1>4, <1>5, <1>6 DEF DebitTask

-----------------------------------------------------------------------------
(* The steps of the flow.                                                  *)

LEMMA BeginKeeps ==
    ASSUME FlowInv, NEW m \in net, m.type \in Commanded, Begin(m),
           UNCHANGED <<docs, known, users>>
    PROVE  ServiceInv'
<1>1. /\ tasks' = tasks \cup {NewTask(m)} /\ net' = net /\ sent' = sent
      /\ \A t \in tasks : t.msg # m
  BY DEF Begin
<1>2. /\ NewTask(m).msg = m /\ NewTask(m).stage = "read"
      /\ GoodTask(NewTask(m)) /\ Current(NewTask(m))
  <2>1. m \in ItemCommands \cup GilCommands
    BY NetTyped DEF FlowInv, Commanded
  <2> QED
    BY <2>1 DEF NewTask, GoodTask, Current, TaskSet, Stages, CopySet
<1> DEFINE n == NewTask(m)
<1> HIDE DEF n
<1>3. OneTask'
  BY <1>1, <1>2 DEF FlowInv, ServiceInv, OneTask, n
<1>4. GoodTasks' /\ GoodDocs' /\ GoodUsers'
  BY <1>1, <1>2, GoodStays DEF FlowInv, ServiceInv, GoodTasks, GoodDocs, GoodUsers
<1>5. CurrentTasks' /\ UpdatesTyped' /\ (known \subseteq Items)'
  BY <1>1, <1>2 DEF FlowInv, ServiceInv, CurrentTasks, Current, Payer, UpdatesTyped
<1> QED
  BY <1>3, <1>4, <1>5 DEF ServiceInv

LEMMA StopKeeps ==
    ASSUME FlowInv, tasks' \subseteq tasks, UNCHANGED <<net, sent, docs, users>>,
           (known \subseteq Items)'
    PROVE  ServiceInv'
<1>1. GoodTasks' /\ GoodDocs' /\ GoodUsers'
  BY GoodStays DEF FlowInv, ServiceInv, GoodTasks, GoodDocs, GoodUsers
<1>2. OneTask' /\ CurrentTasks' /\ UpdatesTyped'
  BY DEF FlowInv, ServiceInv, OneTask, CurrentTasks, Current, Payer, UpdatesTyped
<1> QED
  BY <1>1, <1>2 DEF ServiceInv

LEMMA ServesMaps ==
    ASSUME NEW m \in net, m.type \in Commanded, Serves(m), UNCHANGED tradingVars
    PROVE  P!Next
<1>1. P!ServiceStep(m)
  <2>1. UNCHANGED P!tradingVars
    BY DEF tradingVars, P!tradingVars
  <2>2. CASE Acknowledge(m, {})
    <3>1. Told({}) = {}
      BY DEF Told
    <3>2. P!Acknowledge(m, {})
      BY <2>2, <3>1, AcknowledgeMaps
    <3> QED
      BY <2>1, <3>2 DEF P!ServiceStep, Commanded
  <2>3. ASSUME NEW out, Publish(out), Told(out) \subseteq P!Answers(m)
        PROVE  P!ServiceStep(m)
    <3>1. P!Publish(Told(out)) /\ Told(out) \in SUBSET P!Answers(m)
      BY <2>3, PublishMaps
    <3> QED
      BY <2>1, <3>1 DEF P!ServiceStep, Commanded
  <2> QED
    BY <2>2, <2>3 DEF Serves
<1> QED
  BY <1>1 DEF P!Next

LEMMA TaskStep ==
    ASSUME FlowInv, NEW t \in tasks, Serves(t.msg), UNCHANGED tradingVars
    PROVE  P!Next
<1>1. t.msg \in net /\ t.msg.type \in Commanded
  BY DEF FlowInv, ServiceInv, OneTask, GoodTasks, GoodTask
<1> QED
  BY <1>1, ServesMaps

LEMMA FlowStep ==
    ASSUME FlowInv, [FlowNext]_flowVars
    PROVE  ServiceInv' /\ [P!Next]_(P!sagaVars)
<1> USE DEF Commanded
<1>1. CASE TradingNext /\ UNCHANGED serviceVars
  BY <1>1, TradingMaps, TradingKeepsInv
<1>2. CASE InventoryNext /\ UNCHANGED <<tradingVars, users>>
  <2>1. ASSUME NEW m \in net, InventoryBegin(m) PROVE ServiceInv' /\ UNCHANGED <<net, sent>>
    BY <1>2, <2>1, BeginKeeps DEF InventoryBegin, InventoryTypes, Begin
  <2>2. ASSUME NEW t \in tasks, InventoryTask(t) PROVE ServiceInv' /\ P!Next
    BY <1>2, <2>2, InventoryTaskKeeps, TaskStep
  <2>3. ASSUME NEW i \in Items, LearnItem(i) PROVE ServiceInv' /\ UNCHANGED <<net, sent>>
    BY <1>2, <2>3, StopKeeps DEF LearnItem, FlowInv, ServiceInv
  <2>4. ASSUME InventoryStop PROVE ServiceInv' /\ UNCHANGED <<net, sent>>
    BY <1>2, <2>4, StopKeeps DEF InventoryStop, Stop, FlowInv, ServiceInv
  <2>5. UNCHANGED <<net, sent>> => UNCHANGED P!sagaVars
    BY <1>2 DEF tradingVars, P!sagaVars, PurchaseSent
  <2> QED
    BY <1>2, <2>1, <2>2, <2>3, <2>4, <2>5 DEF InventoryNext
<1>3. CASE DebitNext /\ UNCHANGED <<tradingVars, inventoryVars>>
  <2> USE DEF inventoryVars
  <2>1. ASSUME NEW m \in net, DebitBegin(m) PROVE ServiceInv' /\ UNCHANGED <<net, sent>>
    BY <1>3, <2>1, BeginKeeps DEF DebitBegin, Begin
  <2>2. ASSUME NEW t \in tasks, DebitTask(t) PROVE ServiceInv' /\ P!Next
    BY <1>3, <2>2, DebitTaskKeeps, TaskStep
  <2>3. ASSUME IdentityStop PROVE ServiceInv' /\ UNCHANGED <<net, sent>>
    BY <1>3, <2>3, StopKeeps DEF IdentityStop, Stop, FlowInv, ServiceInv
  <2>4. UNCHANGED <<net, sent>> => UNCHANGED P!sagaVars
    BY <1>3 DEF tradingVars, P!sagaVars, PurchaseSent
  <2> QED
    BY <1>3, <2>1, <2>2, <2>3, <2>4 DEF DebitNext
<1>4. CASE UNCHANGED flowVars
  <2>1. UNCHANGED <<net, sent, tasks, docs, known, users>> /\ UNCHANGED tradingVars
    BY <1>4 DEF flowVars, sagaVars, serviceVars, tradingVars
  <2>2. ServiceInv'
    BY <2>1, StopKeeps DEF FlowInv, ServiceInv
  <2>3. UNCHANGED P!sagaVars
    BY <2>1 DEF tradingVars, P!sagaVars, PurchaseSent
  <2> QED
    BY <2>2, <2>3
<1> QED
  BY <1>1, <1>2, <1>3, <1>4 DEF FlowNext

LEMMA FlowStart == FlowInit => ServiceInv
<1> SUFFICES ASSUME FlowInit PROVE ServiceInv
  OBVIOUS
<1> USE DEF FlowInit, InventoryInit, DebitInit
<1>1. OneTask /\ GoodTasks /\ CurrentTasks /\ UpdatesTyped
  BY DEF OneTask, GoodTasks, CurrentTasks, UpdatesTyped
<1>2. GoodDocs
  BY DEF GoodDocs
<1>3. GoodUsers
  <2>1. ASSUME NEW u \in DOMAIN InitialGil PROVE GoodUser(u, User(InitialGil[u], {}, 0))
    <3>1. InitialGil[u] \in Nat /\ InitialGil[u] = InitialGil[u] + MapThenSumSet(Effect, {})
      BY DebitAssumption, SumOfNone
    <3> QED
      BY <3>1, FS_EmptySet DEF GoodUser, User, UserSet
  <2>2. \A u \in DOMAIN InitialGil : User(InitialGil[u], {}, 0) \in UserSet
    BY <2>1 DEF GoodUser
  <2> QED
    BY <2>1, <2>2 DEF GoodUsers
<1>4. known \subseteq Items
  BY InventoryAssumption
<1> QED
  BY <1>1, <1>2, <1>3, <1>4 DEF ServiceInv

LEMMA FlowInvariant == FlowSafety => []FlowInv
<1>1. FlowInit => FlowInv
  BY FlowStart, InitMaps, P!SafetyInit, PurchaseAssumption, TradingAssumption DEF FlowInv
<1>2. FlowInv /\ [FlowNext]_flowVars => FlowInv'
  <2> SUFFICES ASSUME FlowInv, [FlowNext]_flowVars PROVE FlowInv'
    OBVIOUS
  <2>1. ServiceInv' /\ [P!Next]_(P!sagaVars)
    BY FlowStep
  <2>2. P!SInv'
    BY <2>1, P!SafetyStep, PurchaseAssumption, TradingAssumption DEF FlowInv
  <2> QED
    BY <2>1, <2>2 DEF FlowInv
<1> QED
  BY <1>1, <1>2, PTL DEF FlowSafety

-----------------------------------------------------------------------------
(* The theorems.                                                           *)

\* The variables of the three services hold what they can put in them: among
\* others, no user's gil is ever negative and no task outlives its message.
THEOREM FlowTypeIsCorrect == FlowSafety => []FlowTypeOK
<1>1. FlowInv => FlowTypeOK
  <2> SUFFICES ASSUME FlowInv PROVE FlowTypeOK
    OBVIOUS
  <2>1. net \subseteq PurchaseMessages /\ PurchaseSent \subseteq PurchaseMessages
    BY MessagesMap DEF FlowInv, P!SInv, P!TInv, P!TypeOK
  <2>2. sent \subseteq PurchaseMessages \cup InventoryUpdates \cup UserUpdates
    BY <2>1 DEF PurchaseSent, FlowInv, ServiceInv, UpdatesTyped
  <2>3. saga \in [Purchases -> Instances \cup {NoInstance}]
    BY DEF FlowInv, P!SInv, P!TInv, P!TypeOK, Instances, P!Instances, NoInstance, P!NoInstance,
           States, P!States, FaultEvents, P!FaultEvents
  <2>4. \A k \in Keys : \A i \in DOMAIN docs[k] :
            docs[k][i].qty \in Int /\ docs[k][i].seen \subseteq sent \cap ItemCommands
    BY DEF FlowInv, ServiceInv, GoodDocs, GoodDoc, DocSet
  <2>5. \A u \in DOMAIN users :
            users[u].gil \in Nat /\ users[u].seen \subseteq sent \cap GilCommands
    BY DEF FlowInv, ServiceInv, GoodUsers, GoodUser, UserSet
  <2>6. \A t \in tasks : t.msg \in net /\ t.stage \in Stages /\ t.tries \in Nat
    BY DEF FlowInv, ServiceInv, OneTask, GoodTasks, GoodTask, TaskSet
  <2>7. known \subseteq Items
    BY DEF FlowInv, ServiceInv
  <2> QED
    BY <2>1, <2>2, <2>3, <2>4, <2>5, <2>6, <2>7 DEF FlowTypeOK
<1> QED
  BY <1>1, FlowInvariant, PTL

\* A document's quantity is the sum of the commands recorded in its MessagesIds,
\* whatever is retried, redelivered or interleaved.
THEOREM DocumentsAddUp == FlowSafety => []DocsAddUp
<1>1. FlowInv => DocsAddUp
  BY DEF FlowInv, ServiceInv, GoodDocs, GoodDoc, DocsAddUp
<1> QED
  BY <1>1, FlowInvariant, PTL

\* A user's gil and the debits recorded in MessagesIds account for the gil the
\* user started with.
THEOREM UsersAddUp == FlowSafety => []GilAddsUp
<1>1. FlowInv => GilAddsUp
  BY DEF FlowInv, ServiceInv, GoodUsers, GoodUser, GilAddsUp
<1> QED
  BY <1>1, FlowInvariant, PTL

\* A recorded debit stays recorded: no handler's update overwrites another's.
THEOREM DebitsAreKept == FlowSafety => DebitsKept
<1>1. FlowInv /\ [FlowNext]_flowVars =>
          [\A u \in DOMAIN users : users[u].seen \subseteq users'[u].seen]_users
  <2> SUFFICES ASSUME FlowInv, FlowNext, users' # users, NEW u \in DOMAIN users
               PROVE  users[u].seen \subseteq users'[u].seen
    BY DEF flowVars, serviceVars
  <2>1. DebitNext
    BY DEF FlowNext, serviceVars
  <2>2. PICK t \in tasks : DebitTask(t)
    BY <2>1 DEF DebitNext, DebitBegin, IdentityStop
  <2>3. Debiting(t, "write") /\ users' = Updated(Payer(t), t.copy)
    BY <2>2 DEF DebitTask, DebitRefused, DebitRead, DebitWrite, DebitPublish, DebitFails, Debiting
  <2>4. /\ users[Payer(t)].stamp = t.copy.stamp
        /\ users' = [users EXCEPT ![Payer(t)] = User(t.copy.gil, t.copy.seen, t.copy.stamp + 1)]
    BY <2>3 DEF Updated
  <2>5. t.copy.seen = users[Payer(t)].seen \cup {t.msg}
    BY <2>3, <2>4 DEF FlowInv, ServiceInv, CurrentTasks, Current, Debiting
  <2>6. CASE u = Payer(t)
    BY <2>4, <2>5, <2>6 DEF User
  <2>7. CASE u # Payer(t)
    BY <2>4, <2>7
  <2> QED
    BY <2>6, <2>7
<1> QED
  BY <1>1, FlowInvariant, PTL DEF FlowSafety, DebitsKept

\* P and Saga are two instances of PurchaseSaga with the same substitution.
LEMMA SameCommands ==
    ASSUME NEW type, NEW p, NEW s
    PROVE  /\ P!ItemCommand(type, p, s) = Saga!ItemCommand(type, p, s)
           /\ P!GilCommand(type, p, s) = Saga!GilCommand(type, p, s)
<1>1. \A S : P!Cardinality(S) = Saga!Cardinality(S)
  BY Zenon DEF P!Cardinality, Saga!Cardinality, P!IsFiniteSet, Saga!IsFiniteSet
<1>2. P!NextSeq(type, p) = Saga!NextSeq(type, p)
  BY <1>1, Zenon DEF P!NextSeq, Saga!NextSeq
<1> QED
  BY <1>2, Zenon DEF P!ItemCommand, P!GilCommand, Saga!ItemCommand, Saga!GilCommand

LEMMA SameFlush ==
    ASSUME NEW m, NEW out
    PROVE  /\ P!FaultOf(m) = Saga!FaultOf(m)
           /\ P!Publish(out) <=> Saga!Publish(out)
           /\ P!Acknowledge(m, out) <=> Saga!Acknowledge(m, out)
           /\ P!Finish(m, out) <=> Saga!Finish(m, out)
           /\ P!Flush(m, out) <=> Saga!Flush(m, out)
<1>1. P!FaultOf(m) = Saga!FaultOf(m)
  BY Zenon DEF P!FaultOf, P!Event, Saga!FaultOf, Saga!Event
<1>2. P!Publish(out) <=> Saga!Publish(out)
  BY Zenon DEF P!Publish, P!Routed, P!Subscribed, P!SagaEvents,
               Saga!Publish, Saga!Routed, Saga!Subscribed, Saga!SagaEvents
<1>3. \A o : P!Acknowledge(m, o) <=> Saga!Acknowledge(m, o)
  BY Zenon DEF P!Acknowledge, P!Routed, P!Subscribed, P!SagaEvents,
               Saga!Acknowledge, Saga!Routed, Saga!Subscribed, Saga!SagaEvents
<1>4. P!Finish(m, out) <=> Saga!Finish(m, out)
  BY <1>2, <1>3 DEF P!Finish, P!Mishap, Saga!Finish, Saga!Mishap
<1>5. P!FlushFails(m) <=> Saga!FlushFails(m)
  BY <1>1, <1>3 DEF P!FlushFails, P!Mishap, Saga!FlushFails, Saga!Mishap
<1> QED
  BY <1>1, <1>2, <1>3, <1>4, <1>5 DEF P!Flush, Saga!Flush

LEMMA SameHandlers ==
    ASSUME NEW m
    PROVE  P!HandleEvent(m) <=> Saga!HandleEvent(m)
<1>1. P!AcceptPurchase(m) <=> Saga!AcceptPurchase(m)
  BY SameCommands, SameFlush DEF P!AcceptPurchase, P!NoSaga, P!PurchaseTotal,
                                 Saga!AcceptPurchase, Saga!NoSaga, Saga!PurchaseTotal
<1>2. P!RejectPurchase(m) <=> Saga!RejectPurchase(m)
  BY SameFlush DEF P!RejectPurchase, P!NoSaga, Saga!RejectPurchase, Saga!NoSaga
<1>3. P!DebitForItems(m) <=> Saga!DebitForItems(m)
  BY SameCommands, SameFlush DEF P!DebitForItems, P!AwaitsGrant, P!SetState,
                                 Saga!DebitForItems, Saga!AwaitsGrant, Saga!SetState
<1>4. P!FaultOnGrant(m) <=> Saga!FaultOnGrant(m)
  BY SameFlush DEF P!FaultOnGrant, P!AwaitsGrant, P!SetFaulted, P!SendStatus,
                   Saga!FaultOnGrant, Saga!AwaitsGrant, Saga!SetFaulted, Saga!SendStatus
<1>5. P!CompletePurchase(m) <=> Saga!CompletePurchase(m)
  BY SameCommands, SameFlush DEF P!CompletePurchase, P!AwaitsDebit, P!SetState, P!SendStatus,
         Saga!CompletePurchase, Saga!AwaitsDebit, Saga!SetState, Saga!SendStatus
<1>6. P!CompensatePurchase(m) <=> Saga!CompensatePurchase(m)
  BY SameCommands, SameFlush DEF P!CompensatePurchase, P!AwaitsDebit, P!SetFaulted, P!SendStatus,
         Saga!CompensatePurchase, Saga!AwaitsDebit, Saga!SetFaulted, Saga!SendStatus
<1>7. P!LateDebitFault(m) <=> Saga!LateDebitFault(m)
  BY SameFlush DEF P!LateDebitFault, P!SetFaulted, P!SendStatus,
                   Saga!LateDebitFault, Saga!SetFaulted, Saga!SendStatus
<1>8. P!RecordFault(m) <=> Saga!RecordFault(m)
  BY SameFlush DEF P!RecordFault, P!SendStatus, Saga!RecordFault, Saga!SendStatus
<1>9. P!IgnoreEvent(m) <=> Saga!IgnoreEvent(m)
  BY SameFlush DEF P!IgnoreEvent, P!Ignores, Saga!IgnoreEvent, Saga!Ignores
<1>10. P!UnhandledEvent(m) <=> Saga!UnhandledEvent(m)
  BY SameFlush, Zenon DEF P!UnhandledEvent, P!SagaEvents, P!Binds, P!Ignores, P!AnyState,
         Saga!UnhandledEvent, Saga!SagaEvents, Saga!Binds, Saga!Ignores, Saga!AnyState
<1> QED
  BY <1>1, <1>2, <1>3, <1>4, <1>5, <1>6, <1>7, <1>8, <1>9, <1>10
     DEF P!HandleEvent, Saga!HandleEvent

LEMMA SameNext == P!Next <=> Saga!Next
<1>1. P!TradingNext <=> Saga!TradingNext
  BY SameHandlers, Zenon
     DEF P!TradingNext, P!SubmitPurchase, P!CatalogItemCreated, P!CatalogItemUpdated,
         P!TradingRestart, P!NoInstance, P!tradingVars,
         Saga!TradingNext, Saga!SubmitPurchase, Saga!CatalogItemCreated, Saga!CatalogItemUpdated,
         Saga!TradingRestart, Saga!NoInstance, Saga!tradingVars
<1>2. \A m : P!ServiceStep(m) <=> Saga!ServiceStep(m)
  <2>1. \A m : P!Answers(m) = Saga!Answers(m)
    BY Zenon DEF P!Answers, P!Event, Saga!Answers, Saga!Event
  <2> QED
    BY <2>1, SameFlush DEF P!ServiceStep, P!tradingVars, Saga!ServiceStep, Saga!tradingVars
<1> QED
  BY <1>1, <1>2 DEF P!Next, Saga!Next

\* The flow implements PurchaseSaga: whatever Inventory's and Identity's
\* consumers do, with their retries, redeliveries and stops, is what the saga
\* was verified against.
THEOREM FlowImplementsSaga == FlowSafety => ImplementsSaga
<1>1. FlowInit => Saga!Init
  <2>1. P!Init => Saga!Init
    BY Zenon DEF P!Init, P!TradingInit, P!NoInstance, Saga!Init, Saga!TradingInit, Saga!NoInstance
  <2> QED
    BY <2>1, InitMaps
<1>2. FlowInv /\ [FlowNext]_flowVars => [Saga!Next]_(Saga!sagaVars)
  <2>1. P!sagaVars = Saga!sagaVars
    BY DEF P!sagaVars, Saga!sagaVars
  <2> QED
    BY <2>1, FlowStep, SameNext DEF P!sagaVars, Saga!sagaVars
<1> QED
  BY <1>1, <1>2, FlowInvariant, PTL DEF FlowSafety, ImplementsSaga, Saga!Spec

\* So what PurchaseSagaProofs proves of the saga holds of the flow.  The history
\* PurchaseSent leaves out updates only, which none of these properties is about.
LEMMA FlowIsSaga == FlowSafety => P!Spec
<1>1. FlowInv /\ [FlowNext]_flowVars => [P!Next]_(P!sagaVars)
  BY FlowStep
<1> QED
  BY <1>1, InitMaps, FlowInvariant, PTL DEF FlowSafety, P!Spec

\* With the real services, one run of Trading sends a purchase at most one
\* command of each type.
THEOREM FlowCommandsAreUnique == FlowSafety => []CommandsUnique
<1>1. P!CommandsUnique => CommandsUnique
  BY DEF P!CommandsUnique, CommandsUnique, P!CommandTypes, CommandTypes, PurchaseSent, Updates
<1> QED
  BY <1>1, FlowIsSaga, P!CommandsAreUnique, PurchaseAssumption, TradingAssumption, PTL

\* With the real services, a debit follows the grant of the items it pays for.
THEOREM FlowDebitsAreForGrantedItems == FlowSafety => []DebitForGrantedItems
<1>1. P!DebitForGrantedItems => DebitForGrantedItems
  BY DEF P!DebitForGrantedItems, DebitForGrantedItems, P!Event, Event, PurchaseSent, Updates
<1> QED
  BY <1>1, FlowIsSaga, P!DebitsAreForGrantedItems, PurchaseAssumption, TradingAssumption, PTL

\* With the real services, a compensation takes back what was granted, and only
\* after the debit faulted.
THEOREM FlowCompensationsMirrorGrants == FlowSafety => []CompensationMirrorsGrant
<1>1. P!CompensationMirrorsGrant => CompensationMirrorsGrant
  BY DEF P!CompensationMirrorsGrant, CompensationMirrorsGrant, P!Event, Event, PurchaseSent, Updates
<1> QED
  BY <1>1, FlowIsSaga, P!CompensationsMirrorGrants, PurchaseAssumption, TradingAssumption, PTL

\* With the real services, every outcome of the saga has its cause.
THEOREM FlowOutcomesAreJustified == FlowSafety => []OutcomeJustified
<1>1. P!OutcomeJustified => OutcomeJustified
  BY DEF P!OutcomeJustified, OutcomeJustified, P!Event, Event, P!Terminal, Terminal, PurchaseSent
<1> QED
  BY <1>1, FlowIsSaga, P!OutcomesAreJustified, PurchaseAssumption, TradingAssumption, PTL

-----------------------------------------------------------------------------
(* QuietConsistent does not hold of every flow: a restart of Trading, a    *)
(* lost outbox, an outage longer than the retries, and two purchases of a  *)
(* user at a time each break it.  It holds without these.                  *)

Sheltered ==
    /\ MaxRestarts = 0 /\ MaxMishaps = 0
    /\ MaxFailures <= InventoryRetries /\ MaxFailures <= DebitRetries
    /\ InitialKnown \subseteq {Items}
    /\ \A p, q \in Purchases : UserOf[p] = UserOf[q] => p = q

Said(type, p) == Event(type, p) \in sent
Heard(type, p) == Event(type, p) \in net
Queued(type, p) == \E m \in net : m.type = type /\ m.p = p

\* The debits of m.p are those the user can pay from the initial gil.
Affordable(m) == UserOf[m.p] \in DOMAIN InitialGil /\ m.total <= InitialGil[UserOf[m.p]]

\* The command is recorded in the only document of its key, or in its user.
Recorded(m) == docs[Key(m)] # <<>> /\ m \in docs[Key(m)][1].seen
Debited(m) == UserOf[m.p] \in DOMAIN users /\ m \in users[UserOf[m.p]].seen

\* A task that is about to store stores over what it read; one that is about to
\* publish has stored; one that is about to be acknowledged has answered.
GrantFits(t) ==
    /\ t.stage = "write" => docs[Key(t.msg)] = <<>> /\ t.copy.new /\ t.msg \in t.copy.doc.seen
    /\ t.stage \in {"publish", "republish"} => Recorded(t.msg)
    /\ t.stage = "ack" => Said("InventoryItemsGranted", t.msg.p)

SubtractFits(t) ==
    /\ t.stage = "write" =>
           /\ docs[Key(t.msg)] # <<>> /\ ~t.copy.new
           /\ docs[Key(t.msg)][1].seen \cup {t.msg} \subseteq t.copy.doc.seen
    /\ t.stage \in {"publish", "republish", "ack"} => Recorded(t.msg)

DebitFits(t) ==
    /\ t.stage = "write" => Affordable(t.msg) /\ t.copy.stamp = users[Payer(t)].stamp
    /\ t.stage \in {"publish", "republish"} => Debited(t.msg)
    /\ t.stage = "ack" => Said("GilDebited", t.msg.p) \/ Said("DebitGilFaulted", t.msg.p)

Fits(t) ==
    /\ t.msg.type = "GrantItems" => GrantFits(t)
    /\ t.msg.type = "SubtractItems" => SubtractFits(t)
    /\ t.msg.type = "DebitGil" => DebitFits(t)

\* An answer of a service is true of its documents.
GrantTrue(p) == Said("InventoryItemsGranted", p) => Granted(p)
DebitTrue(p) == Said("GilDebited", p) => Paid(p)
RefusalTrue(p) ==
    Said("DebitGilFaulted", p) =>
        \E m \in sent : m.type = "DebitGil" /\ m.p = p /\ ~Affordable(m)
AnswersTrue ==
    \A p \in Purchases :
        GrantTrue(p) /\ DebitTrue(p) /\ RefusalTrue(p) /\ ~Said("GrantItemsFaulted", p)

\* While the saga waits, its command or the answer to it is queued.
GrantAwaited(p) ==
    saga[p].state = "Accepted" =>
        /\ Said("InventoryItemsGranted", p) => Heard("InventoryItemsGranted", p)
        /\ Said("InventoryItemsGranted", p) \/ Queued("GrantItems", p)
DebitAwaited(p) ==
    saga[p].state = "ItemsGranted" =>
        /\ \A type \in {"GilDebited", "DebitGilFaulted"} : Said(type, p) => Heard(type, p)
        /\ Said("GilDebited", p) \/ Said("DebitGilFaulted", p) \/ Queued("DebitGil", p)
TakeBackAwaited(p) ==
    saga[p].state = "Faulted" =>
        Said("DebitGilFaulted", p) /\ (TakenBack(p) \/ Queued("SubtractItems", p))
Awaited == \A p \in Purchases : GrantAwaited(p) /\ DebitAwaited(p) /\ TakeBackAwaited(p)

Budgeted == failures \in 0..MaxFailures /\ \A t \in tasks : t.tries <= failures
SingleDocs ==
    \A k \in Keys :
        /\ Len(docs[k]) <= 1
        /\ docs[k] # <<>> => \E g \in docs[k][1].seen : g.type = "GrantItems"
DebitsAffordable == \A u \in DOMAIN users : \A m \in users[u].seen : Affordable(m)
FitTasks == \A t \in tasks : Fits(t)

LoneInv ==
    /\ known = Items /\ Budgeted /\ SingleDocs /\ DebitsAffordable
    /\ FitTasks /\ AnswersTrue /\ Awaited

\* A command of the only run of Trading: of its kind the only one of its
\* purchase, and one the saga's state tells of.
LEMMA SentCommand ==
    ASSUME FlowInv, Sheltered, NEW c \in sent, c.type \in Commanded
    PROVE  /\ c \in PurchaseSent /\ c.p \in Purchases /\ c.run = 0
           /\ c.type \in P!SentIn[saga[c.p].state]
           /\ c.type \in InventoryTypes => c \in ItemCommands /\ Key(c) \in Keys
           /\ c.type = "DebitGil" => c \in GilCommands
<1>1. c \in PurchaseSent
  BY DEF PurchaseSent, Commanded, Updates
<1>2. c \in PurchaseMessages
  BY <1>1, MessagesMap DEF FlowInv, P!SInv, P!TInv, P!TypeOK
<1>3. /\ c.p \in Purchases
      /\ c.type \in InventoryTypes => c \in ItemCommands
      /\ c.type = "DebitGil" => c \in GilCommands
  BY <1>2 DEF PurchaseMessages, Requests, ItemCommands, GilCommands, Replies, Faults,
              InventoryTypes, Commanded
<1>4. restarts = 0 /\ c.type \in P!CommandTypes
  BY DEF FlowInv, P!SInv, P!TInv, P!TypeOK, Sheltered, P!CommandTypes, Commanded
<1>5. c.run = 0
  BY <1>1, <1>4 DEF FlowInv, P!SInv, P!Bookkeeping, P!RunsBounded
<1>6. c \in P!Issued(c.p)
  BY <1>1, <1>4, <1>5 DEF P!Issued
<1>7. c.type \in P!SentIn[saga[c.p].state]
  BY <1>3, <1>6 DEF FlowInv, P!SInv, P!Bookkeeping, P!IssuedInState
<1>8. c.type \in InventoryTypes => Key(c) \in Keys
  BY <1>3, PurchaseAssumption DEF ItemCommands, Key, Keys
<1> QED
  BY <1>1, <1>3, <1>5, <1>7, <1>8

LEMMA OneCommand ==
    ASSUME FlowInv, Sheltered, NEW c \in sent, NEW d \in sent,
           c.type \in Commanded, d.type = c.type, d.p = c.p
    PROVE  c = d
<1>1. c \in PurchaseSent /\ d \in PurchaseSent /\ c.run = d.run
  BY SentCommand
<1> QED
  BY <1>1 DEF FlowInv, P!SInv, P!Safety, P!CommandsUnique, P!CommandTypes, Commanded

\* What a command was sent for.
LEMMA CommandCause ==
    ASSUME FlowInv, Sheltered, NEW c \in sent
    PROVE  /\ c.type = "DebitGil" => Said("InventoryItemsGranted", c.p)
           /\ c.type = "SubtractItems" =>
                  /\ Said("DebitGilFaulted", c.p)
                  /\ \A g \in sent : g.type = "GrantItems" /\ g.p = c.p => Key(g) = Key(c)
<1>1. ASSUME c.type = "DebitGil" PROVE Said("InventoryItemsGranted", c.p)
  <2>1. c \in PurchaseSent
    BY <1>1, SentCommand DEF Commanded
  <2>2. P!Event("InventoryItemsGranted", c.p) \in PurchaseSent
    BY <1>1, <2>1 DEF FlowInv, P!SInv, P!Safety, P!DebitForGrantedItems
  <2> QED
    BY <2>2 DEF Said, Event, P!Event, PurchaseSent
<1>2. ASSUME c.type = "SubtractItems"
      PROVE  /\ Said("DebitGilFaulted", c.p)
             /\ \A g \in sent : g.type = "GrantItems" /\ g.p = c.p => Key(g) = Key(c)
  <2>1. c \in PurchaseSent /\ c.run = 0
    BY <1>2, SentCommand DEF Commanded
  <2>2. /\ P!Event("DebitGilFaulted", c.p) \in PurchaseSent
        /\ \A g \in PurchaseSent : g.type = "GrantItems" /\ g.p = c.p /\ g.run = c.run =>
               g.item = c.item
    BY <1>2, <2>1 DEF FlowInv, P!SInv, P!Safety, P!CompensationMirrorsGrant
  <2>3. \A g \in sent : g.type = "GrantItems" => g \in PurchaseSent /\ g.run = 0
    BY SentCommand DEF Commanded
  <2> QED
    BY <2>1, <2>2, <2>3 DEF Said, Event, P!Event, PurchaseSent, Key
<1> QED
  BY <1>1, <1>2

\* A recorded command is in the first document of its key.
LEMMA RecordedOnce ==
    ASSUME FlowInv, LoneInv, NEW k \in Keys, NEW i \in DOMAIN docs[k], NEW m \in docs[k][i].seen
    PROVE  /\ Key(m) = k /\ i = 1 /\ Recorded(m) /\ m \in sent
<1>1. docs[k] \in Seq(DocSet) /\ GoodDoc(k, docs[k][i])
  BY DEF FlowInv, ServiceInv, GoodDocs
<1>2. Len(docs[k]) <= 1
  BY DEF LoneInv, SingleDocs
<1>3. i = 1 /\ docs[k] # <<>>
  BY <1>1, <1>2
<1>4. Key(m) = k /\ m \in sent
  BY <1>1 DEF GoodDoc
<1> QED
  BY <1>3, <1>4 DEF Recorded

LEMMA GrantedIs ==
    ASSUME FlowInv, LoneInv, Sheltered, NEW p
    PROVE  /\ Granted(p) => \E g \in sent : g.type = "GrantItems" /\ g.p = p /\ Recorded(g)
           /\ TakenBack(p) => \E s \in sent : s.type = "SubtractItems" /\ s.p = p /\ Recorded(s)
           /\ Paid(p) => \E d \in sent : d.type = "DebitGil" /\ d.p = p /\ Affordable(d)
<1>1. ASSUME Granted(p)
      PROVE  \E g \in sent : g.type = "GrantItems" /\ g.p = p /\ Recorded(g)
  BY <1>1, RecordedOnce DEF Granted
<1>2. ASSUME TakenBack(p)
      PROVE  \E s \in sent : s.type = "SubtractItems" /\ s.p = p /\ Recorded(s)
  BY <1>2, RecordedOnce DEF TakenBack
<1>3. ASSUME Paid(p)
      PROVE  \E d \in sent : d.type = "DebitGil" /\ d.p = p /\ Affordable(d)
  <2>1. PICK d \in users[UserOf[p]].seen : d.p = p
    BY <1>3 DEF Paid
  <2>2. UserOf[p] \in DOMAIN users /\ GoodUser(UserOf[p], users[UserOf[p]])
    BY <1>3 DEF Paid, FlowInv, ServiceInv, GoodUsers
  <2>3. d \in sent /\ d.type = "DebitGil"
    BY <2>1, <2>2 DEF GoodUser
  <2> QED
    BY <2>1, <2>2, <2>3 DEF LoneInv, DebitsAffordable
<1> QED
  BY <1>1, <1>2, <1>3

LEMMA RecordedGrants ==
    ASSUME FlowInv, NEW m \in sent, Key(m) \in Keys, Recorded(m)
    PROVE  /\ m.type = "GrantItems" => Granted(m.p)
           /\ m.type = "SubtractItems" => TakenBack(m.p)
<1>1. 1 \in DOMAIN docs[Key(m)]
  BY FoundDoc DEF Recorded
<1> QED
  BY <1>1 DEF Recorded, Granted, TakenBack

\* What is taken back was granted.
LEMMA SubtractFinds ==
    ASSUME FlowInv, LoneInv, Sheltered, NEW s \in sent, s.type = "SubtractItems"
    PROVE  docs[Key(s)] # <<>>
<1>1. s.p \in Purchases /\ Said("DebitGilFaulted", s.p)
  BY SentCommand, CommandCause DEF Commanded
<1>2. PICK d \in sent : d.type = "DebitGil" /\ d.p = s.p
  BY <1>1 DEF LoneInv, AnswersTrue, RefusalTrue
<1>3. Said("InventoryItemsGranted", s.p)
  BY <1>2, CommandCause
<1>4. PICK g \in sent : g.type = "GrantItems" /\ g.p = s.p /\ Recorded(g)
  BY <1>1, <1>3, GrantedIs DEF LoneInv, AnswersTrue, GrantTrue
<1>5. Key(g) = Key(s)
  BY <1>4, CommandCause
<1> QED
  BY <1>4, <1>5 DEF Recorded

\* The history and the sets of recorded commands grow.
Grown ==
    /\ sent \subseteq sent' /\ DOMAIN users' = DOMAIN users
    /\ \A k \in Keys : \A i \in DOMAIN docs[k] :
           i \in DOMAIN docs'[k] /\ docs[k][i].seen \subseteq docs'[k][i].seen
    /\ \A u \in DOMAIN users : users[u].seen \subseteq users'[u].seen

LEMMA GrownKeeps ==
    ASSUME FlowInv, Grown
    PROVE  /\ \A p : Granted(p) => Granted(p)'
           /\ \A p : TakenBack(p) => TakenBack(p)'
           /\ \A p : Paid(p) => Paid(p)'
           /\ \A m : Debited(m) => Debited(m)'
           /\ \A m : Key(m) \in Keys /\ Recorded(m) => Recorded(m)'
<1>1. \A p : (Granted(p) => Granted(p)') /\ (TakenBack(p) => TakenBack(p)')
  BY DEF Grown, Granted, TakenBack
<1>2. (\A p : Paid(p) => Paid(p)') /\ (\A m : Debited(m) => Debited(m)')
  BY DEF Grown, Paid, Debited
<1>3. ASSUME NEW m, Key(m) \in Keys, Recorded(m) PROVE Recorded(m)'
  <2>1. 1 \in DOMAIN docs[Key(m)] /\ m \in docs[Key(m)][1].seen
    BY <1>3, FoundDoc DEF Recorded
  <2>2. 1 \in DOMAIN docs'[Key(m)] /\ m \in docs'[Key(m)][1].seen
    BY <1>3, <2>1 DEF Grown
  <2>3. docs'[Key(m)] # <<>>
    BY <2>2
  <2> QED
    BY <2>2, <2>3 DEF Recorded, Key
<1> QED
  BY <1>1, <1>2, <1>3

\* What a step sends is true of the documents it leaves.
Honest(out) ==
    \A p \in Purchases :
        /\ Event("InventoryItemsGranted", p) \in out => Granted(p)'
        /\ Event("GilDebited", p) \in out => Paid(p)'
        /\ Event("DebitGilFaulted", p) \in out =>
               \E m \in sent : m.type = "DebitGil" /\ m.p = p /\ ~Affordable(m)
        /\ Event("GrantItemsFaulted", p) \notin out

LEMMA HonestKeeps ==
    ASSUME FlowInv, LoneInv, Grown, NEW out, sent' = sent \cup out, Honest(out)
    PROVE  AnswersTrue'
<1> SUFFICES ASSUME NEW p \in Purchases
             PROVE  (GrantTrue(p) /\ DebitTrue(p) /\ RefusalTrue(p) /\ ~Said("GrantItemsFaulted", p))'
  BY DEF AnswersTrue
<1>1. GrantTrue(p) /\ DebitTrue(p) /\ RefusalTrue(p) /\ ~Said("GrantItemsFaulted", p)
  BY DEF LoneInv, AnswersTrue
<1>2. GrantTrue(p)' /\ DebitTrue(p)' /\ ~Said("GrantItemsFaulted", p)'
  BY <1>1, GrownKeeps DEF GrantTrue, DebitTrue, Said, Honest
<1>3. RefusalTrue(p)'
  BY <1>1 DEF RefusalTrue, Said, Honest, Affordable
<1> QED
  BY <1>2, <1>3

\* What is published is queued, and what was queued stays queued.
LEMMA AwaitedKeeps ==
    ASSUME FlowInv, LoneInv, Grown, saga' = saga, NEW out, Publish(out)
    PROVE  Awaited'
<1> SUFFICES ASSUME NEW p \in Purchases
             PROVE  (GrantAwaited(p) /\ DebitAwaited(p) /\ TakeBackAwaited(p))'
  BY DEF Awaited
<1>1. GrantAwaited(p) /\ DebitAwaited(p) /\ TakeBackAwaited(p)
  BY DEF LoneInv, Awaited
<1>2. ASSUME NEW type \in {"InventoryItemsGranted", "GilDebited", "DebitGilFaulted"},
             Said(type, p) => Heard(type, p)
      PROVE  (Said(type, p) => Heard(type, p))'
  BY <1>2 DEF Said, Heard, Publish, Routed, Subscribed, SagaEvents, Event
<1>3. /\ \A type : Said(type, p) => Said(type, p)'
      /\ \A type : Queued(type, p) => Queued(type, p)'
  BY DEF Said, Queued, Publish
<1>4. TakenBack(p) => TakenBack(p)'
  BY GrownKeeps
<1>5. GrantAwaited(p)'
  BY <1>1, <1>2, <1>3 DEF GrantAwaited
<1>6. DebitAwaited(p)'
  BY <1>1, <1>2, <1>3 DEF DebitAwaited
<1>7. TakeBackAwaited(p)'
  BY <1>1, <1>3, <1>4 DEF TakeBackAwaited
<1> QED
  BY <1>5, <1>6, <1>7

\* Spent(u) : the failures suffice for the tries of u.
Spent(u) == failures' \in 0..MaxFailures /\ failures <= failures' /\ u.tries <= failures'

LEMMA LoneBecomes ==
    ASSUME FlowInv, LoneInv, NEW t \in tasks, NEW u, NEW out, Becomes(t, u, out),
           saga' = saga, known' = known, Grown, Honest(out), Spent(u),
           SingleDocs', DebitsAffordable', Fits(u)', \A v \in tasks : v # t => Fits(v)'
    PROVE  LoneInv'
<1>1. tasks' = (tasks \ {t}) \cup {u} /\ Publish(out) /\ sent' = sent \cup out
  BY DEF Becomes, Replace, Publish
<1>2. AnswersTrue' /\ Awaited'
  BY <1>1, HonestKeeps, AwaitedKeeps
<1>3. FitTasks'
  BY <1>1 DEF FitTasks
<1>4. Budgeted'
  <2>1. \A v \in tasks : v.tries <= failures /\ v.tries \in Nat
    BY DEF LoneInv, Budgeted, FlowInv, ServiceInv, GoodTasks, GoodTask, TaskSet
  <2>2. failures \in Nat /\ failures' \in Nat /\ failures <= failures'
    BY DEF LoneInv, Budgeted, Spent
  <2>3. \A v \in tasks : v.tries <= failures'
    BY <2>1, <2>2
  <2> QED
    BY <1>1, <2>3 DEF Budgeted, Spent
<1> QED
  BY <1>2, <1>3, <1>4 DEF LoneInv

\* A task fits as long as the documents and users it was made for stay.
LEMMA FitsStays ==
    ASSUME sent \subseteq sent', docs' = docs, users' = users, NEW v, Fits(v)
    PROVE  Fits(v)'
BY DEF Fits, GrantFits, SubtractFits, DebitFits, Said, Recorded, Debited, Affordable, Key, Payer

\* A step that leaves documents and users alone.
LEMMA LoneQuiet ==
    ASSUME FlowInv, LoneInv, NEW t \in tasks, NEW u, NEW out, Becomes(t, u, out),
           UNCHANGED <<saga, known, docs, users>>, Honest(out), Spent(u), Fits(u)'
    PROVE  LoneInv'
<1>1. sent \subseteq sent'
  BY DEF Becomes, Publish
<1>2. Grown
  BY <1>1 DEF Grown
<1>3. SingleDocs' /\ DebitsAffordable'
  BY DEF LoneInv, SingleDocs, DebitsAffordable, Affordable
<1>4. \A v \in tasks : Fits(v)'
  BY <1>1, FitsStays DEF LoneInv, FitTasks
<1> QED
  BY <1>2, <1>3, <1>4, LoneBecomes

LEMMA HonestNone == Honest({})
BY DEF Honest

\* A failed await starts Consume again: the budget of failures leaves retries.
LEMMA FailureRetries ==
    ASSUME FlowInv, LoneInv, NEW t \in tasks, Failure, NEW out, Answered(t, out),
           NEW attempts \in Nat, MaxFailures <= attempts, Throw(t, out, attempts)
    PROVE  \E u : Becomes(t, u, out) /\ Spent(u) /\ u.stage = "read" /\ Fits(u)'
<1>1. /\ t.tries \in Nat /\ t.tries <= failures /\ failures \in Nat /\ failures < MaxFailures
      /\ failures' = failures + 1 /\ MaxFailures \in Nat
  BY HostAssumption DEF LoneInv, Budgeted, Failure, FlowInv, ServiceInv, GoodTasks, GoodTask, TaskSet
<1>2. t.tries < attempts
  BY <1>1
<1> DEFINE u == [NewTask(t.msg) EXCEPT !.tries = t.tries + 1]
<1>3. u.msg = t.msg /\ u.stage = "read" /\ u.tries = t.tries + 1
  BY DEF NewTask
<1>4. Becomes(t, u, out)
  BY <1>2, <1>3 DEF Throw, Becomes
<1>5. Spent(u)
  BY <1>1, <1>3 DEF Spent
<1>6. Fits(u)'
  BY <1>3 DEF Fits, GrantFits, SubtractFits, DebitFits
<1> HIDE DEF u
<1> QED
  BY <1>3, <1>4, <1>5, <1>6

\* The tries of a task that goes on.
LEMMA AdvanceSpends ==
    ASSUME FlowInv, LoneInv, NEW t \in tasks, failures' = failures, NEW out, Publish(out),
           Answered(t, out), NEW stage, NEW copy, Advance(t, stage, copy)
    PROVE  \E u : /\ Becomes(t, u, out) /\ Spent(u)
                  /\ u.msg = t.msg /\ u.stage = stage /\ u.copy = copy
<1> DEFINE u == [t EXCEPT !.stage = stage, !.copy = copy]
<1>1. u.msg = t.msg /\ u.stage = stage /\ u.copy = copy /\ u.tries = t.tries
  BY DEF FlowInv, ServiceInv, GoodTasks, GoodTask, TaskSet
<1>2. Becomes(t, u, out)
  BY <1>1 DEF Advance, Becomes
<1>3. Spent(u)
  BY <1>1 DEF LoneInv, Budgeted, Spent
<1> HIDE DEF u
<1> QED
  BY <1>1, <1>2, <1>3

\* The two commands of a purchase for a key, and the tasks they may be in.
LEMMA OthersElsewhere ==
    ASSUME FlowInv, LoneInv, Sheltered, NEW t \in tasks, NEW v \in tasks, v # t,
           t.msg.type \in InventoryTypes, v.msg.type \in InventoryTypes, t.stage = "write",
           Key(v.msg) = Key(t.msg)
    PROVE  /\ docs[Key(t.msg)] # <<>> /\ t.msg.type = "SubtractItems"
           /\ v.msg.type = "GrantItems" /\ v.stage # "write"
<1>1. /\ t.msg \in sent /\ v.msg \in sent /\ t.msg # v.msg /\ Fits(t) /\ Fits(v)
      /\ t.msg.type \in Commanded /\ v.msg.type \in Commanded
  BY ItemTask DEF FlowInv, ServiceInv, OneTask, LoneInv, FitTasks
<1>2. t.msg.p \in Purchases /\ v.msg.p \in Purchases /\ UserOf[v.msg.p] = UserOf[t.msg.p]
  BY <1>1, SentCommand DEF Key
<1>3. v.msg.type # t.msg.type
  <2>1. v.msg.p = t.msg.p
    BY <1>2 DEF Sheltered
  <2> QED
    BY <1>1, <2>1, OneCommand
<1>4. ~(t.msg.type = "GrantItems" /\ v.msg.type = "SubtractItems")
  BY <1>1, SubtractFinds DEF Fits, GrantFits
<1>5. t.msg.type = "SubtractItems" /\ v.msg.type = "GrantItems"
  BY <1>3, <1>4 DEF InventoryTypes
<1>6. docs[Key(t.msg)] # <<>>
  BY <1>1, <1>5 DEF Fits, SubtractFits
<1>7. v.stage # "write"
  BY <1>1, <1>5, <1>6 DEF Fits, GrantFits
<1> QED
  BY <1>5, <1>6, <1>7

LEMMA SingleSeq ==
    ASSUME NEW s \in Seq(DocSet), Len(s) <= 1, NEW d \in DocSet, NEW r,
           \/ s = <<>> /\ r = Append(s, d)
           \/ s # <<>> /\ r = [s EXCEPT ![1] = d]
    PROVE  r \in Seq(DocSet) /\ Len(r) = 1 /\ r[1] = d /\ r # <<>> /\ DOMAIN r = {1}
<1>1. r \in Seq(DocSet) /\ Len(r) = 1 /\ r[1] = d
  <2>1. CASE s = <<>> /\ r = Append(s, d)
    <3>1. Len(s) = 0
      BY <2>1
    <3>2. r \in Seq(DocSet) /\ Len(r) = Len(s) + 1 /\ r[Len(s) + 1] = d
      BY <2>1, AppendProperties
    <3> QED
      BY <3>1, <3>2
  <2>2. CASE s # <<>> /\ r = [s EXCEPT ![1] = d]
    <3>1. PICK n : n = Len(s)
      OBVIOUS
    <3>2. n \in Nat \ {0} /\ n <= 1
      BY <2>2, <3>1, EmptySeq
    <3>3. n = 1 /\ 1 \in 1..n
      BY <3>2
    <3>4. Len(s) = 1 /\ 1 \in 1..Len(s)
      BY <3>1, <3>3
    <3>5. [s EXCEPT ![1] = d] \in Seq(DocSet) /\ Len([s EXCEPT ![1] = d]) = Len(s)
      BY ONLY s \in Seq(DocSet), d \in DocSet, <3>4, ExceptSeq
    <3>6. [s EXCEPT ![1] = d][1] = d
      BY ONLY s \in Seq(DocSet), d \in DocSet, <3>4, ExceptSeq
    <3> QED
      BY <2>2, <3>4, <3>5, <3>6
  <2> QED
    BY <2>1, <2>2
<1>2. DOMAIN r = 1..1
  BY <1>1, LenProperties
<1>3. DOMAIN r = {1} /\ r # <<>>
  <2>1. 1..1 = {1}
    OBVIOUS
  <2>2. Len(<<>>) = 0
    BY EmptySeq
  <2> QED
    BY <1>1, <1>2, <2>1, <2>2
<1> QED
  BY <1>1, <1>3

\* The store of a new document, or over the one that was read.
LEMMA StoredShape ==
    ASSUME FlowInv, LoneInv, NEW t \in tasks, t.msg.type \in InventoryTypes,
           t.stage = "write", docs' = Stored(t)
    PROVE  LET k == Key(t.msg) IN
           /\ k \in Keys /\ docs \in [Keys -> Seq(DocSet)]
           /\ \A j \in Keys : j # k => docs'[j] = docs[j]
           /\ docs'[k] # <<>> /\ Len(docs'[k]) = 1 /\ docs'[k][1] = t.copy.doc
           /\ DOMAIN docs'[k] = {1}
           /\ t.msg \in t.copy.doc.seen
           /\ docs[k] # <<>> => docs[k][1].seen \subseteq t.copy.doc.seen
<1> DEFINE k == Key(t.msg)
           d == t.copy.doc
           s == docs[k]
<1>1. k \in Keys /\ d \in DocSet /\ t.copy.new \in BOOLEAN
  BY ItemTask DEF FlowInv, ServiceInv, GoodTasks, GoodTask, GoodCopy, GoodDoc, InventoryTypes
<1>2. docs \in [Keys -> Seq(DocSet)] /\ s \in Seq(DocSet) /\ Len(s) <= 1
  BY <1>1 DEF FlowInv, ServiceInv, GoodDocs, LoneInv, SingleDocs
<1>3. /\ t.copy.new => s = <<>>
      /\ ~t.copy.new => s # <<>>
      /\ t.msg \in d.seen
      /\ s # <<>> => s[1].seen \subseteq d.seen
  BY DEF LoneInv, FitTasks, Fits, GrantFits, SubtractFits, InventoryTypes
<1>4. \/ t.copy.new /\ docs' = [docs EXCEPT ![k] = Append(s, d)]
      \/ ~t.copy.new /\ docs' = [docs EXCEPT ![k] = [s EXCEPT ![1] = d]]
  BY <1>1 DEF Stored
<1> HIDE DEF k, d, s
<1>5. PICK r : docs' = [docs EXCEPT ![k] = r] /\ r \in Seq(DocSet) /\ Len(r) = 1
               /\ r[1] = d /\ r # <<>> /\ DOMAIN r = {1}
  BY <1>1, <1>2, <1>3, <1>4, SingleSeq
<1>6. /\ docs'[k] = r /\ r # <<>> /\ DOMAIN r = {1}
      /\ \A j \in Keys : j # k => docs'[j] = docs[j]
  <2>2. DOMAIN docs = Keys
    BY <1>2, Zenon
  <2> QED
    BY <1>1, <1>5, <2>2, Zenon
<1> QED
  BY <1>1, <1>2, <1>3, <1>5, <1>6 DEF k, d, s

LEMMA StoredGrows ==
    ASSUME FlowInv, LoneInv, Sheltered, NEW t \in tasks, t.msg.type \in InventoryTypes,
           t.stage = "write", docs' = Stored(t), sent \subseteq sent', users' = users
    PROVE  /\ Grown /\ SingleDocs' /\ DebitsAffordable' /\ Recorded(t.msg)'
           /\ \A v \in tasks : v # t => Fits(v)'
<1> DEFINE k == Key(t.msg)
           d == t.copy.doc
<1>1. /\ k \in Keys /\ docs \in [Keys -> Seq(DocSet)]
      /\ \A j \in Keys : j # k => docs'[j] = docs[j]
      /\ docs'[k] # <<>> /\ Len(docs'[k]) = 1 /\ docs'[k][1] = d /\ DOMAIN docs'[k] = {1}
      /\ t.msg \in d.seen
      /\ docs[k] # <<>> => docs[k][1].seen \subseteq d.seen
  BY StoredShape
<1>2. SingleDocs' /\ DebitsAffordable' /\ Recorded(t.msg)'
  <2>1. DebitsAffordable'
    BY DEF LoneInv, DebitsAffordable, Affordable
  <2>2. Recorded(t.msg)'
    BY <1>1 DEF Recorded, Key
  <2>3. \E g \in d.seen : g.type = "GrantItems"
    <3>1. CASE t.msg.type = "GrantItems"
      BY <1>1, <3>1
    <3>2. CASE t.msg.type = "SubtractItems"
      <4>1. docs[k] # <<>>
        BY <3>2 DEF LoneInv, FitTasks, Fits, SubtractFits
      <4> QED
        BY <1>1, <4>1 DEF LoneInv, SingleDocs
    <3> QED
      BY <3>1, <3>2 DEF InventoryTypes
  <2> HIDE DEF k, d
  <2>4. ASSUME NEW j \in Keys
        PROVE  /\ Len(docs'[j]) <= 1
               /\ docs'[j] # <<>> => \E g \in docs'[j][1].seen : g.type = "GrantItems"
    <3>1. CASE j = k
      <4>1. PICK r : r = docs'[k]
        OBVIOUS
      <4>2. Len(r) = 1 /\ r[1] = d
        BY <1>1, <4>1, Zenon
      <4>3. Len(r) <= 1 /\ \E g \in r[1].seen : g.type = "GrantItems"
        BY <2>3, <4>2
      <4> QED
        BY <3>1, <4>1, <4>3, Zenon
    <3>2. CASE j # k
      BY <1>1, <3>2 DEF LoneInv, SingleDocs
    <3> QED
      BY <3>1, <3>2
  <2> QED
    BY <2>1, <2>2, <2>4 DEF SingleDocs
<1>3. Grown
  <2>1. ASSUME NEW j \in Keys, NEW i \in DOMAIN docs[j]
        PROVE  i \in DOMAIN docs'[j] /\ docs[j][i].seen \subseteq docs'[j][i].seen
    <3>1. CASE j = k
      <4>1. i = 1
        <5>1. docs[k] \in Seq(DocSet) /\ Len(docs[k]) <= 1
          BY <1>1 DEF LoneInv, SingleDocs
        <5> QED
          BY <3>1, <5>1
      <4>2. docs[k] # <<>>
        BY <3>1
      <4> QED
        BY <1>1, <3>1, <4>1, <4>2
    <3>2. CASE j # k
      BY <1>1, <3>2
    <3> QED
      BY <3>1, <3>2
  <2> QED
    BY <2>1 DEF Grown
<1>4. ASSUME NEW v \in tasks, v # t PROVE Fits(v)'
  <2>1. Fits(v)
    BY DEF LoneInv, FitTasks
  <2>2. CASE v.msg.type = "DebitGil"
    BY <2>1, <2>2 DEF Fits, DebitFits, Said, Debited, Affordable, Payer
  <2>3. CASE v.msg.type \in InventoryTypes /\ Key(v.msg) # k
    <3>1. Key(v.msg) \in Keys
      BY <2>3, ItemTask
    <3>2. docs'[Key(v.msg)] = docs[Key(v.msg)]
      BY <1>1, <2>3, <3>1
    <3> QED
      BY <2>1, <2>3, <3>2
         DEF Fits, GrantFits, SubtractFits, Said, Recorded, Key, InventoryTypes
  <2>4. CASE v.msg.type \in InventoryTypes /\ Key(v.msg) = k
    <3>1. v.msg.type = "GrantItems" /\ v.stage # "write" /\ Key(v.msg) \in Keys
      BY <1>1, <1>4, <2>4, OthersElsewhere
    <3>2. Recorded(v.msg) => Recorded(v.msg)'
      BY <1>3, <3>1, GrownKeeps
    <3> QED
      BY <2>1, <3>1, <3>2 DEF Fits, GrantFits, Said
  <2> QED
    BY <2>2, <2>3, <2>4 DEF FlowInv, ServiceInv, GoodTasks, GoodTask, Commanded, InventoryTypes
<1> QED
  BY <1>2, <1>3, <1>4

LEMMA LoneGrantRead ==
    ASSUME FlowInv, LoneInv, Sheltered, NEW t \in tasks, GrantRead(t), UNCHANGED <<saga, users>>
    PROVE  LoneInv'
<1> DEFINE m == t.msg
           k == Key(m)
<1>1. /\ m.type = "GrantItems" /\ m.type \in InventoryTypes /\ m.type \in Commanded
      /\ UNCHANGED <<net, sent, docs, users, known, saga, failures>>
  BY DEF GrantRead, InventoryTypes, Commanded
<1>2. m \in sent /\ k \in Keys /\ m.p \in Purchases
  BY <1>1, ItemTask, SentCommand
<1>3. ASSUME docs[k] # <<>> PROVE m \in docs[k][1].seen
  <2>1. 1 \in DOMAIN docs[k]
    BY <1>2, <1>3, FoundDoc
  <2>2. PICK g \in docs[k][1].seen : g.type = "GrantItems"
    BY <1>2, <1>3 DEF LoneInv, SingleDocs
  <2>3. Key(g) = k /\ g \in sent
    BY <1>2, <2>1, RecordedOnce
  <2>4. g.p = m.p
    BY <1>2, <2>2, <2>3, SentCommand DEF Key, Sheltered, Commanded
  <2>5. g = m
    BY <1>1, <1>2, <2>2, <2>3, <2>4, OneCommand
  <2> QED
    BY <2>5
<1>4. CASE docs[k] = <<>>
  <2> DEFINE c == Copy(m.qty, {m}, TRUE)
  <2>1. Advance(t, "write", c)
    BY <1>4 DEF GrantRead
  <2>2. c.new /\ m \in c.doc.seen
    BY DEF Copy, Doc
  <2> HIDE DEF c
  <2>3. PICK u : Becomes(t, u, {}) /\ Spent(u) /\ u.msg = m /\ u.stage = "write" /\ u.copy = c
    BY <1>1, <2>1, PublishNone, AnsweredNone, AdvanceSpends
  <2>4. Fits(u)'
    BY <1>1, <1>4, <2>2, <2>3 DEF Fits, GrantFits, Key
  <2> QED
    BY <1>1, <2>3, <2>4, HonestNone, LoneQuiet
<1>5. CASE docs[k] # <<>>
  <2>1. Advance(t, "republish", <<>>) /\ Recorded(m)
    BY <1>3, <1>5 DEF GrantRead, Recorded
  <2>2. PICK u : Becomes(t, u, {}) /\ Spent(u) /\ u.msg = m /\ u.stage = "republish"
    BY <1>1, <2>1, PublishNone, AnsweredNone, AdvanceSpends
  <2>3. Fits(u)'
    BY <1>1, <2>1, <2>2 DEF Fits, GrantFits, Recorded, Key
  <2> QED
    BY <1>1, <2>2, <2>3, HonestNone, LoneQuiet
<1> QED
  BY <1>4, <1>5

LEMMA LoneSubtractRead ==
    ASSUME FlowInv, LoneInv, Sheltered, NEW t \in tasks, SubtractRead(t),
           UNCHANGED <<saga, users>>
    PROVE  LoneInv'
<1> DEFINE m == t.msg
           k == Key(m)
<1>1. /\ m.type = "SubtractItems" /\ m.type \in InventoryTypes
      /\ UNCHANGED <<net, sent, docs, users, known, saga, failures>>
  BY DEF SubtractRead, InventoryTypes
<1>2. m \in sent /\ k \in Keys /\ docs[k] # <<>>
  BY <1>1, ItemTask, SubtractFinds
<1>3. CASE m \in docs[k][1].seen
  <2>1. Advance(t, "republish", <<>>) /\ Recorded(m)
    BY <1>2, <1>3 DEF SubtractRead, Recorded
  <2>2. PICK u : Becomes(t, u, {}) /\ Spent(u) /\ u.msg = m /\ u.stage = "republish"
    BY <1>1, <2>1, PublishNone, AnsweredNone, AdvanceSpends
  <2>3. Fits(u)'
    BY <1>1, <2>1, <2>2 DEF Fits, SubtractFits, Recorded, Key
  <2> QED
    BY <1>1, <2>2, <2>3, HonestNone, LoneQuiet
<1>4. CASE m \notin docs[k][1].seen
  <2> DEFINE c == Copy(docs[k][1].qty - m.qty, docs[k][1].seen \cup {m}, FALSE)
  <2>1. Advance(t, "write", c)
    BY <1>2, <1>4 DEF SubtractRead
  <2>2. ~c.new /\ c.doc.seen = docs[k][1].seen \cup {m}
    BY DEF Copy, Doc
  <2> HIDE DEF c
  <2>3. PICK u : Becomes(t, u, {}) /\ Spent(u) /\ u.msg = m /\ u.stage = "write" /\ u.copy = c
    BY <1>1, <2>1, PublishNone, AnsweredNone, AdvanceSpends
  <2>4. Fits(u)'
    BY <1>1, <1>2, <2>2, <2>3 DEF Fits, SubtractFits, Key
  <2> QED
    BY <1>1, <2>3, <2>4, HonestNone, LoneQuiet
<1> QED
  BY <1>3, <1>4

LEMMA LoneStoreDoc ==
    ASSUME FlowInv, LoneInv, Sheltered, NEW t \in tasks, StoreDoc(t), UNCHANGED <<saga, users>>
    PROVE  LoneInv'
<1>1. /\ t.stage = "write" /\ t.msg.type \in InventoryTypes /\ docs' = Stored(t)
      /\ Advance(t, "publish", t.copy) /\ UNCHANGED <<net, sent, known, failures>>
  BY DEF StoreDoc
<1>2. PICK u : Becomes(t, u, {}) /\ Spent(u) /\ u.msg = t.msg /\ u.stage = "publish"
  BY <1>1, PublishNone, AnsweredNone, AdvanceSpends
<1>3. /\ Grown /\ SingleDocs' /\ DebitsAffordable' /\ Recorded(t.msg)'
      /\ \A v \in tasks : v # t => Fits(v)'
  BY <1>1, StoredGrows
<1>4. Fits(u)'
  BY <1>1, <1>2, <1>3 DEF Fits, GrantFits, SubtractFits, InventoryTypes, Recorded, Key
<1> QED
  BY <1>1, <1>2, <1>3, <1>4, HonestNone, LoneBecomes

LEMMA LoneStoreFails ==
    ASSUME FlowInv, LoneInv, Sheltered, NEW t \in tasks, StoreFails(t), UNCHANGED <<saga, users>>
    PROVE  LoneInv'
<1>1. /\ t.stage = "write" /\ t.msg.type \in InventoryTypes /\ docs' \in {docs, Stored(t)}
      /\ Failure /\ Throw(t, {}, InventoryRetries) /\ UNCHANGED known
  BY DEF StoreFails
<1>2. PICK u : Becomes(t, u, {}) /\ Spent(u) /\ u.stage = "read" /\ Fits(u)'
  BY <1>1, AnsweredNone, FailureRetries, InventoryAssumption DEF Sheltered
<1>3. CASE docs' = docs
  BY <1>1, <1>2, <1>3, HonestNone, LoneQuiet
<1>4. CASE docs' = Stored(t)
  <2>1. sent \subseteq sent'
    BY <1>2 DEF Becomes, Publish
  <2>2. /\ Grown /\ SingleDocs' /\ DebitsAffordable'
        /\ \A v \in tasks : v # t => Fits(v)'
    BY <1>1, <1>4, <2>1, StoredGrows
  <2> QED
    BY <1>1, <1>2, <2>2, HonestNone, LoneBecomes
<1> QED
  BY <1>1, <1>3, <1>4

\* What is published about a command is true once it is recorded.
LEMMA InventoryHonest ==
    ASSUME FlowInv, LoneInv, Sheltered, NEW t \in tasks, t.msg.type \in InventoryTypes,
           t.stage \in {"publish", "republish"}, docs' = docs,
           NEW out, out \subseteq (IF t.msg.type = "GrantItems" THEN GrantOut(t) ELSE SubtractOut(t))
    PROVE  Honest(out) /\ Recorded(t.msg)
<1>1. Recorded(t.msg) /\ t.msg \in sent /\ Key(t.msg) \in Keys
  BY ItemTask DEF LoneInv, FitTasks, Fits, GrantFits, SubtractFits, InventoryTypes
<1>2. t.msg.type = "GrantItems" => Granted(t.msg.p)'
  BY <1>1, RecordedGrants DEF Granted
<1>3. ASSUME NEW a \in out
      PROVE  \/ a.type = "InventoryItemsGranted" /\ t.msg.type = "GrantItems" /\ a.p = t.msg.p
             \/ a.type \in {"InventoryItemsSubtracted", "InventoryItemUpdated"}
  BY DEF GrantOut, SubtractOut, Event, InventoryItemUpdated, InventoryTypes
<1>4. \A type, p : Event(type, p).type = type /\ Event(type, p).p = p
  BY DEF Event
<1> QED
  BY <1>1, <1>2, <1>3, <1>4 DEF Honest

LEMMA LoneInventoryPublish ==
    ASSUME FlowInv, LoneInv, Sheltered, NEW t \in tasks,
           GrantPublish(t) \/ SubtractPublish(t), UNCHANGED <<saga, users>>
    PROVE  LoneInv'
<1>1. /\ t.msg.type \in InventoryTypes /\ t.stage \in {"publish", "republish"}
      /\ UNCHANGED <<docs, known, failures>>
  BY DEF GrantPublish, SubtractPublish, InventoryTypes
<1>2. CASE GrantPublish(t)
  <2>1. Answered(t, GrantOut(t)) /\ Honest(GrantOut(t)) /\ t.msg.type = "GrantItems"
    BY <1>1, <1>2, InventoryAnswers, InventoryHonest DEF GrantPublish
  <2>2. PICK u : Becomes(t, u, GrantOut(t)) /\ Spent(u) /\ u.msg = t.msg /\ u.stage = "ack"
    BY <1>1, <1>2, <2>1, AdvanceSpends DEF GrantPublish
  <2>3. Said("InventoryItemsGranted", t.msg.p)'
    BY <2>2 DEF Said, Becomes, Publish, GrantOut
  <2>4. Fits(u)'
    BY <2>1, <2>2, <2>3 DEF Fits, GrantFits, Said
  <2> QED
    BY <1>1, <2>1, <2>2, <2>4, LoneQuiet
<1>3. CASE SubtractPublish(t)
  <2>1. /\ Answered(t, SubtractOut(t)) /\ Honest(SubtractOut(t)) /\ Recorded(t.msg)
        /\ t.msg.type = "SubtractItems"
    BY <1>1, <1>3, InventoryAnswers, InventoryHonest DEF SubtractPublish
  <2>2. PICK stage \in {"republish", "ack"} : Advance(t, stage, <<>>)
    BY <1>3 DEF SubtractPublish
  <2>3. PICK u : Becomes(t, u, SubtractOut(t)) /\ Spent(u) /\ u.msg = t.msg /\ u.stage = stage
    BY <1>1, <1>3, <2>1, <2>2, AdvanceSpends DEF SubtractPublish
  <2>4. Fits(u)'
    BY <1>1, <2>1, <2>3 DEF Fits, SubtractFits, Recorded, Key
  <2> QED
    BY <1>1, <2>1, <2>3, <2>4, LoneQuiet
<1> QED
  BY <1>2, <1>3

LEMMA LonePublishFails ==
    ASSUME FlowInv, LoneInv, Sheltered, NEW t \in tasks, PublishFails(t), UNCHANGED <<saga, users>>
    PROVE  LoneInv'
<1>1. /\ t.msg.type \in InventoryTypes /\ t.stage \in {"publish", "republish"} /\ Failure
      /\ UNCHANGED <<docs, known>>
  BY DEF PublishFails
<1>2. PICK out \in SUBSET (IF t.msg.type = "GrantItems" THEN GrantOut(t) ELSE SubtractOut(t)) :
          Throw(t, out, InventoryRetries)
  BY DEF PublishFails
<1>3. Answered(t, out) /\ Honest(out)
  BY <1>1, <1>2, InventoryAnswers, InventoryHonest
<1>4. PICK u : Becomes(t, u, out) /\ Spent(u) /\ Fits(u)'
  BY <1>1, <1>2, <1>3, FailureRetries, InventoryAssumption DEF Sheltered
<1> QED
  BY <1>1, <1>3, <1>4, LoneQuiet

\* A command is acknowledged once what the saga waits for has happened.
LEMMA LoneSettle ==
    ASSUME FlowInv, LoneInv, Sheltered, NEW t \in tasks, Settle(t),
           UNCHANGED <<saga, known, docs, users>>
    PROVE  LoneInv'
<1>1. /\ tasks' = tasks \ {t} /\ sent' = sent /\ net' = net \ {t.msg}
      /\ failures' = failures /\ t.stage = "ack"
  BY DEF Settle, Acknowledge, Routed
<1>2. Fits(t) /\ t.msg.type \in Commanded
  BY DEF LoneInv, FitTasks, FlowInv, ServiceInv, GoodTasks, GoodTask
<1>3. Budgeted' /\ SingleDocs' /\ DebitsAffordable'
  BY <1>1 DEF LoneInv, Budgeted, SingleDocs, DebitsAffordable, Affordable
<1>4. FitTasks'
  BY <1>1, FitsStays DEF LoneInv, FitTasks
<1>5. AnswersTrue'
  BY <1>1 DEF LoneInv, AnswersTrue, GrantTrue, DebitTrue, RefusalTrue, Said, Granted, Paid, Affordable
<1>6. ASSUME NEW p \in Purchases
      PROVE  (GrantAwaited(p) /\ DebitAwaited(p) /\ TakeBackAwaited(p))'
  <2>1. GrantAwaited(p) /\ DebitAwaited(p) /\ TakeBackAwaited(p)
    BY DEF LoneInv, Awaited
  <2>2. \A type \in {"InventoryItemsGranted", "GilDebited", "DebitGilFaulted"} :
            Heard(type, p) => Heard(type, p)'
    BY <1>1, <1>2 DEF Heard, Event, Commanded
  <2>3. \A type : Said(type, p)' <=> Said(type, p)
    BY <1>1 DEF Said
  <2>4. \A type : Queued(type, p) =>
            Queued(type, p)' \/ (t.msg.type = type /\ t.msg.p = p)
    BY <1>1 DEF Queued
  <2>5. GrantAwaited(p)'
    <3>1. t.msg.type = "GrantItems" /\ t.msg.p = p => Said("InventoryItemsGranted", p)
      BY <1>1, <1>2 DEF Fits, GrantFits
    <3> QED
      BY <2>1, <2>2, <2>3, <2>4, <3>1 DEF GrantAwaited
  <2>6. DebitAwaited(p)'
    <3>1. t.msg.type = "DebitGil" /\ t.msg.p = p =>
              Said("GilDebited", p) \/ Said("DebitGilFaulted", p)
      BY <1>1, <1>2 DEF Fits, DebitFits
    <3> QED
      BY <2>1, <2>2, <2>3, <2>4, <3>1 DEF DebitAwaited
  <2>7. TakeBackAwaited(p)'
    <3>1. t.msg.type = "SubtractItems" /\ t.msg.p = p => TakenBack(p)
      <4> SUFFICES ASSUME t.msg.type = "SubtractItems", t.msg.p = p PROVE TakenBack(p)
        OBVIOUS
      <4>1. Recorded(t.msg) /\ t.msg \in sent /\ Key(t.msg) \in Keys
        BY <1>1, <1>2, ItemTask DEF Fits, SubtractFits, InventoryTypes
      <4> QED
        BY <4>1, RecordedGrants
    <3>2. TakenBack(p)' <=> TakenBack(p)
      BY DEF TakenBack
    <3> QED
      BY <2>1, <2>3, <2>4, <3>1, <3>2 DEF TakeBackAwaited
  <2> QED
    BY <2>5, <2>6, <2>7
<1>7. Awaited'
  BY <1>6 DEF Awaited
<1> QED
  BY <1>3, <1>4, <1>5, <1>7 DEF LoneInv

LEMMA LoneInventoryTask ==
    ASSUME FlowInv, LoneInv, Sheltered, NEW t \in tasks, InventoryTask(t), UNCHANGED <<saga, users>>
    PROVE  LoneInv'
<1>1. CASE ItemUnknown(t)
  <2>1. t.msg.type \in InventoryTypes /\ t.msg.item \notin known
    BY <1>1 DEF ItemUnknown
  <2>2. t.msg.item \in Items
    BY <2>1, ItemTask DEF ItemCommands
  <2> QED
    BY <2>1, <2>2 DEF LoneInv
<1>2. CASE GrantRead(t) \/ SubtractRead(t)
  BY <1>2, LoneGrantRead, LoneSubtractRead
<1>3. CASE StoreDoc(t) \/ StoreFails(t)
  BY <1>3, LoneStoreDoc, LoneStoreFails
<1>4. CASE GrantPublish(t) \/ SubtractPublish(t) \/ PublishFails(t)
  BY <1>4, LoneInventoryPublish, LonePublishFails
<1>5. CASE ReadFails(t)
  <2>1. Failure /\ Throw(t, {}, InventoryRetries) /\ UNCHANGED <<docs, known>>
    BY <1>5 DEF ReadFails
  <2>2. PICK u : Becomes(t, u, {}) /\ Spent(u) /\ Fits(u)'
    BY <2>1, AnsweredNone, FailureRetries, InventoryAssumption DEF Sheltered
  <2> QED
    BY <2>1, <2>2, HonestNone, LoneQuiet
<1>6. CASE Settle(t) /\ UNCHANGED <<docs, known>>
  BY <1>6, LoneSettle
<1> QED
  BY <1>1, <1>2, <1>3, <1>4, <1>5, <1>6 DEF InventoryTask

\* A user is debited by one purchase only.
LEMMA OnlyDebit ==
    ASSUME FlowInv, Sheltered, NEW m \in sent, m.type = "DebitGil", UserOf[m.p] \in DOMAIN users
    PROVE  /\ users[UserOf[m.p]].seen \subseteq {m}
           /\ m \notin users[UserOf[m.p]].seen => users[UserOf[m.p]].gil = InitialGil[UserOf[m.p]]
           /\ UserOf[m.p] \in DOMAIN InitialGil /\ InitialGil[UserOf[m.p]] \in Nat
<1> DEFINE u == UserOf[m.p]
           a == users[u]
<1>1. GoodUser(u, a) /\ u \in DOMAIN InitialGil /\ InitialGil[u] \in Nat
  BY DebitAssumption DEF FlowInv, ServiceInv, GoodUsers
<1>2. ASSUME NEW n \in a.seen PROVE n = m
  <2>1. n \in sent /\ n.type = "DebitGil" /\ UserOf[n.p] = u
    BY <1>1, <1>2 DEF GoodUser
  <2>2. n.p = m.p
    BY <2>1, SentCommand DEF Commanded, Sheltered
  <2> QED
    BY <2>1, <2>2, OneCommand DEF Commanded
<1>3. ASSUME m \notin a.seen PROVE a.gil = InitialGil[u]
  <2>1. a.seen = {}
    BY <1>2, <1>3
  <2>2. a.gil = InitialGil[u] + MapThenSumSet(Effect, {})
    BY <1>1, <2>1 DEF GoodUser
  <2> QED
    BY <1>1, <2>2, SumOfNone
<1> QED
  BY <1>1, <1>2, <1>3

LEMMA LoneDebitRefused ==
    ASSUME FlowInv, LoneInv, Sheltered, NEW t \in tasks, DebitRefused(t),
           UNCHANGED <<saga, known, docs>>
    PROVE  LoneInv'
<1> DEFINE m == t.msg
           u == [t EXCEPT !.stage = "ack", !.copy = <<>>]
           f == Event("DebitGilFaulted", m.p)
<1>1. /\ m.type = "DebitGil" /\ Throw(t, {}, 0) /\ UNCHANGED <<users, failures>>
      /\ m \in sent /\ m.total \in Nat /\ t.tries \in Nat
      /\ m.type \in Commanded
  BY DebitTaskOf DEF DebitRefused, Debiting, TaskSet
<1>2. Replace(t, u) /\ Publish({f})
  BY <1>1 DEF Throw, Advance, FaultType
<1>3. Answered(t, {f})
  BY <1>1, AnsweredNone, FaultAnswers DEF FaultType
<1>4. u.msg = m /\ u.stage = "ack" /\ u.tries = t.tries
  BY <1>1, DebitTaskOf DEF TaskSet
<1> HIDE DEF u
<1>5. Becomes(t, u, {f}) /\ Spent(u)
  BY <1>1, <1>2, <1>3, <1>4 DEF Becomes, LoneInv, Budgeted, Spent
<1>6. ~Affordable(m)
  <2>1. CASE Payer(t) \notin DOMAIN users
    BY <2>1 DEF Affordable, Payer, FlowInv, ServiceInv, GoodUsers
  <2>2. CASE /\ Payer(t) \in DOMAIN users /\ m \notin users[Payer(t)].seen
             /\ users[Payer(t)].gil < m.total
    <3>1. users[Payer(t)].gil = InitialGil[UserOf[m.p]] /\ InitialGil[UserOf[m.p]] \in Nat
      BY <1>1, <2>2, OnlyDebit DEF Payer
    <3> QED
      BY <1>1, <2>2, <3>1 DEF Affordable
  <2> QED
    BY <2>1, <2>2 DEF DebitRefused
<1>7. Honest({f})
  BY <1>1, <1>6 DEF Honest, Event
<1>8. Fits(u)'
  BY <1>1, <1>2, <1>4 DEF Fits, DebitFits, Said, Publish
<1> QED
  BY <1>1, <1>5, <1>7, <1>8, LoneQuiet

LEMMA LoneDebitRead ==
    ASSUME FlowInv, LoneInv, Sheltered, NEW t \in tasks, DebitRead(t), UNCHANGED <<saga, known, docs>>
    PROVE  LoneInv'
<1> DEFINE m == t.msg
           a == users[Payer(t)]
           c == User(a.gil - m.total, a.seen \cup {m}, a.stamp)
<1>1. /\ m.type = "DebitGil" /\ Payer(t) \in DOMAIN users /\ m \in sent /\ m.total \in Nat
      /\ UNCHANGED <<net, sent, docs, known, users, saga, failures>>
  BY DebitTaskOf DEF DebitRead, Debiting
<1>2. CASE m \in a.seen /\ Advance(t, "republish", <<>>)
  <2>1. PICK u : Becomes(t, u, {}) /\ Spent(u) /\ u.msg = m /\ u.stage = "republish"
    BY <1>1, <1>2, PublishNone, AnsweredNone, AdvanceSpends
  <2>2. Fits(u)'
    BY <1>1, <1>2, <2>1 DEF Fits, DebitFits, Debited, Payer
  <2> QED
    BY <1>1, <2>1, <2>2, HonestNone, LoneQuiet
<1>3. CASE m \notin a.seen /\ a.gil >= m.total /\ Advance(t, "write", c)
  <2>1. Affordable(m)
    BY <1>1, <1>3, OnlyDebit DEF Affordable, Payer
  <2>2. c.stamp = a.stamp
    BY DEF User
  <2> HIDE DEF c
  <2>3. PICK u : Becomes(t, u, {}) /\ Spent(u) /\ u.msg = m /\ u.stage = "write" /\ u.copy = c
    BY <1>1, <1>3, PublishNone, AnsweredNone, AdvanceSpends
  <2>4. Fits(u)'
    BY <1>1, <2>1, <2>2, <2>3 DEF Fits, DebitFits, Affordable, Payer
  <2> QED
    BY <1>1, <2>3, <2>4, HonestNone, LoneQuiet
<1> QED
  BY <1>2, <1>3 DEF DebitRead

\* The update of the only debit of a user is stored.
LEMMA UpdatedGrows ==
    ASSUME FlowInv, LoneInv, Sheltered, NEW t \in tasks, Debiting(t, "write"),
           users' = Updated(Payer(t), t.copy), docs' = docs, sent \subseteq sent'
    PROVE  /\ Grown /\ SingleDocs' /\ DebitsAffordable' /\ Debited(t.msg)'
           /\ \A v \in tasks : v # t => Fits(v)'
<1> DEFINE p == Payer(t)
           m == t.msg
           c == t.copy
           b == User(c.gil, c.seen, c.stamp + 1)
<1>1. m.type = "DebitGil" /\ t.stage = "write" /\ m \in sent /\ Fits(t) /\ Current(t)
  BY DebitTaskOf DEF Debiting, LoneInv, FitTasks, FlowInv, ServiceInv, CurrentTasks
<1>2. Affordable(m) /\ c.stamp = users[p].stamp /\ c.seen = users[p].seen \cup {m}
  BY <1>1 DEF Fits, DebitFits, Current
<1>3. users \in [DOMAIN InitialGil -> UserSet] /\ p \in DOMAIN InitialGil
  BY <1>2 DEF FlowInv, ServiceInv, GoodUsers, Affordable, Payer
<1>4. users' = [users EXCEPT ![p] = b] /\ b.seen = c.seen
  BY <1>2 DEF Updated, User
<1> HIDE DEF b
<1>5. /\ DOMAIN users' = DOMAIN users /\ users'[p].seen = users[p].seen \cup {m}
      /\ \A u \in DOMAIN users : u # p => users'[u] = users[u]
  BY <1>2, <1>3, <1>4
<1>6. Grown
  BY <1>5 DEF Grown
<1>7. SingleDocs'
  BY DEF LoneInv, SingleDocs
<1>8. DebitsAffordable'
  <2>1. ASSUME NEW u \in DOMAIN users, NEW n \in users'[u].seen PROVE Affordable(n)
    BY <1>2, <1>5, <2>1 DEF LoneInv, DebitsAffordable
  <2> QED
    BY <1>5, <2>1 DEF DebitsAffordable, Affordable
<1>9. Debited(m)'
  BY <1>3, <1>5 DEF Debited, Payer
<1>10. ASSUME NEW v \in tasks, v # t PROVE Fits(v)'
  <2>1. Fits(v)
    BY DEF LoneInv, FitTasks
  <2>2. CASE v.msg.type # "DebitGil"
    BY <2>1, <2>2 DEF Fits, GrantFits, SubtractFits, Said, Recorded, Key
  <2>3. CASE v.msg.type = "DebitGil"
    <3>1. v.msg \in sent /\ v.msg.p \in Purchases /\ m.p \in Purchases /\ v.msg # m
      <4>1. v.msg \in sent /\ v.msg.p \in Purchases /\ m.p \in Purchases
        BY <1>1, <2>3, DebitTaskOf, SentCommand DEF Commanded
      <4>2. v.msg # m
        BY <1>10 DEF FlowInv, ServiceInv, OneTask
      <4> QED
        BY <4>1, <4>2
    <3>2. Payer(v) # p
      BY <1>1, <2>3, <3>1, OneCommand DEF Payer, Sheltered, Commanded
    <3>3. v.stage = "write" => Payer(v) \in DOMAIN users
      BY <2>1, <2>3 DEF Fits, DebitFits, Affordable, Payer, FlowInv, ServiceInv, GoodUsers
    <3>4. v.stage = "write" => users'[Payer(v)] = users[Payer(v)]
      BY <1>5, <3>2, <3>3
    <3>5. Debited(v.msg) => Debited(v.msg)'
      BY <1>6, GrownKeeps
    <3> QED
      BY <2>1, <2>3, <3>4, <3>5 DEF Fits, DebitFits, Said, Affordable, Payer
  <2> QED
    BY <2>2, <2>3
<1> QED
  BY <1>6, <1>7, <1>8, <1>9, <1>10

LEMMA DebitHonest ==
    ASSUME FlowInv, LoneInv, Sheltered, NEW t \in tasks, t.msg.type = "DebitGil",
           t.stage \in {"publish", "republish"}, users' = users, NEW out \in SUBSET DebitOut(t)
    PROVE  Honest(out)
<1>1. Debited(t.msg)
  BY DEF LoneInv, FitTasks, Fits, DebitFits
<1>2. Paid(t.msg.p)'
  BY <1>1 DEF Debited, Paid
<1>3. ASSUME NEW a \in out
      PROVE  \/ a.type = "GilDebited" /\ a.p = t.msg.p
             \/ a.type = "UserUpdated"
  BY DEF DebitOut, Event, UserUpdated
<1>4. \A type, p : Event(type, p).type = type /\ Event(type, p).p = p
  BY DEF Event
<1> QED
  BY <1>2, <1>3, <1>4 DEF Honest

LEMMA LoneDebitTask ==
    ASSUME FlowInv, LoneInv, Sheltered, NEW t \in tasks, DebitTask(t), UNCHANGED <<saga, known, docs>>
    PROVE  LoneInv'
<1>1. CASE DebitRefused(t) \/ DebitRead(t)
  BY <1>1, LoneDebitRefused, LoneDebitRead
<1>2. CASE DebitWrite(t)
  <2>1. /\ Debiting(t, "write") /\ t.msg.type = "DebitGil" /\ users' = Updated(Payer(t), t.copy)
        /\ Advance(t, "publish", t.copy) /\ UNCHANGED <<net, sent, failures>>
    BY <1>2 DEF DebitWrite, Debiting
  <2>2. PICK u : Becomes(t, u, {}) /\ Spent(u) /\ u.msg = t.msg /\ u.stage = "publish"
    BY <2>1, PublishNone, AnsweredNone, AdvanceSpends
  <2>3. /\ Grown /\ SingleDocs' /\ DebitsAffordable' /\ Debited(t.msg)'
        /\ \A v \in tasks : v # t => Fits(v)'
    BY <2>1, UpdatedGrows
  <2>4. Fits(u)'
    BY <2>1, <2>2, <2>3 DEF Fits, DebitFits, Debited
  <2> QED
    BY <2>2, <2>3, <2>4, HonestNone, LoneBecomes
<1>3. CASE DebitPublish(t)
  <2>1. /\ t.msg.type = "DebitGil" /\ t.stage \in {"publish", "republish"}
        /\ Publish(DebitOut(t)) /\ Advance(t, "ack", <<>>) /\ UNCHANGED <<users, failures>>
    BY <1>3 DEF DebitPublish, Debiting
  <2>2. Answered(t, DebitOut(t)) /\ Honest(DebitOut(t))
    BY <2>1, DebitAnswers, DebitHonest
  <2>3. PICK u : Becomes(t, u, DebitOut(t)) /\ Spent(u) /\ u.msg = t.msg /\ u.stage = "ack"
    BY <2>1, <2>2, AdvanceSpends
  <2>4. Fits(u)'
    BY <2>1, <2>3 DEF Fits, DebitFits, Said, Publish, DebitOut
  <2> QED
    BY <2>1, <2>2, <2>3, <2>4, LoneQuiet
<1>4. CASE DebitFails(t)
  <2>1. t.msg.type = "DebitGil" /\ Failure
    BY <1>4 DEF DebitFails
  <2>2. ASSUME NEW out, Answered(t, out), Throw(t, out, DebitRetries)
        PROVE  \E u : Becomes(t, u, out) /\ Spent(u) /\ Fits(u)'
    BY <2>1, <2>2, FailureRetries, DebitAssumption DEF Sheltered
  <2>3. CASE t.stage = "read" /\ Throw(t, {}, DebitRetries) /\ UNCHANGED users
    BY <2>2, <2>3, AnsweredNone, HonestNone, LoneQuiet
  <2>4. CASE /\ t.stage = "write" /\ Throw(t, {}, DebitRetries)
             /\ users' \in {users, Updated(Payer(t), t.copy)}
    <3>1. PICK u : Becomes(t, u, {}) /\ Spent(u) /\ Fits(u)'
      BY <2>2, <2>4, AnsweredNone
    <3>2. CASE users' = users
      BY <3>1, <3>2, HonestNone, LoneQuiet
    <3>3. CASE users' = Updated(Payer(t), t.copy)
      <4>1. sent \subseteq sent'
        BY <3>1 DEF Becomes, Publish
      <4>2. /\ Grown /\ SingleDocs' /\ DebitsAffordable'
            /\ \A v \in tasks : v # t => Fits(v)'
        BY <2>1, <2>4, <3>3, <4>1, UpdatedGrows DEF Debiting
      <4> QED
        BY <3>1, <4>2, HonestNone, LoneBecomes
    <3> QED
      BY <2>4, <3>2, <3>3
  <2>5. CASE /\ t.stage \in {"publish", "republish"}
             /\ \E out \in SUBSET DebitOut(t) : Throw(t, out, DebitRetries)
             /\ UNCHANGED users
    <3>1. PICK out \in SUBSET DebitOut(t) : Throw(t, out, DebitRetries)
      BY <2>5
    <3>2. Answered(t, out) /\ Honest(out)
      BY <2>1, <2>5, DebitAnswers, DebitHonest
    <3>3. PICK u : Becomes(t, u, out) /\ Spent(u) /\ Fits(u)'
      BY <2>2, <3>1, <3>2
    <3> QED
      BY <2>5, <3>2, <3>3, LoneQuiet
  <2> QED
    BY <1>4, <2>3, <2>4, <2>5 DEF DebitFails
<1>5. CASE Settle(t) /\ UNCHANGED users
  BY <1>5, LoneSettle
<1> QED
  BY <1>1, <1>2, <1>3, <1>4, <1>5 DEF DebitTask

\* A step the saga, the documents and the users take no part in.
LEMMA LoneIdle ==
    ASSUME LoneInv, UNCHANGED <<sent, saga, docs, users>>, net \subseteq net',
           known' = Items, Budgeted', FitTasks'
    PROVE  LoneInv'
<1>1. SingleDocs' /\ DebitsAffordable'
  BY DEF LoneInv, SingleDocs, DebitsAffordable, Affordable
<1>2. AnswersTrue'
  BY DEF LoneInv, AnswersTrue, GrantTrue, DebitTrue, RefusalTrue, Said, Granted, Paid, Affordable
<1>3. Awaited'
  BY DEF LoneInv, Awaited, GrantAwaited, DebitAwaited, TakeBackAwaited, Said, Heard, Queued, TakenBack
<1> QED
  BY <1>1, <1>2, <1>3 DEF LoneInv

LEMMA LoneBegin ==
    ASSUME LoneInv, NEW m, Begin(m), UNCHANGED <<saga, known, docs, users>>
    PROVE  LoneInv'
<1>1. /\ tasks' = tasks \cup {NewTask(m)} /\ UNCHANGED <<net, sent, failures>>
      /\ NewTask(m).stage = "read" /\ NewTask(m).tries = 0
  BY DEF Begin, NewTask
<1> DEFINE n == NewTask(m)
<1> HIDE DEF n
<1>2. Budgeted'
  BY <1>1 DEF LoneInv, Budgeted, n
<1>3. FitTasks'
  <2>1. Fits(n)'
    BY <1>1 DEF Fits, GrantFits, SubtractFits, DebitFits, n
  <2> QED
    BY <1>1, <2>1, FitsStays DEF LoneInv, FitTasks, n
<1> QED
  BY <1>1, <1>2, <1>3, LoneIdle DEF LoneInv

LEMMA LoneStop ==
    ASSUME FlowInv, LoneInv, NEW types, Stop(types), UNCHANGED <<saga, known, docs, users>>
    PROVE  LoneInv'
<1>1. tasks' \subseteq tasks /\ Failure /\ UNCHANGED <<net, sent>>
  BY DEF Stop
<1>2. Budgeted'
  <2>1. \A v \in tasks : v.tries \in Nat /\ v.tries <= failures
    BY DEF LoneInv, Budgeted, FlowInv, ServiceInv, GoodTasks, GoodTask, TaskSet
  <2>2. failures' \in 0..MaxFailures /\ failures' = failures + 1 /\ failures \in Nat
    BY <1>1, HostAssumption DEF Failure, LoneInv, Budgeted
  <2>3. \A v \in tasks : v.tries <= failures'
    BY <2>1, <2>2
  <2> QED
    BY <1>1, <2>2, <2>3 DEF Budgeted
<1>3. FitTasks'
  BY <1>1, FitsStays DEF LoneInv, FitTasks
<1> QED
  BY <1>1, <1>2, <1>3, LoneIdle DEF LoneInv

\* Trading acknowledges what it handles: it loses nothing.
LEMMA LoneFinish ==
    ASSUME FlowInv, Sheltered, NEW m, NEW out
    PROVE  /\ Finish(m, out) => Acknowledge(m, out)
           /\ Flush(m, out) => Acknowledge(m, out)
<1>1. ~Mishap
  BY DEF Mishap, Sheltered, FlowInv, P!SInv, P!TInv, P!TypeOK
<1> QED
  BY <1>1 DEF Finish, Flush, FlushFails

\* What Trading sends answers no command; the other purchases still wait for
\* what is queued for them.
LEMMA LoneHandled ==
    ASSUME FlowInv, LoneInv, NEW m \in net, m.type \in SagaEvents, UNCHANGED serviceVars,
           NEW out, Acknowledge(m, out),
           \A a \in out : a.type \in CommandTypes \cup {"PurchaseRequestedFaulted"},
           \A p \in Purchases : p # m.p => saga'[p] = saga[p],
           (GrantAwaited(m.p) /\ DebitAwaited(m.p) /\ TakeBackAwaited(m.p))'
    PROVE  LoneInv'
<1>1. /\ sent' = sent \cup out /\ sent \subseteq sent' /\ net \ {m} \subseteq net'
      /\ UNCHANGED <<tasks, failures, docs, known, users>>
  BY DEF Acknowledge, serviceVars
<1>2. \A p : \A type \in {"InventoryItemsGranted", "GilDebited", "DebitGilFaulted",
                         "GrantItemsFaulted"} : Said(type, p)' <=> Said(type, p)
  BY <1>1 DEF Said, Event, CommandTypes
<1>3. Budgeted' /\ SingleDocs' /\ DebitsAffordable'
  BY <1>1 DEF LoneInv, Budgeted, SingleDocs, DebitsAffordable, Affordable
<1>4. FitTasks'
  BY <1>1, FitsStays DEF LoneInv, FitTasks
<1>5. AnswersTrue'
  <2>1. ASSUME NEW p, Granted(p) \/ Paid(p) PROVE (Granted(p) <=> Granted(p)') /\ (Paid(p) <=> Paid(p)')
    BY <1>1 DEF Granted, Paid
  <2> QED
    BY <1>1, <1>2, <2>1 DEF LoneInv, AnswersTrue, GrantTrue, DebitTrue, RefusalTrue, Affordable
<1>6. ASSUME NEW p \in Purchases, p # m.p
      PROVE  (GrantAwaited(p) /\ DebitAwaited(p) /\ TakeBackAwaited(p))'
  <2>1. GrantAwaited(p) /\ DebitAwaited(p) /\ TakeBackAwaited(p) /\ saga'[p] = saga[p]
    BY <1>6 DEF LoneInv, Awaited
  <2>2. \A type : (Heard(type, p) => Heard(type, p)') /\ (Queued(type, p) => Queued(type, p)')
    BY <1>1, <1>6 DEF Heard, Queued, Event
  <2>3. TakenBack(p)' <=> TakenBack(p)
    BY <1>1 DEF TakenBack
  <2> QED
    BY <1>2, <2>1, <2>2, <2>3 DEF GrantAwaited, DebitAwaited, TakeBackAwaited
<1>7. Awaited'
  BY <1>6 DEF Awaited
<1> QED
  BY <1>1, <1>3, <1>4, <1>5, <1>7 DEF LoneInv

\* An event that leaves the saga in a state that did not wait for it.
LEMMA LoneIgnored ==
    ASSUME FlowInv, LoneInv, NEW m \in net, m.type \in SagaEvents, UNCHANGED serviceVars,
           NEW out, Acknowledge(m, out),
           \A a \in out : a.type = "PurchaseRequestedFaulted",
           \A p \in Purchases : p # m.p => saga'[p] = saga[p],
           saga'[m.p].state = saga[m.p].state,
           saga[m.p].state = "Accepted" => m.type # "InventoryItemsGranted",
           saga[m.p].state = "ItemsGranted" => m.type \notin {"GilDebited", "DebitGilFaulted"}
    PROVE  LoneInv'
<1> DEFINE p == m.p
<1>1. /\ sent' = sent \cup out /\ net \ {m} \subseteq net' /\ UNCHANGED docs
      /\ p \in Purchases
  BY NetTyped DEF Acknowledge, serviceVars, FlowInv
<1>2. GrantAwaited(p) /\ DebitAwaited(p) /\ TakeBackAwaited(p)
  BY <1>1 DEF LoneInv, Awaited
<1>3. \A type \in {"InventoryItemsGranted", "GilDebited", "DebitGilFaulted"} :
          /\ Said(type, p)' <=> Said(type, p)
          /\ Heard(type, p) /\ m.type # type => Heard(type, p)'
  BY <1>1 DEF Said, Heard, Event
<1>4. \A type \in Commanded : Queued(type, p) => Queued(type, p)'
  BY <1>1 DEF Queued, Commanded, SagaEvents
<1>5. TakenBack(p)' <=> TakenBack(p)
  BY <1>1 DEF TakenBack
<1>6. GrantAwaited(p)' /\ TakeBackAwaited(p)'
  BY <1>2, <1>3, <1>4, <1>5 DEF GrantAwaited, TakeBackAwaited, Commanded
<1>7. DebitAwaited(p)'
  BY <1>2, <1>3, <1>4 DEF DebitAwaited, Commanded
<1> QED
  BY <1>6, <1>7, LoneHandled

\* What handlers do to the state of an instance.
LEMMA SagaBecomes ==
    ASSUME FlowInv, NEW p \in Purchases, NEW s
    PROVE  /\ saga[p].state \in States
           /\ SetState(p, s) =>
                  saga'[p].state = s /\ \A q \in Purchases : q # p => saga'[q] = saga[q]
           /\ SetFaulted(p, s) =>
                  saga'[p].state = "Faulted" /\ \A q \in Purchases : q # p => saga'[q] = saga[q]
           /\ saga' = [saga EXCEPT ![p].error = s] =>
                  /\ saga'[p].state = saga[p].state
                  /\ \A q \in Purchases : q # p => saga'[q] = saga[q]
<1>1. saga \in [Purchases -> P!Instances \cup {P!NoInstance}]
  BY DEF FlowInv, P!SInv, P!TInv, P!TypeOK
<1>2. saga[p].state \in States /\ "state" \in DOMAIN saga[p]
  BY <1>1 DEF P!Instances, P!NoInstance, P!States, States
<1> QED
  BY <1>1, <1>2 DEF SetState, SetFaulted

\* An event is the only one of its type and purchase.
LEMMA EventIs ==
    ASSUME FlowInv, NEW m \in net, m.type \in SagaEvents \ {"PurchaseRequested"}
    PROVE  m = Event(m.type, m.p) /\ Said(m.type, m.p)
<1>1. m \in PurchaseMessages /\ m \in sent
  BY NetTyped DEF FlowInv
<1>2. m \in Replies \cup Faults
  BY <1>1 DEF PurchaseMessages, Requests, ItemCommands, GilCommands, SagaEvents
<1>3. m = Event(m.type, m.p)
  BY <1>2 DEF Replies, Faults, Event
<1> QED
  BY <1>1, <1>3 DEF Said

\* A debit is refused or taken, never both.
LEMMA RefusedOrPaid ==
    ASSUME FlowInv, LoneInv, Sheltered, NEW p \in Purchases, Said("DebitGilFaulted", p)
    PROVE  /\ \E d \in sent : d.type = "DebitGil" /\ d.p = p
           /\ ~Paid(p) /\ ~Said("GilDebited", p)
<1>1. PICK d \in sent : d.type = "DebitGil" /\ d.p = p /\ ~Affordable(d)
  BY DEF LoneInv, AnswersTrue, RefusalTrue
<1>2. ~Paid(p)
  <2> SUFFICES ASSUME Paid(p) PROVE FALSE
    OBVIOUS
  <2>1. PICK e \in sent : e.type = "DebitGil" /\ e.p = p /\ Affordable(e)
    BY GrantedIs
  <2>2. e = d
    BY <1>1, <2>1, OneCommand DEF Commanded
  <2> QED
    BY <1>1, <2>1, <2>2
<1> QED
  BY <1>1, <1>2 DEF LoneInv, AnswersTrue, DebitTrue

LEMMA LoneAccept ==
    ASSUME FlowInv, LoneInv, Sheltered, NEW m \in net, AcceptPurchase(m), UNCHANGED serviceVars
    PROVE  LoneInv'
<1> DEFINE p == m.p
           s == [state |-> "Accepted", item |-> m.item, qty |-> m.qty,
                 total |-> PurchaseTotal(m.item, m.qty), error |-> "none"]
           c == ItemCommand("GrantItems", p, s)
<1>1. /\ m.type = "PurchaseRequested" /\ saga[p].state = "Initial"
      /\ saga' = [saga EXCEPT ![p] = s] /\ Flush(m, {c})
  BY DEF AcceptPurchase, NoSaga
<1>2. c.type = "GrantItems" /\ c.p = p
  BY DEF ItemCommand
<1> HIDE DEF c
<1>3. Acknowledge(m, {c}) /\ m.type \in SagaEvents /\ p \in Purchases
  BY <1>1, LoneFinish, NetTyped DEF SagaEvents, FlowInv
<1>4. saga'[p].state = "Accepted" /\ \A q \in Purchases : q # p => saga'[q] = saga[q]
  BY <1>1, <1>3 DEF FlowInv, P!SInv, P!TInv, P!TypeOK
<1>5. ~Said("InventoryItemsGranted", p)
  <2>1. \A g \in sent : ~(g.type = "GrantItems" /\ g.p = p)
    BY <1>1, SentCommand DEF P!SentIn, Commanded
  <2> QED
    BY <1>3, <2>1, GrantedIs DEF LoneInv, AnswersTrue, GrantTrue
<1>6. ~Said("InventoryItemsGranted", p)' /\ Queued("GrantItems", p)'
  BY <1>2, <1>3, <1>5 DEF Said, Queued, Acknowledge, Routed, Subscribed, Event
<1>7. (GrantAwaited(p) /\ DebitAwaited(p) /\ TakeBackAwaited(p))'
  BY <1>4, <1>6 DEF GrantAwaited, DebitAwaited, TakeBackAwaited
<1>8. \A a \in {c} : a.type \in CommandTypes \cup {"PurchaseRequestedFaulted"}
  BY <1>2 DEF CommandTypes
<1> QED
  BY <1>3, <1>4, <1>7, <1>8, LoneHandled

LEMMA LoneDebitForItems ==
    ASSUME FlowInv, LoneInv, Sheltered, NEW m \in net, DebitForItems(m), UNCHANGED serviceVars
    PROVE  LoneInv'
<1> DEFINE p == m.p
           c == GilCommand("DebitGil", p, saga[p])
<1>1. /\ m.type = "InventoryItemsGranted" /\ saga[p].state = "Accepted"
      /\ SetState(p, "ItemsGranted") /\ Flush(m, {c})
  BY DEF DebitForItems, AwaitsGrant
<1>2. c.type = "DebitGil" /\ c.p = p
  BY DEF GilCommand
<1> HIDE DEF c
<1>3. Acknowledge(m, {c}) /\ m.type \in SagaEvents /\ p \in Purchases
  BY <1>1, LoneFinish, NetTyped DEF SagaEvents, FlowInv
<1>4. saga'[p].state = "ItemsGranted" /\ \A q \in Purchases : q # p => saga'[q] = saga[q]
  BY <1>1, <1>3, SagaBecomes
<1>5. ~Said("GilDebited", p) /\ ~Said("DebitGilFaulted", p)
  <2>1. \A d \in sent : ~(d.type = "DebitGil" /\ d.p = p)
    BY <1>1, SentCommand DEF P!SentIn, Commanded
  <2>2. ~Paid(p)
    BY <2>1, GrantedIs
  <2> QED
    BY <1>3, <2>1, <2>2 DEF LoneInv, AnswersTrue, DebitTrue, RefusalTrue
<1>6. ~Said("GilDebited", p)' /\ ~Said("DebitGilFaulted", p)' /\ Queued("DebitGil", p)'
  BY <1>2, <1>3, <1>5 DEF Said, Queued, Acknowledge, Routed, Subscribed, Event
<1>7. (GrantAwaited(p) /\ DebitAwaited(p) /\ TakeBackAwaited(p))'
  BY <1>4, <1>6 DEF GrantAwaited, DebitAwaited, TakeBackAwaited
<1>8. \A a \in {c} : a.type \in CommandTypes \cup {"PurchaseRequestedFaulted"}
  BY <1>2 DEF CommandTypes
<1> QED
  BY <1>3, <1>4, <1>7, <1>8, LoneHandled

LEMMA LoneComplete ==
    ASSUME FlowInv, LoneInv, Sheltered, NEW m \in net, CompletePurchase(m), UNCHANGED serviceVars
    PROVE  LoneInv'
<1> DEFINE p == m.p
           c == GilCommand("PurchaseCompleted", p, saga[p])
<1>1. m.type = "GilDebited" /\ SetState(p, "Completed") /\ Flush(m, {c})
  BY DEF CompletePurchase
<1>2. c.type = "PurchaseCompleted"
  BY DEF GilCommand
<1> HIDE DEF c
<1>3. Acknowledge(m, {c}) /\ m.type \in SagaEvents /\ p \in Purchases
  BY <1>1, LoneFinish, NetTyped DEF SagaEvents, FlowInv
<1>4. saga'[p].state = "Completed" /\ \A q \in Purchases : q # p => saga'[q] = saga[q]
  BY <1>1, <1>3, SagaBecomes
<1>5. (GrantAwaited(p) /\ DebitAwaited(p) /\ TakeBackAwaited(p))'
  BY <1>4 DEF GrantAwaited, DebitAwaited, TakeBackAwaited
<1>6. \A a \in {c} : a.type \in CommandTypes \cup {"PurchaseRequestedFaulted"}
  BY <1>2 DEF CommandTypes
<1> QED
  BY <1>3, <1>4, <1>5, <1>6, LoneHandled

LEMMA LoneCompensate ==
    ASSUME FlowInv, LoneInv, Sheltered, NEW m \in net, CompensatePurchase(m), UNCHANGED serviceVars
    PROVE  LoneInv'
<1> DEFINE p == m.p
           c == ItemCommand("SubtractItems", p, saga[p])
<1>1. m.type = "DebitGilFaulted" /\ SetFaulted(p, m.type) /\ Flush(m, {c})
  BY DEF CompensatePurchase
<1>2. c.type = "SubtractItems" /\ c.p = p
  BY DEF ItemCommand
<1> HIDE DEF c
<1>3. Acknowledge(m, {c}) /\ m.type \in SagaEvents \ {"PurchaseRequested"} /\ p \in Purchases
  BY <1>1, LoneFinish, NetTyped DEF SagaEvents, FlowInv
<1>4. saga'[p].state = "Faulted" /\ \A q \in Purchases : q # p => saga'[q] = saga[q]
  BY <1>1, <1>3, SagaBecomes
<1>5. Said("DebitGilFaulted", p)
  BY <1>1, <1>3, EventIs
<1>6. Said("DebitGilFaulted", p)' /\ Queued("SubtractItems", p)'
  BY <1>2, <1>3, <1>5 DEF Said, Queued, Acknowledge, Routed, Subscribed
<1>7. (GrantAwaited(p) /\ DebitAwaited(p) /\ TakeBackAwaited(p))'
  BY <1>4, <1>6 DEF GrantAwaited, DebitAwaited, TakeBackAwaited
<1>8. \A a \in {c} : a.type \in CommandTypes \cup {"PurchaseRequestedFaulted"}
  BY <1>2 DEF CommandTypes
<1> QED
  BY <1>3, <1>4, <1>7, <1>8, LoneHandled

\* No debit is refused before it was asked for, or after it was taken.
LEMMA LoneLateDebitFault ==
    ASSUME FlowInv, LoneInv, Sheltered, NEW m \in net, LateDebitFault(m), UNCHANGED serviceVars
    PROVE  LoneInv'
<1> DEFINE p == m.p
<1>1. /\ m.type = "DebitGilFaulted" /\ saga[p].state \in {"Accepted", "Completed", "Faulted"}
      /\ SetFaulted(p, m.type) /\ Finish(m, {})
  BY DEF LateDebitFault
<1>2. Acknowledge(m, {}) /\ m.type \in SagaEvents \ {"PurchaseRequested"} /\ p \in Purchases
  BY <1>1, LoneFinish, NetTyped DEF SagaEvents, FlowInv
<1>3. Said("DebitGilFaulted", p)
  BY <1>1, <1>2, EventIs
<1>4. saga[p].state # "Accepted"
  <2>1. PICK d \in sent : d.type = "DebitGil" /\ d.p = p
    BY <1>2, <1>3, RefusedOrPaid
  <2> QED
    BY <2>1, SentCommand DEF P!SentIn, Commanded
<1>5. saga[p].state # "Completed"
  <2>1. ~Said("GilDebited", p)
    BY <1>2, <1>3, RefusedOrPaid
  <2> QED
    BY <1>2, <2>1 DEF FlowInv, P!SInv, P!Safety, P!OutcomeJustified, Said, Event, P!Event, PurchaseSent
<1>6. /\ saga'[p].state = "Faulted" /\ saga[p].state = "Faulted"
      /\ \A q \in Purchases : q # p => saga'[q] = saga[q]
  BY <1>1, <1>2, <1>4, <1>5, SagaBecomes
<1> QED
  BY <1>2, <1>6, LoneIgnored

LEMMA LoneEvent ==
    ASSUME FlowInv, LoneInv, Sheltered, NEW m \in net, HandleEvent(m), UNCHANGED serviceVars
    PROVE  LoneInv'
<1>1. m.type \in SagaEvents /\ m.p \in Purchases /\ saga[m.p].state \in States
  BY EventHandles, NetTyped, SagaBecomes DEF FlowInv
<1>2. CASE RejectPurchase(m)
  <2>1. /\ m.type = "PurchaseRequested" /\ saga' = saga
        /\ Finish(m, {Event("PurchaseRequestedFaulted", m.p)})
    BY <1>2 DEF RejectPurchase, FaultOf
  <2> QED
    BY <1>1, <2>1, LoneFinish, LoneIgnored DEF Event
<1>3. CASE FaultOnGrant(m)
  <2>1. Said("GrantItemsFaulted", m.p)
    BY <1>1, <1>3, EventIs DEF FaultOnGrant
  <2> QED
    BY <1>1, <2>1 DEF LoneInv, AnswersTrue
<1>4. CASE RecordFault(m)
  <2>1. /\ m.type \in {"PurchaseRequestedFaulted", "InventoryItemsGrantedFaulted"}
        /\ saga' = [saga EXCEPT ![m.p].error = m.type] /\ Finish(m, {})
    BY <1>4 DEF RecordFault
  <2>2. saga'[m.p].state = saga[m.p].state /\ \A q \in Purchases : q # m.p => saga'[q] = saga[q]
    BY <1>1, <2>1, SagaBecomes
  <2> QED
    BY <1>1, <2>1, <2>2, LoneFinish, LoneIgnored
<1>5. CASE IgnoreEvent(m) \/ UnhandledEvent(m)
  <2>1. saga' = saga /\ Finish(m, {})
    BY <1>5 DEF IgnoreEvent, UnhandledEvent
  <2>2. /\ saga[m.p].state = "Accepted" => m.type # "InventoryItemsGranted"
        /\ saga[m.p].state = "ItemsGranted" => m.type \notin {"GilDebited", "DebitGilFaulted"}
    BY <1>5 DEF IgnoreEvent, UnhandledEvent, Ignores, Binds
  <2> QED
    BY <1>1, <2>1, <2>2, LoneFinish, LoneIgnored
<1> QED
  BY <1>2, <1>3, <1>4, <1>5, LoneAccept, LoneDebitForItems, LoneComplete, LoneCompensate,
     LoneLateDebitFault DEF HandleEvent

LEMMA LoneStart == FlowInit /\ Sheltered => LoneInv
<1> SUFFICES ASSUME FlowInit, Sheltered PROVE LoneInv
  OBVIOUS
<1> USE DEF FlowInit, TradingInit, InventoryInit, DebitInit
<1>1. known = Items
  BY DEF Sheltered
<1>2. Budgeted /\ FitTasks
  BY HostAssumption DEF Budgeted, FitTasks
<1>3. SingleDocs
  <2>1. \A k \in Keys : docs[k] = <<>>
    OBVIOUS
  <2>2. Len(<<>>) <= 1
    BY EmptySeq
  <2> QED
    BY <2>1, <2>2 DEF SingleDocs
<1>4. DebitsAffordable
  BY DEF DebitsAffordable, User
<1>5. AnswersTrue
  BY DEF AnswersTrue, GrantTrue, DebitTrue, RefusalTrue, Said
<1>6. Awaited
  BY DEF Awaited, GrantAwaited, DebitAwaited, TakeBackAwaited, NoInstance
<1> QED
  BY <1>1, <1>2, <1>3, <1>4, <1>5, <1>6 DEF LoneInv

LEMMA LoneStep ==
    ASSUME FlowInv, LoneInv, Sheltered, [FlowNext]_flowVars
    PROVE  LoneInv'
<1>1. CASE TradingNext /\ UNCHANGED serviceVars
  <2>1. UNCHANGED <<tasks, failures, docs, known, users>>
    BY <1>1 DEF serviceVars
  <2>2. ASSUME NEW m \in net, HandleEvent(m) PROVE LoneInv'
    BY <1>1, <2>2, LoneEvent
  <2>3. ~TradingRestart
    BY DEF TradingRestart, Sheltered, FlowInv, P!SInv, P!TInv, P!TypeOK
  <2>4. ASSUME net \subseteq net', UNCHANGED <<sent, saga>> PROVE LoneInv'
    <3>1. Budgeted' /\ FitTasks' /\ known' = Items
      BY <2>1, <2>4, FitsStays DEF LoneInv, Budgeted, FitTasks
    <3> QED
      BY <2>1, <2>4, <3>1, LoneIdle
  <2> QED
    BY <1>1, <2>2, <2>3, <2>4
       DEF TradingNext, SubmitPurchase, CatalogItemCreated, CatalogItemUpdated, tradingVars
<1>2. CASE InventoryNext /\ UNCHANGED <<tradingVars, users>>
  <2>1. UNCHANGED <<saga, users>>
    BY <1>2 DEF tradingVars
  <2>2. ASSUME NEW m \in net, InventoryBegin(m) PROVE LoneInv'
    BY <2>1, <2>2, LoneBegin DEF InventoryBegin
  <2>3. ASSUME NEW t \in tasks, InventoryTask(t) PROVE LoneInv'
    BY <2>1, <2>3, LoneInventoryTask
  <2>4. ASSUME NEW i \in Items, LearnItem(i) PROVE LoneInv'
    <3>1. known' = Items /\ UNCHANGED <<net, sent, tasks, failures, docs>>
      BY <2>4 DEF LearnItem, LoneInv
    <3>2. Budgeted' /\ FitTasks'
      BY <2>1, <3>1, FitsStays DEF LoneInv, Budgeted, FitTasks
    <3> QED
      BY <2>1, <3>1, <3>2, LoneIdle
  <2>5. ASSUME InventoryStop PROVE LoneInv'
    BY <2>1, <2>5, LoneStop DEF InventoryStop
  <2> QED
    BY <1>2, <2>2, <2>3, <2>4, <2>5 DEF InventoryNext
<1>3. CASE DebitNext /\ UNCHANGED <<tradingVars, inventoryVars>>
  <2>1. UNCHANGED <<saga, known, docs>>
    BY <1>3 DEF tradingVars, inventoryVars
  <2>2. ASSUME NEW m \in net, DebitBegin(m) PROVE LoneInv'
    BY <2>1, <2>2, LoneBegin DEF DebitBegin
  <2>3. ASSUME NEW t \in tasks, DebitTask(t) PROVE LoneInv'
    BY <2>1, <2>3, LoneDebitTask
  <2>4. ASSUME IdentityStop PROVE LoneInv'
    BY <2>1, <2>4, LoneStop DEF IdentityStop
  <2> QED
    BY <1>3, <2>2, <2>3, <2>4 DEF DebitNext
<1>4. CASE UNCHANGED flowVars
  <2>1. UNCHANGED <<net, sent, saga, tasks, failures, docs, known, users>>
    BY <1>4 DEF flowVars, sagaVars, serviceVars
  <2>2. Budgeted' /\ FitTasks' /\ known' = Items
    BY <2>1, FitsStays DEF LoneInv, Budgeted, FitTasks
  <2> QED
    BY <2>1, <2>2, LoneIdle
<1> QED
  BY <1>1, <1>2, <1>3, <1>4 DEF FlowNext

LEMMA LoneInvariant ==
    ASSUME Sheltered
    PROVE  FlowSafety => [](FlowInv /\ LoneInv)
<1>1. FlowInit => LoneInv
  BY LoneStart
<1>2. FlowInv /\ LoneInv /\ [FlowNext]_flowVars => LoneInv'
  BY LoneStep
<1> QED
  BY <1>1, <1>2, FlowInvariant, PTL DEF FlowSafety

LEMMA CompletedIs ==
    ASSUME FlowInv, LoneInv, NEW p \in Purchases, saga[p].state = "Completed"
    PROVE  Granted(p) /\ Paid(p)
<1>1. Said("InventoryItemsGranted", p) /\ Said("GilDebited", p)
  BY DEF FlowInv, P!SInv, P!Safety, P!OutcomeJustified, Said, Event, P!Event, PurchaseSent
<1> QED
  BY <1>1 DEF LoneInv, AnswersTrue, GrantTrue, DebitTrue

\* A completed purchase has its items stored and its gil taken, at every moment
\* and not only once nothing is in flight.
THEOREM CompletedPurchasesAreSettled ==
    ASSUME Sheltered
    PROVE  FlowSafety => []CompletedIsSettled
<1>1. FlowInv /\ LoneInv => CompletedIsSettled
  BY CompletedIs DEF CompletedIsSettled
<1> QED
  BY <1>1, LoneInvariant, PTL

\* "Ensures consistency across services": once nothing about a purchase is in
\* flight its saga is terminal, and the user holds the items exactly if paid.
\* The hypothesis is what the violated runs show the code to need.
THEOREM QuietIsConsistent ==
    ASSUME Sheltered
    PROVE  FlowSafety => []QuietConsistent
<1>1. ASSUME FlowInv, LoneInv, NEW p \in Purchases, Quiet(p)
      PROVE  /\ saga[p].state \in Terminal \cup {"Initial"}
             /\ saga[p].state = "Completed" => Held(p) /\ Paid(p)
             /\ saga[p].state # "Completed" => ~Held(p) /\ ~Paid(p)
  <2>1. \A type : ~Heard(type, p) /\ ~Queued(type, p)
    BY <1>1 DEF Quiet, Heard, Queued, Event
  <2>2. GrantAwaited(p) /\ DebitAwaited(p) /\ TakeBackAwaited(p)
    BY <1>1 DEF LoneInv, Awaited
  <2>3. saga[p].state \in {"Initial", "Completed", "Faulted"}
    BY <1>1, <2>1, <2>2, SagaBecomes DEF GrantAwaited, DebitAwaited, States
  <2>4. CASE saga[p].state = "Initial"
    <3>1. \A c \in sent : c.type \in Commanded => c.p # p
      BY <1>1, <2>4, SentCommand DEF P!SentIn
    <3> QED
      BY <1>1, <2>4, <3>1, GrantedIs DEF Held, Commanded
  <2>5. CASE saga[p].state = "Completed"
    <3>1. Granted(p) /\ Paid(p)
      BY <1>1, <2>5, CompletedIs
    <3>2. \A c \in sent : c.type = "SubtractItems" => c.p # p
      BY <1>1, <2>5, SentCommand DEF P!SentIn, Commanded
    <3> QED
      BY <1>1, <2>5, <3>1, <3>2, GrantedIs DEF Held, Terminal
  <2>6. CASE saga[p].state = "Faulted"
    <3>1. Said("DebitGilFaulted", p) /\ TakenBack(p)
      BY <2>1, <2>2, <2>6 DEF TakeBackAwaited
    <3> QED
      BY <1>1, <2>6, <3>1, RefusedOrPaid DEF Held, Terminal
  <2> QED
    BY <2>3, <2>4, <2>5, <2>6 DEF Terminal
<1>2. FlowInv /\ LoneInv => QuietConsistent
  BY <1>1 DEF QuietConsistent
<1> QED
  BY <1>2, LoneInvariant, PTL

\* A grant recorded in a document stays recorded: under the same hypothesis no
\* handler's update overwrites another's.
THEOREM ShelteredGrantsAreKept ==
    ASSUME Sheltered
    PROVE  FlowSafety => GrantsKept
<1>1. ASSUME FlowInv, LoneInv, [FlowNext]_flowVars
      PROVE  \/ docs' = docs
             \/ \A k \in Keys : \A i \in DOMAIN docs[k] :
                    docs[k][i].seen \subseteq docs'[k][i].seen
  <2>1. CASE InventoryNext /\ UNCHANGED <<tradingVars, users>>
    <3>1. ASSUME NEW t \in tasks, StoreDoc(t) \/ StoreFails(t), docs' # docs PROVE Grown
      <4>1. t.stage = "write" /\ t.msg.type \in InventoryTypes /\ docs' = Stored(t)
        BY <3>1 DEF StoreDoc, StoreFails
      <4>2. sent \subseteq sent'
        BY <3>1 DEF StoreDoc, StoreFails, Throw, Publish
      <4> QED
        BY <1>1, <2>1, <4>1, <4>2, StoredGrows
    <3>2. ASSUME NEW t \in tasks, InventoryTask(t) PROVE StoreDoc(t) \/ StoreFails(t) \/ docs' = docs
      BY <3>2 DEF InventoryTask, ItemUnknown, GrantRead, SubtractRead, GrantPublish,
                  SubtractPublish, ReadFails, PublishFails
    <3> QED
      BY <2>1, <3>1, <3>2 DEF InventoryNext, InventoryBegin, LearnItem, InventoryStop, Grown
  <2>2. CASE ~InventoryNext
    BY <1>1, <2>2 DEF FlowNext, flowVars, serviceVars, inventoryVars
  <2> QED
    BY <1>1, <2>1, <2>2 DEF FlowNext, flowVars, serviceVars, inventoryVars
<1>2. FlowInv /\ LoneInv /\ [FlowNext]_flowVars =>
          [\A k \in Keys : \A i \in DOMAIN docs[k] :
              docs[k][i].seen \subseteq docs'[k][i].seen]_docs
  BY <1>1
<1> QED
  BY <1>2, LoneInvariant, PTL DEF FlowSafety, GrantsKept
================================================================================
