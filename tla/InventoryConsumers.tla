--------------------------- MODULE InventoryConsumers ---------------------------
(***************************************************************************)
(* Play.Inventory's side of a purchase: GrantItemsConsumer and             *)
(* SubtractItemsConsumer on the inventoryitems collection.                 *)
(*                                                                         *)
(* A document is found by user and item, a pair no index makes unique: two *)
(* first grants can each create one.  A query returns the oldest, and an   *)
(* update replaces the whole document without comparing versions.          *)
(***************************************************************************)
EXTENDS ConsumerHost, Sequences, FiniteSetsExt

CONSTANTS
    InventoryRetries,  \* the retry interval filter's count
    InitialKnown       \* sets of items the catalog projection may start with

ASSUME InventoryAssumption ==
    /\ InventoryRetries \in Nat
    /\ InitialKnown \subseteq SUBSET Items

VARIABLES
    docs,   \* inventoryitems: the documents of each (user, item), oldest first
    known   \* Inventory's catalog projection: the items it knows

Keys == Users \X Items
Key(m) == <<UserOf[m.p], m.item>>

\* MessagesIds; a message stands for its MessageId.
Doc(qty, seen) == [qty |-> qty, seen |-> seen]

InventoryItemUpdated(m, d) ==
    [type |-> "InventoryItemUpdated", user |-> UserOf[m.p], item |-> m.item, qty |-> d.qty]

InventoryUpdates ==
    [type : {"InventoryItemUpdated"}, user : Users, item : Items, qty : Int]

InventoryTypes == {"GrantItems", "SubtractItems"}

-----------------------------------------------------------------------------
(* The awaits of Consume.  t is a task of this service; its copy is the    *)
(* document in memory and whether it has to be created.                    *)

Copy(qty, seen, new) == [doc |-> Doc(qty, seen), new |-> new]

\* The catalog knows no such item: UnknownItemException, retried like any.
ItemUnknown(t) ==
    /\ t.stage = "read" /\ t.msg.type \in InventoryTypes
    /\ t.msg.item \notin known
    /\ Throw(t, {}, InventoryRetries)
    /\ UNCHANGED <<docs, known, failures>>

GrantRead(t) ==
    /\ t.stage = "read" /\ t.msg.type = "GrantItems" /\ t.msg.item \in known
    /\ LET found == docs[Key(t.msg)] IN
       \/ found = <<>> /\ Advance(t, "write", Copy(t.msg.qty, {t.msg}, TRUE))
       \/ /\ found # <<>> /\ t.msg \in found[1].seen
          /\ Advance(t, "republish", <<>>)
       \/ /\ found # <<>> /\ t.msg \notin found[1].seen
          /\ Advance(t, "write",
                     Copy(found[1].qty + t.msg.qty, found[1].seen \cup {t.msg}, FALSE))
    /\ UNCHANGED <<net, sent, docs, known, failures>>

\* Mutant: the test of MessagesIds is inverted.
SubtractReadInverted(t) ==
    /\ t.stage = "read" /\ t.msg.type = "SubtractItems" /\ t.msg.item \in known
    /\ Advance(t, "republish", <<>>)
    /\ UNCHANGED <<net, sent, docs, known, failures>>

SubtractRead(t) ==
    /\ t.stage = "read" /\ t.msg.type = "SubtractItems" /\ t.msg.item \in known
    /\ LET found == docs[Key(t.msg)] IN
       \/ found = <<>> /\ Advance(t, "republish", <<>>)
       \/ /\ found # <<>> /\ t.msg \in found[1].seen
          /\ Advance(t, "republish", <<>>)
       \/ /\ found # <<>> /\ t.msg \notin found[1].seen
          /\ Advance(t, "write",
                     Copy(found[1].qty - t.msg.qty, found[1].seen \cup {t.msg}, FALSE))
    /\ UNCHANGED <<net, sent, docs, known, failures>>

\* Mutant: a new document is stored without the MessageId that created it.
StoredUnrecorded(t) ==
    IF t.copy.new
    THEN [docs EXCEPT ![Key(t.msg)] = Append(@, Doc(t.copy.doc.qty, {}))]
    ELSE [docs EXCEPT ![Key(t.msg)][1] = t.copy.doc]

\* CreateAsync or UpdateAsync.
Stored(t) ==
    IF t.copy.new THEN [docs EXCEPT ![Key(t.msg)] = Append(@, t.copy.doc)]
                  ELSE [docs EXCEPT ![Key(t.msg)][1] = t.copy.doc]

StoreDoc(t) ==
    /\ t.stage = "write" /\ t.msg.type \in InventoryTypes
    /\ docs' = Stored(t)
    /\ Advance(t, "publish", t.copy)
    /\ UNCHANGED <<net, sent, known, failures>>

\* What Consume publishes at a stage: GrantItemsConsumer starts both publishes
\* and awaits them together, SubtractItemsConsumer awaits them one by one.
GrantOut(t) ==
    {Event("InventoryItemsGranted", t.msg.p)} \cup
    (IF t.stage = "publish" THEN {InventoryItemUpdated(t.msg, t.copy.doc)} ELSE {})

SubtractOut(t) ==
    IF t.stage = "publish" THEN {InventoryItemUpdated(t.msg, t.copy.doc)}
                           ELSE {Event("InventoryItemsSubtracted", t.msg.p)}

GrantPublish(t) ==
    /\ t.stage \in {"publish", "republish"} /\ t.msg.type = "GrantItems"
    /\ Publish(GrantOut(t))
    /\ Advance(t, "ack", <<>>)
    /\ UNCHANGED <<docs, known, failures>>

SubtractPublish(t) ==
    /\ t.stage \in {"publish", "republish"} /\ t.msg.type = "SubtractItems"
    /\ Publish(SubtractOut(t))
    /\ Advance(t, IF t.stage = "publish" THEN "republish" ELSE "ack", <<>>)
    /\ UNCHANGED <<docs, known, failures>>

\* An await throws.  A store may have happened all the same; of the publishes
\* awaited together, some.
ReadFails(t) ==
    /\ t.stage = "read" /\ t.msg.type \in InventoryTypes
    /\ Failure /\ Throw(t, {}, InventoryRetries)
    /\ UNCHANGED <<docs, known>>

StoreFails(t) ==
    /\ t.stage = "write" /\ t.msg.type \in InventoryTypes
    /\ docs' \in {docs, Stored(t)}
    /\ Failure /\ Throw(t, {}, InventoryRetries)
    /\ UNCHANGED known

PublishFails(t) ==
    /\ t.stage \in {"publish", "republish"} /\ t.msg.type \in InventoryTypes
    /\ \E out \in SUBSET (IF t.msg.type = "GrantItems" THEN GrantOut(t) ELSE SubtractOut(t)) :
          Throw(t, out, InventoryRetries)
    /\ Failure
    /\ UNCHANGED <<docs, known>>

InventoryTask(t) ==
    \/ ItemUnknown(t) \/ GrantRead(t) \/ SubtractRead(t) \/ StoreDoc(t)
    \/ GrantPublish(t) \/ SubtractPublish(t)
    \/ ReadFails(t) \/ StoreFails(t) \/ PublishFails(t)
    \/ t.msg.type \in InventoryTypes /\ Settle(t) /\ UNCHANGED <<docs, known>>

-----------------------------------------------------------------------------
InventoryBegin(m) ==
    /\ m.type \in InventoryTypes
    /\ Begin(m)
    /\ UNCHANGED <<docs, known>>

\* Inventory's CatalogItemCreatedConsumer and CatalogItemUpdatedConsumer both
\* make an item known; neither forgets one.
LearnItem(item) ==
    /\ known' = known \cup {item}
    /\ UNCHANGED <<net, sent, tasks, failures, docs>>

InventoryStop == Stop(InventoryTypes) /\ UNCHANGED <<docs, known>>

InventoryInit ==
    /\ docs = [k \in Keys |-> <<>>]
    /\ known \in InitialKnown

InventoryNext ==
    \/ \E m \in net : InventoryBegin(m)
    \/ \E t \in tasks : InventoryTask(t)
    \/ \E i \in Items : LearnItem(i)
    \/ InventoryStop

-----------------------------------------------------------------------------
(* Properties.                                                             *)

\* A document's quantity is the sum of the commands recorded in its
\* MessagesIds: whatever is retried, redelivered or interleaved, no recorded
\* command is applied twice and none is applied without being recorded.
DocsAddUp ==
    \A k \in Keys : \A i \in DOMAIN docs[k] :
        docs[k][i].qty = MapThenSumSet(Effect, docs[k][i].seen)

\* A command recorded in a document stays recorded: no handler's update
\* overwrites another's.
GrantsKept ==
    [][\A k \in Keys : \A i \in DOMAIN docs[k] :
          docs[k][i].seen \subseteq docs'[k][i].seen]_docs
================================================================================
