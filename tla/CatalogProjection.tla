---------------------------- MODULE CatalogProjection ----------------------------
(***************************************************************************)
(* Play.Catalog's items API and a copy of its items, as Play.Trading and   *)
(* Play.Inventory each keep one (their consumers are the same, except that *)
(* Inventory's leave the price out).                                       *)
(*                                                                         *)
(* A request stores, then publishes; there is no transaction around the    *)
(* two.  The copy is kept by three consumers with a queue each, so an      *)
(* update can overtake the creation and a deletion both.                   *)
(***************************************************************************)
EXTENDS ProjectionHost

CONSTANTS
    Items,      \* item ids
    Details,    \* what an item is: name, description, price
    Nothing,    \* no document
    Requests    \* bound: the requests administrators make

ASSUME CatalogAssumption == Nothing \notin Details

VARIABLES
    catalog,  \* Catalog's items collection
    calls,    \* requests so far, by the await they are at
    copy      \* the catalogitems collection of the other service

catalogVars == <<hostVars, catalog, calls, copy>>

\* The requests about i that are over, with their events acknowledged.
Over(i) ==
    {c.req : c \in {k \in calls : /\ k.item = i /\ k.stage \in {"done", "failed"}
                                /\ \A m \in queue : m.req # k.req}}

\* A request remembers which ones were over when it began, for CopyMatchesCatalog.
Call(r, op, i, d, stage) ==
    [req |-> r, op |-> op, item |-> i, details |-> d, stage |-> stage, after |-> Over(i)]

Calls ==
    [req : Requests, op : {"created", "updated", "deleted"}, item : Items,
     details : Details \cup {Nothing},
     stage : {"readback", "write", "publish", "done", "failed"}, after : SUBSET Requests]

\* CatalogItemCreated, CatalogItemUpdated, CatalogItemDeleted.
CatalogEvent(c) == [type |-> c.op, req |-> c.req, item |-> c.item, details |-> c.details]

CatalogEvents ==
    [type : {"created", "updated", "deleted"}, req : Requests, item : Items,
     details : Details \cup {Nothing}]

-----------------------------------------------------------------------------
(* The API.  A request whose item is not there ends with NotFound and      *)
(* changes nothing.                                                        *)

NewRequest(r) == \A c \in calls : c.req # r

MoveCall(c, stage, d) ==
    calls' = (calls \ {c}) \cup {[c EXCEPT !.stage = stage, !.details = d]}

\* PostAsync up to CreateAsync: the id is a new Guid.
CreateItem(r, i, d) ==
    /\ NewRequest(r) /\ \A c \in calls : c.item # i
    /\ catalog' = [catalog EXCEPT ![i] = d]
    /\ calls' = calls \cup {Call(r, "created", i, d, "readback")}
    /\ UNCHANGED <<hostVars, copy>>

\* PostAsync reads the item back and publishes what it finds.
ReadBack(c) ==
    /\ c.stage = "readback"
    /\ \/ catalog[c.item] = Nothing /\ MoveCall(c, "done", c.details)
       \/ catalog[c.item] # Nothing /\ MoveCall(c, "publish", catalog[c.item])
    /\ UNCHANGED <<hostVars, catalog, copy>>

\* PutAsync and DeleteAsync look the item up ...
FindItem(r, op, i, d) ==
    /\ NewRequest(r) /\ catalog[i] # Nothing
    /\ calls' = calls \cup {Call(r, op, i, d, "write")}
    /\ UNCHANGED <<hostVars, catalog, copy>>

\* ... and replace it (which does nothing if it is gone by now) or remove it.
Written(c) ==
    IF catalog[c.item] = Nothing THEN catalog ELSE [catalog EXCEPT ![c.item] = c.details]

WriteItem(c) ==
    /\ c.stage = "write"
    /\ catalog' = Written(c)
    /\ MoveCall(c, "publish", c.details)
    /\ UNCHANGED <<hostVars, copy>>

PublishEvent(c) ==
    /\ c.stage = "publish"
    /\ Publish(CatalogEvent(c))
    /\ MoveCall(c, "done", c.details)
    /\ UNCHANGED <<errors, tasks, failures, catalog, copy>>

\* An await of the request throws, or Catalog stops; the write or the publish
\* it was at may have happened.
CallFails(c) ==
    /\ c.stage \in {"readback", "write", "publish"}
    /\ \/ UNCHANGED <<catalog, published, queue>>
       \/ c.stage = "write" /\ catalog' = Written(c) /\ UNCHANGED <<published, queue>>
       \/ c.stage = "publish" /\ Publish(CatalogEvent(c)) /\ UNCHANGED catalog
    /\ Failure
    /\ MoveCall(c, "failed", c.details)
    /\ UNCHANGED <<errors, tasks, copy>>

-----------------------------------------------------------------------------
(* The consumers.  They read, then write, each on its own copy of the      *)
(* document.                                                               *)

\* Mutant: a creation replaces what an update stored before it.
AfterReadReplacing(type, found) ==
    CASE type = "deleted" -> IF found THEN "ack" ELSE "remove"
      [] OTHER -> IF found THEN "replace" ELSE "create"

\* Mutant: an update of an item the copy does not have is ignored.
AfterReadIgnoring(type, found) ==
    CASE type = "created" -> IF found THEN "ack" ELSE "create"
      [] type = "updated" -> IF found THEN "replace" ELSE "ack"
      [] type = "deleted" -> IF found THEN "ack" ELSE "remove"

\* CatalogItemDeletedConsumer returns when it finds the item.
AfterRead(type, found) ==
    CASE type = "created" -> IF found THEN "ack" ELSE "create"
      [] type = "updated" -> IF found THEN "replace" ELSE "create"
      [] type = "deleted" -> IF found THEN "ack" ELSE "remove"

ReadCopy(t) ==
    /\ t.stage = "read"
    /\ Advance(t, AfterRead(t.msg.type, copy[t.msg.item] # Nothing))
    /\ UNCHANGED <<published, queue, errors, failures, catalog, calls, copy>>

\* CreateAsync throws if the _id exists, UpdateAsync replaces if it does.
DuplicateKey(t) == t.stage = "create" /\ copy[t.msg.item] # Nothing

CopyWith(t) ==
    IF t.stage = "replace" /\ copy[t.msg.item] = Nothing
    THEN copy ELSE [copy EXCEPT ![t.msg.item] = t.msg.details]

Writing == {"create", "replace", "remove"}

WriteCopy(t) ==
    /\ t.stage \in Writing /\ ~DuplicateKey(t)
    /\ copy' = CopyWith(t)
    /\ Advance(t, "ack")
    /\ UNCHANGED <<published, queue, errors, failures, catalog, calls>>

WriteRefused(t) ==
    /\ DuplicateKey(t)
    /\ Throw(t)
    /\ UNCHANGED <<published, queue, failures, catalog, calls, copy>>

\* An await of Consume throws; a write may have happened.
TaskFails(t) ==
    /\ t.stage \in Writing \cup {"read"}
    /\ \/ UNCHANGED copy
       \/ t.stage \in Writing /\ ~DuplicateKey(t) /\ copy' = CopyWith(t)
    /\ Failure /\ Throw(t)
    /\ UNCHANGED <<published, queue, catalog, calls>>

-----------------------------------------------------------------------------
CatalogInit ==
    /\ HostInit
    /\ catalog = [i \in Items |-> Nothing]
    /\ calls = {}
    /\ copy = [i \in Items |-> Nothing]

Handle(m) == Begin(m) /\ UNCHANGED <<catalog, calls, copy>>

Proceed(t) ==
    \/ ReadCopy(t) \/ WriteCopy(t) \/ WriteRefused(t) \/ TaskFails(t)
    \/ Settle(t) /\ UNCHANGED <<catalog, calls, copy>>

CatalogNext ==
    \/ \E r \in Requests, i \in Items, d \in Details :
          CreateItem(r, i, d) \/ FindItem(r, "updated", i, d)
    \/ \E r \in Requests, i \in Items : FindItem(r, "deleted", i, Nothing)
    \/ \E c \in calls : ReadBack(c) \/ WriteItem(c) \/ PublishEvent(c) \/ CallFails(c)
    \/ \E m \in queue : Handle(m)
    \/ \E t \in tasks : Proceed(t)
    \/ Stop /\ UNCHANGED <<catalog, calls, copy>>

CatalogSafety == CatalogInit /\ [][CatalogNext]_catalogVars

\* The broker delivers and an await ends; a request may be abandoned anywhere.
CatalogFairness ==
    \A i \in Items : \A type \in {"created", "updated", "deleted"} :
        /\ WF_catalogVars(\E m \in queue : m.item = i /\ m.type = type /\ Handle(m))
        /\ WF_catalogVars(\E t \in tasks : t.msg.item = i /\ t.msg.type = type /\ Proceed(t))

CatalogSpec == CatalogSafety /\ CatalogFairness

-----------------------------------------------------------------------------
(* Properties.                                                             *)

\* The variables hold what the API and the consumers can put in them.
CatalogTypeOK ==
    /\ published \subseteq CatalogEvents
    /\ queue \subseteq published /\ errors \subseteq published
    /\ catalog \in [Items -> Details \cup {Nothing}]
    /\ calls \subseteq Calls
    /\ copy \in [Items -> Details \cup {Nothing}]
    /\ tasks \subseteq [msg : queue, stage : Writing \cup {"read", "ack"}, tries : 0 .. Retries]

About(i, type) == {m \in published : m.item = i /\ m.type = type}

\* Consumed without error: acknowledged and not in the error queue.
Consumed(m) == m \in published \ (queue \cup errors)

\* Once an update of an item was consumed, the copy holds an update: whatever
\* is delayed, repeated or interleaved, CatalogItemCreated never brings the
\* first details back.
UpdatesStick ==
    \A i \in Items :
        (About(i, "deleted") = {} /\ \E m \in About(i, "updated") : Consumed(m))
            => \E m \in About(i, "updated") : copy[i] = m.details

\* Every request about an item was answered and every event about it consumed
\* without error.
AtRest(i) ==
    /\ \A c \in calls : c.item = i => c.stage = "done"
    /\ \A m \in published : m.item = i => Consumed(m)

\* Created, and updated at most once.
UpdatedOnce(i) ==
    \A c, e \in calls : c.item = i /\ e.item = i /\ "created" \notin {c.op, e.op}
                            => c = e /\ c.op = "updated"

\* An update was answered and consumed, and began when all others were over.
UpdatedAlone(i) ==
    \E c \in calls :
        /\ c.item = i /\ c.op = "updated" /\ c.stage = "done" /\ Consumed(CatalogEvent(c))
        /\ \A e \in calls \ {c} : e.item = i => e.req \in c.after

\* The copy is the catalog's item, in whatever order the events came, while the
\* item was updated at most once and not deleted.  After that, events may be
\* consumed in another order than the updates were stored in; but one update that
\* overlaps nothing makes the copy right again, whatever failed before it.
CopyMatchesCatalog ==
    \A i \in Items : (AtRest(i) /\ UpdatedOnce(i)) \/ UpdatedAlone(i) => copy[i] = catalog[i]

\* A published creation reaches the copy, unless it was given up on or the
\* item is deleted.
CreatedArrives ==
    \A i \in Items :
        About(i, "created") # {} ~>
            \/ copy[i] # Nothing
            \/ About(i, "deleted") # {} \/ \E m \in errors : m.item = i
================================================================================
