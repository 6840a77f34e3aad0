------------------------- MODULE CatalogProjectionProofs -------------------------
(***************************************************************************)
(* Proofs about CatalogProjection, for any items, details, requests,       *)
(* retries and failures: its type invariant, that updates stick, and that  *)
(* a copy of the catalog is right.                                         *)
(***************************************************************************)
EXTENDS CatalogProjection, TLAPS

Tasks == [msg : CatalogEvents, stage : Writing \cup {"read", "ack"}, tries : 0 .. Retries]

\* No message is handled by two tasks at a time.
OneTask == \A t, u \in tasks : t.msg = u.msg => t = u

\* Only a deletion carries no details.
Detailed(e) == e.details = Nothing => e.type = "deleted"
CallsDetailed == \A c \in calls : Detailed(CatalogEvent(c))
EventsDetailed == \A m \in published : Detailed(m)

\* What a task is about to do is what its message asks for.
StagesFit ==
    \A t \in tasks :
        /\ t.stage = "remove" => t.msg.type = "deleted"
        /\ t.stage = "replace" => t.msg.type = "updated"
        /\ t.stage = "create" => t.msg.type \in {"created", "updated"}

\* Nothing is published about removing i.
Kept(i) == About(i, "deleted") = {}

HoldsUpdate(i) == \E m \in About(i, "updated") : copy[i] = m.details

\* A document found by an update is still there when it is replaced.
FoundStays ==
    \A t \in tasks : Kept(t.msg.item) /\ t.stage = "replace" => copy[t.msg.item] # Nothing

\* m was acknowledged, or is about to be, without having failed.
Applied(m) ==
    m \notin errors /\ (m \notin queue \/ \E t \in tasks : t.msg = m /\ t.stage = "ack")

AppliedStick ==
    \A m \in published : m.type = "updated" /\ Kept(m.item) /\ Applied(m) => HoldsUpdate(m.item)

CInv ==
    /\ CatalogTypeOK /\ OneTask
    /\ CallsDetailed /\ EventsDetailed /\ StagesFit
    /\ FoundStays /\ AppliedStick

-----------------------------------------------------------------------------
(* The API only adds events; tasks, copy and error queue stay.             *)

ApiShape ==
    /\ UNCHANGED <<tasks, copy, errors>>
    /\ catalog' \in [Items -> Details \cup {Nothing}]
    /\ calls' \subseteq Calls /\ CallsDetailed'
    /\ \E new \in SUBSET CatalogEvents :
          /\ \A e \in new : Detailed(e)
          /\ published' = published \cup new
          /\ queue' = queue \cup new

LEMMA NothingNew ==
    ASSUME UNCHANGED <<published, queue>>
    PROVE  \E new \in SUBSET CatalogEvents :
              /\ \A e \in new : Detailed(e)
              /\ published' = published \cup new
              /\ queue' = queue \cup new
<1>1. {} \in SUBSET CatalogEvents /\ \A e \in {} : Detailed(e)
  OBVIOUS
<1> QED
  BY <1>1

LEMMA EventIsNew ==
    ASSUME CInv, NEW c \in calls, Publish(CatalogEvent(c))
    PROVE  \E new \in SUBSET CatalogEvents :
              /\ \A e \in new : Detailed(e)
              /\ published' = published \cup new
              /\ queue' = queue \cup new
<1>1. {CatalogEvent(c)} \in SUBSET CatalogEvents
  BY DEF CInv, CatalogTypeOK, Calls, CatalogEvent, CatalogEvents
<1>2. \A e \in {CatalogEvent(c)} : Detailed(e)
  BY DEF CInv, CallsDetailed
<1> QED
  BY <1>1, <1>2 DEF Publish

\* A request moves on with its own details, or with those it read.
LEMMA MoveCallKeeps ==
    ASSUME CInv, NEW c \in calls, NEW d \in Details \cup {Nothing},
           NEW stage \in {"readback", "write", "publish", "done", "failed"},
           d = c.details \/ d # Nothing, MoveCall(c, stage, d)
    PROVE  calls' \subseteq Calls /\ CallsDetailed'
<1> DEFINE e == [c EXCEPT !.stage = stage, !.details = d]
<1>1. c \in Calls
  BY DEF CInv, CatalogTypeOK
<1>2. e \in Calls
  BY <1>1 DEF Calls
<1>3. e.op = c.op /\ e.details = d
  BY <1>1 DEF Calls
<1>4. Detailed(CatalogEvent(e))
  BY <1>3 DEF CInv, CallsDetailed, Detailed, CatalogEvent
<1>5. calls' = (calls \ {c}) \cup {e}
  BY DEF MoveCall
<1> QED
  BY <1>2, <1>4, <1>5 DEF CInv, CatalogTypeOK, CallsDetailed, Detailed, CatalogEvent

LEMMA NewCallKeeps ==
    ASSUME CInv, NEW e \in Calls, Detailed(CatalogEvent(e)), calls' = calls \cup {e}
    PROVE  calls' \subseteq Calls /\ CallsDetailed'
BY DEF CInv, CatalogTypeOK, CallsDetailed, Detailed, CatalogEvent

LEMMA WrittenType ==
    ASSUME CInv, NEW c \in calls
    PROVE  Written(c) \in [Items -> Details \cup {Nothing}]
<1>1. c \in Calls
  BY DEF CInv, CatalogTypeOK
<1> QED
  BY <1>1 DEF Written, Calls, CInv, CatalogTypeOK

LEMMA CallType ==
    ASSUME CInv, NEW r \in Requests, NEW op \in {"created", "updated", "deleted"},
           NEW i \in Items, NEW d \in Details \cup {Nothing},
           NEW stage \in {"readback", "write"}
    PROVE  /\ Call(r, op, i, d, stage) \in Calls
           /\ CatalogEvent(Call(r, op, i, d, stage))
                = [type |-> op, req |-> r, item |-> i, details |-> d]
<1>1. Over(i) \in SUBSET Requests
  BY DEF Over, CInv, CatalogTypeOK, Calls
<1> QED
  BY <1>1 DEF Call, Calls, CatalogEvent

LEMMA CreateShape ==
    ASSUME CInv, NEW r \in Requests, NEW i \in Items, NEW d \in Details,
           CreateItem(r, i, d)
    PROVE  ApiShape
<1> DEFINE e == Call(r, "created", i, d, "readback")
<1>1. e \in Calls /\ Detailed(CatalogEvent(e))
  BY CallType, CatalogAssumption DEF Detailed
<1>2. calls' \subseteq Calls /\ CallsDetailed'
  BY <1>1, NewCallKeeps DEF CreateItem
<1>3. catalog' \in [Items -> Details \cup {Nothing}]
  BY DEF CreateItem, CInv, CatalogTypeOK
<1> QED
  BY <1>2, <1>3, NothingNew DEF CreateItem, ApiShape, hostVars

LEMMA FindShape ==
    ASSUME CInv, NEW r \in Requests, NEW i \in Items,
           NEW op \in {"updated", "deleted"}, NEW d \in Details \cup {Nothing},
           d = Nothing => op = "deleted", FindItem(r, op, i, d)
    PROVE  ApiShape
<1> DEFINE e == Call(r, op, i, d, "write")
<1>1. e \in Calls /\ Detailed(CatalogEvent(e))
  BY CallType DEF Detailed
<1>2. calls' \subseteq Calls /\ CallsDetailed'
  BY <1>1, NewCallKeeps DEF FindItem
<1> QED
  BY <1>2, NothingNew DEF FindItem, ApiShape, hostVars, CInv, CatalogTypeOK

LEMMA CallShape ==
    ASSUME CInv, NEW c \in calls,
           ReadBack(c) \/ WriteItem(c) \/ PublishEvent(c) \/ CallFails(c)
    PROVE  ApiShape
<1>1. c \in Calls
  BY DEF CInv, CatalogTypeOK
<1>2. c.details \in Details \cup {Nothing} /\ c.item \in Items
  BY <1>1 DEF Calls
<1>3. CASE ReadBack(c)
  <2>1. catalog[c.item] \in Details \cup {Nothing}
    BY <1>2 DEF CInv, CatalogTypeOK
  <2>2. calls' \subseteq Calls /\ CallsDetailed'
    BY <1>2, <1>3, <2>1, MoveCallKeeps DEF ReadBack
  <2> QED
    BY <1>3, <2>2, NothingNew DEF ReadBack, ApiShape, hostVars, CInv, CatalogTypeOK
<1>4. CASE WriteItem(c)
  <2>1. calls' \subseteq Calls /\ CallsDetailed'
    BY <1>2, <1>4, MoveCallKeeps DEF WriteItem
  <2> QED
    BY <1>4, <2>1, NothingNew, WrittenType DEF WriteItem, ApiShape, hostVars
<1>5. CASE PublishEvent(c)
  <2>1. calls' \subseteq Calls /\ CallsDetailed'
    BY <1>2, <1>5, MoveCallKeeps DEF PublishEvent
  <2> QED
    BY <1>5, <2>1, EventIsNew DEF PublishEvent, ApiShape, CInv, CatalogTypeOK
<1>6. CASE CallFails(c)
  <2>1. calls' \subseteq Calls /\ CallsDetailed'
    BY <1>2, <1>6, MoveCallKeeps DEF CallFails
  <2>2. catalog' \in [Items -> Details \cup {Nothing}]
    BY <1>6, WrittenType DEF CallFails, CInv, CatalogTypeOK
  <2>3. UNCHANGED <<published, queue>> \/ Publish(CatalogEvent(c))
    BY <1>6 DEF CallFails
  <2> QED
    BY <1>6, <2>1, <2>2, <2>3, NothingNew, EventIsNew DEF CallFails, ApiShape
<1> QED
  BY <1>3, <1>4, <1>5, <1>6

LEMMA ApiKeeps ==
    ASSUME CInv, ApiShape
    PROVE  CInv'
<1>1. PICK new \in SUBSET CatalogEvents :
         /\ \A e \in new : Detailed(e)
         /\ published' = published \cup new
         /\ queue' = queue \cup new
  BY DEF ApiShape
<1>2. CatalogTypeOK' /\ OneTask' /\ EventsDetailed' /\ StagesFit'
  BY <1>1 DEF CInv, ApiShape, CatalogTypeOK, OneTask, EventsDetailed, Detailed, StagesFit, Writing
<1>3. \A i : Kept(i)' => Kept(i)
  BY <1>1 DEF Kept, About
<1>4. FoundStays'
  BY <1>3 DEF CInv, ApiShape, FoundStays
<1>5. AppliedStick'
  <2> SUFFICES ASSUME NEW m \in published', m.type = "updated", Kept(m.item)', Applied(m)'
               PROVE  HoldsUpdate(m.item)'
    BY DEF AppliedStick
  <2>1. m \in published /\ Applied(m)
    BY <1>1 DEF Applied, ApiShape, CInv, CatalogTypeOK
  <2>2. HoldsUpdate(m.item)
    BY <1>3, <2>1 DEF CInv, AppliedStick
  <2> QED
    BY <1>1, <2>2 DEF HoldsUpdate, About, ApiShape
<1> QED
  BY <1>2, <1>4, <1>5 DEF CInv, ApiShape

-----------------------------------------------------------------------------
(* The consumers.  A step of a task replaces it by one for the same        *)
(* message, and may write what that message asks for.                      *)

Writes(t) == t.stage \in Writing /\ ~DuplicateKey(t) /\ copy' = CopyWith(t)

TaskShape(t, u) ==
    /\ UNCHANGED <<published, queue, catalog, calls>>
    /\ tasks' = (tasks \ {t}) \cup {u}
    /\ u \in Tasks /\ u.msg = t.msg
    /\ errors' \in {errors, errors \cup {t.msg}}
    /\ copy' = copy \/ Writes(t)
    /\ \/ u.stage = "read"
       \/ /\ t.stage = "read" /\ copy' = copy
          /\ u.stage = AfterRead(t.msg.type, copy[t.msg.item] # Nothing)
       \/ u.stage = "ack" /\ (Writes(t) \/ t.msg \in errors')

LEMMA TaskType ==
    ASSUME CInv, NEW t \in tasks
    PROVE  t \in Tasks /\ t.msg \in queue /\ t.msg \in published /\ t.msg \in CatalogEvents
BY DEF CInv, CatalogTypeOK, Tasks

LEMMA ThrowShape ==
    ASSUME CInv, NEW t \in tasks, Throw(t), copy' = copy \/ Writes(t),
           UNCHANGED <<published, queue, catalog, calls>>
    PROVE  \E u : TaskShape(t, u)
<1>1. t \in Tasks
  BY TaskType
<1>2. CASE t.tries < Retries
  <2>1. tasks' = (tasks \ {t}) \cup {Task(t.msg, t.tries + 1)} /\ errors' = errors
    BY <1>1, <1>2, HostAssumption DEF Throw, Tasks
  <2>2. Task(t.msg, t.tries + 1) \in Tasks
    BY <1>1, <1>2, HostAssumption DEF Task, Tasks
  <2>3. TaskShape(t, Task(t.msg, t.tries + 1))
    BY <2>1, <2>2 DEF TaskShape, Task
  <2> QED
    BY <2>3
<1>3. CASE ~(t.tries < Retries)
  <2> DEFINE u == [t EXCEPT !.stage = "ack"]
  <2>1. tasks' = (tasks \ {t}) \cup {u} /\ errors' = errors \cup {t.msg}
    BY <1>3 DEF Throw, Advance
  <2>2. u \in Tasks /\ u.msg = t.msg /\ u.stage = "ack"
    BY <1>1 DEF Tasks
  <2>3. TaskShape(t, u)
    BY <2>1, <2>2 DEF TaskShape
  <2> QED
    BY <2>3
<1> QED
  BY <1>2, <1>3

LEMMA ProceedShape ==
    ASSUME CInv, NEW t \in tasks,
           ReadCopy(t) \/ WriteCopy(t) \/ WriteRefused(t) \/ TaskFails(t)
    PROVE  \E u : TaskShape(t, u)
<1>1. t \in Tasks
  BY TaskType
<1>2. CASE ReadCopy(t)
  <2> DEFINE stage == AfterRead(t.msg.type, copy[t.msg.item] # Nothing)
             u == [t EXCEPT !.stage = stage]
  <2>1. t.msg.type \in {"created", "updated", "deleted"}
    BY <1>1 DEF Tasks, CatalogEvents
  <2>2. stage \in Writing \cup {"ack"}
    BY <2>1 DEF AfterRead, Writing
  <2>3. u \in Tasks /\ u.msg = t.msg /\ u.stage = stage
    BY <1>1, <2>2 DEF Tasks
  <2>4. TaskShape(t, u)
    BY <1>2, <2>3 DEF ReadCopy, Advance, TaskShape
  <2> QED
    BY <2>4
<1>3. CASE WriteCopy(t)
  <2> DEFINE u == [t EXCEPT !.stage = "ack"]
  <2>1. u \in Tasks /\ u.msg = t.msg /\ u.stage = "ack"
    BY <1>1 DEF Tasks
  <2>2. TaskShape(t, u)
    BY <1>3, <2>1 DEF WriteCopy, Writes, Advance, TaskShape
  <2> QED
    BY <2>2
<1>4. CASE WriteRefused(t)
  BY <1>4, ThrowShape DEF WriteRefused
<1>5. CASE TaskFails(t)
  BY <1>5, ThrowShape DEF TaskFails, Writes
<1> QED
  BY <1>2, <1>3, <1>4, <1>5

\* Where nothing is deleted, what a task writes is its message's details, and
\* CatalogItemCreated writes only where nothing is stored.
LEMMA WriteStores ==
    ASSUME CInv, NEW t \in tasks, Writes(t), Kept(t.msg.item)
    PROVE  /\ copy'[t.msg.item] = t.msg.details /\ t.msg.details # Nothing
           /\ t.msg.type = "updated" \/ copy[t.msg.item] = Nothing
           /\ t.msg.type \in {"created", "updated"}
<1>1. t \in Tasks /\ t.msg \in published /\ t.msg \in CatalogEvents
  BY TaskType
<1>2. t.msg.type # "deleted" /\ t.msg.item \in Items
  BY <1>1 DEF Kept, About, CatalogEvents
<1>3. t.msg.details # Nothing
  BY <1>1, <1>2 DEF CInv, EventsDetailed, Detailed
<1>4. \/ t.stage = "replace" /\ t.msg.type = "updated"
      \/ t.stage = "create" /\ t.msg.type \in {"created", "updated"}
  BY <1>2 DEF Writes, Writing, CInv, StagesFit
<1>5. t.stage = "replace" => copy[t.msg.item] # Nothing
  BY DEF CInv, FoundStays
<1>6. t.stage = "create" => copy[t.msg.item] = Nothing
  BY DEF Writes, DuplicateKey
<1>7. copy'[t.msg.item] = t.msg.details
  BY <1>2, <1>5 DEF Writes, CopyWith, CInv, CatalogTypeOK
<1> QED
  BY <1>3, <1>4, <1>6, <1>7

\* A task writes its own item only.
LEMMA WritesOwnItem ==
    ASSUME CInv, NEW t \in tasks, NEW u, TaskShape(t, u)
    PROVE  /\ copy' \in [Items -> Details \cup {Nothing}]
           /\ \A i \in Items : i # t.msg.item => copy'[i] = copy[i]
<1>1. t.msg \in CatalogEvents
  BY TaskType
<1>2. t.msg.item \in Items /\ t.msg.details \in Details \cup {Nothing}
  BY <1>1 DEF CatalogEvents
<1> QED
  BY <1>2 DEF TaskShape, Writes, CopyWith, CInv, CatalogTypeOK

LEMMA TaskKeeps ==
    ASSUME CInv, NEW t \in tasks, NEW u, TaskShape(t, u)
    PROVE  CInv'
<1>1. /\ t \in Tasks /\ t.msg \in queue /\ t.msg \in published /\ t.msg \in CatalogEvents
      /\ u \in Tasks /\ u.msg = t.msg
  BY TaskType DEF TaskShape
<1>2. t.msg.type \in {"created", "updated", "deleted"} /\ t.msg.item \in Items
  BY <1>1 DEF CatalogEvents
<1>3. \A i : (Kept(i)' <=> Kept(i)) /\ About(i, "updated")' = About(i, "updated")
  BY DEF TaskShape, Kept, About
<1>4. CatalogTypeOK'
  <2>1. u \in [msg : queue, stage : Writing \cup {"read", "ack"}, tries : 0 .. Retries]
    BY <1>1 DEF Tasks
  <2>2. tasks' \subseteq [msg : queue', stage : Writing \cup {"read", "ack"}, tries : 0 .. Retries]
    BY <2>1 DEF TaskShape, CInv, CatalogTypeOK
  <2> QED
    BY <1>1, <2>2, WritesOwnItem DEF TaskShape, CInv, CatalogTypeOK
<1>5. OneTask'
  BY <1>1 DEF TaskShape, CInv, OneTask
<1>6. CallsDetailed' /\ EventsDetailed'
  BY DEF TaskShape, CInv, CallsDetailed, EventsDetailed, Detailed, CatalogEvent
<1>7. StagesFit'
  <2>1. /\ u.stage = "remove" => u.msg.type = "deleted"
        /\ u.stage = "replace" => u.msg.type = "updated"
        /\ u.stage = "create" => u.msg.type \in {"created", "updated"}
    BY <1>1, <1>2 DEF TaskShape, AfterRead
  <2> QED
    BY <2>1 DEF TaskShape, CInv, StagesFit
<1>8. \A i \in Items : Kept(i) /\ copy[i] # Nothing => copy'[i] # Nothing
  BY <1>2, WritesOwnItem, WriteStores DEF TaskShape
<1>9. FoundStays'
  <2> SUFFICES ASSUME NEW v \in tasks', Kept(v.msg.item)', v.stage = "replace"
               PROVE  copy'[v.msg.item] # Nothing
    BY DEF FoundStays
  <2>1. CASE v = u
    <3>1. t.stage = "read" /\ copy' = copy /\ copy[t.msg.item] # Nothing
      BY <1>2, <2>1 DEF TaskShape, AfterRead
    <3> QED
      BY <1>1, <2>1, <3>1
  <2>2. CASE v \in tasks
    <3>1. v.msg.item \in Items
      BY <2>2, TaskType DEF CatalogEvents
    <3> QED
      BY <1>3, <1>8, <2>2, <3>1 DEF CInv, FoundStays
  <2> QED
    BY <2>1, <2>2 DEF TaskShape
<1>10. \A i \in Items : Kept(i) /\ HoldsUpdate(i) => HoldsUpdate(i)'
  <2> SUFFICES ASSUME NEW i \in Items, Kept(i), HoldsUpdate(i)
               PROVE  HoldsUpdate(i)'
    OBVIOUS
  <2>1. copy[i] # Nothing
    BY DEF HoldsUpdate, About, CInv, EventsDetailed, Detailed
  <2>2. copy'[i] = copy[i] \/ (t.msg.type = "updated" /\ t.msg.item = i /\ copy'[i] = t.msg.details)
    BY <2>1, WritesOwnItem, WriteStores DEF TaskShape
  <2>3. CASE copy'[i] = copy[i]
    BY <1>3, <2>3 DEF HoldsUpdate
  <2>4. CASE t.msg.type = "updated" /\ t.msg.item = i /\ copy'[i] = t.msg.details
    BY <1>1, <1>3, <2>4 DEF HoldsUpdate, About
  <2> QED
    BY <2>2, <2>3, <2>4
<1>11. AppliedStick'
  <2> SUFFICES ASSUME NEW m \in published', m.type = "updated", Kept(m.item)', Applied(m)'
               PROVE  HoldsUpdate(m.item)'
    BY DEF AppliedStick
  <2>1. m \in published /\ Kept(m.item) /\ m.item \in Items
    BY <1>3 DEF TaskShape, CInv, CatalogTypeOK, CatalogEvents
  <2>2. CASE Applied(m)
    BY <1>10, <2>1, <2>2 DEF CInv, AppliedStick
  <2>3. CASE ~Applied(m)
    <3>1. m = u.msg /\ u.stage = "ack"
      BY <2>3 DEF Applied, TaskShape
    <3>2. m = t.msg /\ t.msg \notin errors'
      BY <1>1, <3>1 DEF Applied
    <3>3. Writes(t)
      BY <3>1, <3>2 DEF TaskShape, AfterRead
    <3>4. copy'[m.item] = m.details
      BY <2>1, <3>2, <3>3, WriteStores
    <3> QED
      BY <1>3, <2>1, <3>4 DEF HoldsUpdate, About
  <2> QED
    BY <2>2, <2>3
<1> QED
  BY <1>4, <1>5, <1>6, <1>7, <1>9, <1>11 DEF CInv

LEMMA SettleKeeps ==
    ASSUME CInv, NEW t \in tasks, Settle(t), UNCHANGED <<catalog, calls, copy>>
    PROVE  CInv'
<1>1. t.msg \in queue /\ t.msg \in published
  BY TaskType
<1>2. \A i : (Kept(i)' <=> Kept(i)) /\ (HoldsUpdate(i)' <=> HoldsUpdate(i))
  BY DEF Settle, Kept, About, HoldsUpdate
<1>3. CatalogTypeOK'
  <2>1. \A v \in tasks' : v.msg \in queue'
    BY TaskType DEF Settle, CInv, OneTask
  <2>2. \A v \in tasks' : v \in [msg : queue', stage : Writing \cup {"read", "ack"}, tries : 0 .. Retries]
    BY <2>1, TaskType DEF Settle, Tasks
  <2> QED
    BY <2>2 DEF Settle, CInv, CatalogTypeOK
<1>4. OneTask' /\ CallsDetailed' /\ EventsDetailed' /\ StagesFit'
  BY DEF Settle, CInv, OneTask, CallsDetailed, EventsDetailed, StagesFit, Detailed, CatalogEvent
<1>5. FoundStays'
  BY <1>2 DEF Settle, CInv, FoundStays
<1>6. \A m : Applied(m)' => Applied(m)
  BY DEF Settle, Applied
<1>7. AppliedStick'
  BY <1>2, <1>6 DEF Settle, CInv, AppliedStick
<1> QED
  BY <1>3, <1>4, <1>5, <1>7 DEF CInv

LEMMA BeginKeeps ==
    ASSUME CInv, NEW m \in queue, Handle(m)
    PROVE  CInv'
<1> DEFINE u == Task(m, 0)
<1>1. tasks' = tasks \cup {u} /\ \A t \in tasks : t.msg # m
  BY DEF Handle, Begin
<1>2. UNCHANGED <<published, queue, errors, catalog, calls, copy>>
  BY DEF Handle, Begin
<1>3. u.msg = m /\ u.stage = "read"
  BY DEF Task
<1>4. u \in [msg : queue, stage : Writing \cup {"read", "ack"}, tries : 0 .. Retries]
  BY HostAssumption DEF Task
<1>5. CatalogTypeOK'
  BY <1>1, <1>2, <1>4 DEF CInv, CatalogTypeOK
<1>6. OneTask' /\ CallsDetailed' /\ EventsDetailed' /\ StagesFit'
  BY <1>1, <1>2, <1>3
  DEF CInv, OneTask, CallsDetailed, EventsDetailed, StagesFit, Detailed, CatalogEvent
<1>7. \A i : (Kept(i)' <=> Kept(i)) /\ (HoldsUpdate(i)' <=> HoldsUpdate(i))
  BY <1>2 DEF Kept, About, HoldsUpdate
<1>8. FoundStays'
  BY <1>1, <1>2, <1>3, <1>7 DEF CInv, FoundStays
<1>9. \A e : Applied(e)' => Applied(e)
  BY <1>1, <1>2, <1>3 DEF Applied
<1>10. AppliedStick'
  BY <1>2, <1>7, <1>9 DEF CInv, AppliedStick
<1> QED
  BY <1>5, <1>6, <1>8, <1>10 DEF CInv

LEMMA StopKeeps ==
    ASSUME CInv, tasks' = {}, UNCHANGED <<published, queue, errors, catalog, calls, copy>>
    PROVE  CInv'
<1>1. CatalogTypeOK' /\ OneTask' /\ CallsDetailed' /\ EventsDetailed' /\ StagesFit' /\ FoundStays'
  BY DEF CInv, CatalogTypeOK, OneTask, CallsDetailed, EventsDetailed, StagesFit, FoundStays,
         Detailed, CatalogEvent
<1>2. AppliedStick'
  BY DEF CInv, AppliedStick, Applied, Kept, About, HoldsUpdate
<1> QED
  BY <1>1, <1>2 DEF CInv

LEMMA StutterKeeps ==
    ASSUME CInv, UNCHANGED catalogVars
    PROVE  CInv'
BY DEF CInv, catalogVars, hostVars, CatalogTypeOK, OneTask, CallsDetailed, EventsDetailed,
       StagesFit, FoundStays, AppliedStick, Applied, Kept, About, HoldsUpdate, Detailed, CatalogEvent

-----------------------------------------------------------------------------
LEMMA CatalogInvariant == CatalogSpec => []CInv
<1>1. CatalogInit => CInv
  BY DEF CatalogInit, HostInit, CInv, CatalogTypeOK, OneTask, CallsDetailed, EventsDetailed,
         StagesFit, FoundStays, AppliedStick
<1>2. CInv /\ [CatalogNext]_catalogVars => CInv'
  <2> SUFFICES ASSUME CInv, [CatalogNext]_catalogVars
               PROVE  CInv'
    OBVIOUS
  <2>1. ASSUME NEW r \in Requests, NEW i \in Items, NEW d \in Details,
               CreateItem(r, i, d) \/ FindItem(r, "updated", i, d)
        PROVE  CInv'
    BY <2>1, CreateShape, FindShape, ApiKeeps, CatalogAssumption
  <2>2. ASSUME NEW r \in Requests, NEW i \in Items, FindItem(r, "deleted", i, Nothing)
        PROVE  CInv'
    BY <2>2, FindShape, ApiKeeps
  <2>3. ASSUME NEW c \in calls, ReadBack(c) \/ WriteItem(c) \/ PublishEvent(c) \/ CallFails(c)
        PROVE  CInv'
    BY <2>3, CallShape, ApiKeeps
  <2>4. ASSUME NEW m \in queue, Handle(m)
        PROVE  CInv'
    BY <2>4, BeginKeeps
  <2>5. ASSUME NEW t \in tasks, Proceed(t)
        PROVE  CInv'
    BY <2>5, ProceedShape, TaskKeeps, SettleKeeps DEF Proceed
  <2>6. CASE Stop /\ UNCHANGED <<catalog, calls, copy>>
    BY <2>6, StopKeeps DEF Stop
  <2>7. CASE UNCHANGED catalogVars
    BY <2>7, StutterKeeps
  <2> QED
    BY <2>1, <2>2, <2>3, <2>4, <2>5, <2>6, <2>7 DEF CatalogNext
<1> QED
  BY <1>1, <1>2, PTL DEF CatalogSpec, CatalogSafety

\* The variables hold what Catalog's API and the copy's consumers put in them.
THEOREM CatalogTypeIsCorrect == CatalogSpec => []CatalogTypeOK
<1>1. CInv => CatalogTypeOK
  BY DEF CInv
<1> QED
  BY <1>1, CatalogInvariant, PTL

\* For any number of items, requests, retries and failures, an item that is not
\* deleted never falls back to its first details once an update was consumed.
THEOREM UpdatesAreKept == CatalogSpec => []UpdatesStick
<1>1. CInv => UpdatesStick
  <2> SUFFICES ASSUME CInv, NEW i \in Items, About(i, "deleted") = {},
                      NEW m \in About(i, "updated"), Consumed(m)
               PROVE  \E e \in About(i, "updated") : copy[i] = e.details
    BY DEF UpdatesStick
  <2>1. m \in published /\ m.item = i /\ m.type = "updated" /\ Kept(i) /\ Applied(m)
    BY DEF About, Consumed, Kept, Applied
  <2>2. HoldsUpdate(i)
    BY <2>1 DEF CInv, AppliedStick
  <2> QED
    BY <2>2 DEF HoldsUpdate
<1> QED
  BY <1>1, CatalogInvariant, PTL

-----------------------------------------------------------------------------
(* A copy of the catalog is right after a creation and one update in       *)
(* whatever order their events come, and after an update that overlaps     *)
(* nothing, whatever came before it.                                       *)

Ended == {"done", "failed"}

\* Requests and events belong together one to one.
History ==
    /\ \A c, e \in calls : c.req = e.req => c = e
    /\ \A c, e \in calls : c.item = e.item /\ c.op = "created" /\ e.op = "created" => c = e
    /\ \A c \in calls : \A r \in c.after : \E e \in calls : e.req = r
    /\ \A c \in calls : /\ c.stage = "readback" => c.op = "created"
                        /\ c.stage = "write" => c.op # "created"
    /\ \A m \in published : \E c \in calls : c.stage \in Ended /\ m = CatalogEvent(c)
    /\ \A c \in calls : c.stage = "done" /\ c.op # "created" => CatalogEvent(c) \in published

\* So far i was created and updated at most once, and nothing failed.
Calm(i) == UpdatedOnce(i) /\ \A c \in calls : c.item = i => c.stage # "failed"

UpdateStored(c) == c.op = "updated" /\ c.stage \in {"publish", "done"}

\* What Catalog then holds, and will publish.
CalmItem(i) ==
    /\ catalog[i] = Nothing <=> \A c \in calls : c.item # i
    /\ \A c \in calls : c.item = i /\ UpdateStored(c) => catalog[i] = c.details
    /\ (\A c \in calls : c.item = i => ~UpdateStored(c)) =>
          \A c \in calls : c.item = i /\ c.op = "created" => catalog[i] = c.details
    /\ \A c \in calls :
          c.item = i /\ c.op = "created" /\ c.stage = "done" => CatalogEvent(c) \in published

CalmCatalog == \A i \in Items : Calm(i) => CalmItem(i)

\* c is an update before which all other requests about its item were over.
Alone(c) ==
    /\ c.op = "updated"
    /\ \A e \in calls : e.item = c.item /\ e.req # c.req => e.req \in c.after

\* Nothing but c is then under way about the item, and Catalog stores what c says.
AloneItem(c) ==
    /\ \A e \in calls : e.item = c.item /\ e.req # c.req => e.stage \in Ended
    /\ catalog[c.item] # Nothing
    /\ UpdateStored(c) => catalog[c.item] = c.details
    /\ \A m \in queue : m.item = c.item => m.req = c.req

AloneCatalog == \A c \in calls : Alone(c) => AloneItem(c)

\* The one delivery about the item does as it should, and leaves what c says.
AloneTasks(c) ==
    /\ \A t \in tasks : t.msg.item = c.item =>
          /\ t.stage = "create" => copy[c.item] = Nothing
          /\ t.stage = "replace" => copy[c.item] # Nothing
    /\ CatalogEvent(c) \in published /\ Applied(CatalogEvent(c)) => copy[c.item] = c.details

AloneCopy == \A c \in calls : Alone(c) => AloneTasks(c)

\* Where nothing is deleted, an applied event leaves a document ...
CopyKept == \A m \in published : Kept(m.item) /\ Applied(m) => copy[m.item] # Nothing

\* ... and a document says what some event said.
CopyTold ==
    \A i \in Items : copy[i] = Nothing \/ \E m \in published : m.item = i /\ copy[i] = m.details

ApiInv == History /\ CalmCatalog /\ AloneCatalog
CopyInv == CInv /\ ApiInv /\ AloneCopy /\ CopyKept /\ CopyTold

-----------------------------------------------------------------------------
(* Requests.                                                               *)

LEMMA CallFields ==
    ASSUME CInv, NEW c \in calls
    PROVE  /\ c \in Calls /\ c.item \in Items /\ c.req \in Requests
           /\ c.op \in {"created", "updated", "deleted"} /\ c.details \in Details \cup {Nothing}
           /\ c.op # "deleted" => c.details # Nothing
BY DEF CInv, CatalogTypeOK, Calls, CallsDetailed, Detailed, CatalogEvent

LEMMA EventFields ==
    ASSUME NEW c
    PROVE  /\ CatalogEvent(c).req = c.req /\ CatalogEvent(c).item = c.item
           /\ CatalogEvent(c).type = c.op /\ CatalogEvent(c).details = c.details
BY DEF CatalogEvent

\* An event is that of the request with its number, which has ended.
LEMMA OwnEvent ==
    ASSUME History, NEW c \in calls, NEW m \in published, m.req = c.req
    PROVE  m = CatalogEvent(c) /\ c.stage \in Ended
<1>1. PICK e \in calls : e.stage \in Ended /\ m = CatalogEvent(e)
  BY DEF History
<1>2. e = c
  BY <1>1, EventFields DEF History
<1> QED
  BY <1>1, <1>2

\* A request moves on: it keeps its number, item, operation and past.
Moved(c, e, stage, d) ==
    /\ calls' = (calls \ {c}) \cup {e} /\ e \in Calls
    /\ e.req = c.req /\ e.item = c.item /\ e.op = c.op /\ e.after = c.after
    /\ e.stage = stage /\ e.details = d
    /\ \A k \in calls \ {c} : k.req # c.req

LEMMA Moving ==
    ASSUME CInv, History, NEW c \in calls, NEW d \in Details \cup {Nothing},
           NEW stage \in {"publish", "done", "failed"}, MoveCall(c, stage, d)
    PROVE  \E e : Moved(c, e, stage, d)
<1> DEFINE e == [c EXCEPT !.stage = stage, !.details = d]
<1>1. c \in Calls
  BY CallFields
<1>2. e \in Calls /\ e.req = c.req /\ e.item = c.item /\ e.op = c.op /\ e.after = c.after
      /\ e.stage = stage /\ e.details = d
  BY <1>1 DEF Calls
<1>3. \A k \in calls \ {c} : k.req # c.req
  BY DEF History
<1>4. Moved(c, e, stage, d)
  BY <1>2, <1>3 DEF Moved, MoveCall
<1> QED
  BY <1>4

LEMMA HistoryMoves ==
    ASSUME CInv, History, NEW c \in calls, NEW d, NEW stage, NEW e, Moved(c, e, stage, d),
           c.stage \notin Ended, stage \in {"publish", "done", "failed"},
           \/ published' = published /\ (stage = "done" => c.op = "created")
           \/ published' = published \cup {CatalogEvent(c)} /\ stage \in Ended /\ d = c.details
    PROVE  History'
<1>1. /\ calls' = (calls \ {c}) \cup {e}
      /\ e.req = c.req /\ e.item = c.item /\ e.op = c.op /\ e.after = c.after
      /\ e.stage = stage /\ e.details = d
  BY DEF Moved
<1>2. \A k, l \in calls' : k.req = l.req => k = l
  BY <1>1 DEF Moved, History
<1>3. \A k, l \in calls' : k.item = l.item /\ k.op = "created" /\ l.op = "created" => k = l
  BY <1>1 DEF History
<1>4. \A k \in calls' : \A r \in k.after : \E l \in calls' : l.req = r
  BY <1>1 DEF History
<1>5. \A k \in calls' : /\ k.stage = "readback" => k.op = "created"
                        /\ k.stage = "write" => k.op # "created"
  BY <1>1 DEF History
<1>6. d = c.details => CatalogEvent(e) = CatalogEvent(c)
  BY <1>1 DEF CatalogEvent
<1>7. \A m \in published' : \E k \in calls' : k.stage \in Ended /\ m = CatalogEvent(k)
  <2> SUFFICES ASSUME NEW m \in published'
               PROVE  \E k \in calls' : k.stage \in Ended /\ m = CatalogEvent(k)
    OBVIOUS
  <2>1. CASE m \in published
    <3>1. PICK k \in calls : k.stage \in Ended /\ m = CatalogEvent(k)
      BY <2>1 DEF History
    <3>2. k \in calls'
      BY <1>1, <3>1
    <3> QED
      BY <3>1, <3>2
  <2>2. CASE m \notin published
    BY <1>1, <1>6, <2>2
  <2> QED
    BY <2>1, <2>2
<1>8. \A k \in calls' : k.stage = "done" /\ k.op # "created" => CatalogEvent(k) \in published'
  <2>1. \A k \in calls : k.stage = "done" /\ k.op # "created" => CatalogEvent(k) \in published'
    BY DEF History
  <2>2. e.stage = "done" /\ e.op # "created" => CatalogEvent(e) \in published'
    BY <1>1, <1>6
  <2> QED
    BY <1>1, <2>1, <2>2
<1> QED
  BY <1>2, <1>3, <1>4, <1>5, <1>7, <1>8 DEF History

LEMMA HistoryNew ==
    ASSUME CInv, History, NEW e \in Calls, calls' = calls \cup {e}, NewRequest(e.req),
           published' = published,
           e.stage = IF e.op = "created" THEN "readback" ELSE "write",
           e.op = "created" => \A c \in calls : c.item # e.item,
           e.after \subseteq {c.req : c \in calls}
    PROVE  History'
<1>1. \A c \in calls : c.req # e.req
  BY DEF NewRequest
<1>2. e.stage \notin Ended
  BY DEF Ended
<1>3. \A k, l \in calls' : k.req = l.req => k = l
  BY <1>1 DEF History
<1>4. \A k, l \in calls' : k.item = l.item /\ k.op = "created" /\ l.op = "created" => k = l
  BY DEF History
<1>5. \A k \in calls' : \A r \in k.after : \E l \in calls' : l.req = r
  BY DEF History
<1>6. \A m \in published' : \E k \in calls' : k.stage \in Ended /\ m = CatalogEvent(k)
  BY DEF History
<1> QED
  BY <1>2, <1>3, <1>4, <1>5, <1>6 DEF History, Ended

-----------------------------------------------------------------------------
(* Catalog.  A step of a request about i leaves all other items alone.     *)

StepAbout(i) ==
    /\ \A k \in calls' : k.item # i => k \in calls
    /\ \A k \in calls : k.item # i => k \in calls'
    /\ \A j \in Items \ {i} : catalog'[j] = catalog[j]
    /\ published \subseteq published'
    /\ \A m \in queue' : m.item # i => m \in queue

LEMMA OthersCalm ==
    ASSUME CInv, ApiInv, NEW i, StepAbout(i), NEW j \in Items, j # i, Calm(j)'
    PROVE  CalmItem(j)'
<1>1. \A k : k.item = j => (k \in calls' <=> k \in calls)
  BY DEF StepAbout
<1>2. UpdatedOnce(j)
  BY <1>1 DEF Calm, UpdatedOnce
<1>3. Calm(j)
  BY <1>1, <1>2 DEF Calm
<1>4. CalmItem(j)
  BY <1>3 DEF ApiInv, CalmCatalog
<1>5. catalog'[j] = catalog[j] /\ published \subseteq published'
  BY DEF StepAbout
<1> QED
  BY <1>1, <1>4, <1>5 DEF CalmItem, UpdateStored

LEMMA OthersAlone ==
    ASSUME CInv, ApiInv, NEW i, StepAbout(i), NEW c \in calls', c.item # i, Alone(c)'
    PROVE  AloneItem(c)'
<1>1. c \in calls /\ \A k : k.item = c.item => (k \in calls' <=> k \in calls)
  BY DEF StepAbout
<1>2. Alone(c)
  BY <1>1 DEF Alone
<1>3. AloneItem(c)
  BY <1>1, <1>2 DEF ApiInv, AloneCatalog
<1>4. catalog'[c.item] = catalog[c.item] /\ \A m \in queue' : m.item = c.item => m \in queue
  BY <1>1, CallFields DEF StepAbout
<1> QED
  BY <1>1, <1>3, <1>4 DEF AloneItem, UpdateStored

\* So a request keeps the invariant if it does for its own item.
LEMMA OwnItem ==
    ASSUME CInv, CInv', ApiInv, History', NEW i, StepAbout(i), Calm(i)' => CalmItem(i)',
           \A c \in calls' : c.item = i /\ Alone(c)' => AloneItem(c)'
    PROVE  ApiInv'
<1>1. CalmCatalog'
  BY OthersCalm DEF CalmCatalog
<1>2. AloneCatalog'
  BY OthersAlone DEF AloneCatalog
<1> QED
  BY <1>1, <1>2 DEF ApiInv

LEMMA OverIsOver ==
    ASSUME CInv, History, NEW i, NEW c \in calls, c.item = i, c.req \in Over(i)
    PROVE  c.stage \in Ended /\ \A m \in queue : m.req # c.req
<1>1. PICK k \in calls : k.item = i /\ k.stage \in Ended /\ k.req = c.req
                         /\ \A m \in queue : m.req # k.req
  BY DEF Over, Ended
<1>2. k = c
  BY <1>1 DEF History
<1> QED
  BY <1>1, <1>2

LEMMA CreateKeeps ==
    ASSUME CInv, CInv', ApiInv, NEW r \in Requests, NEW i \in Items, NEW d \in Details,
           CreateItem(r, i, d)
    PROVE  ApiInv'
<1> DEFINE e == Call(r, "created", i, d, "readback")
<1>1. e \in Calls
  BY CallType
<1>2. e.req = r /\ e.op = "created" /\ e.item = i /\ e.details = d /\ e.stage = "readback"
      /\ e.after = Over(i)
  BY DEF Call
<1>3. calls' = calls \cup {e} /\ NewRequest(r) /\ (\A c \in calls : c.item # i)
      /\ catalog' = [catalog EXCEPT ![i] = d] /\ UNCHANGED <<published, queue>>
  BY DEF CreateItem, hostVars
<1> HIDE DEF e
<1>4. e.after \subseteq {c.req : c \in calls}
  BY <1>2 DEF Over
<1>5. History'
  BY <1>1, <1>2, <1>3, <1>4, HistoryNew DEF ApiInv
<1>6. catalog' \in [Items -> Details \cup {Nothing}] /\ catalog'[i] = d /\ d # Nothing
      /\ \A j \in Items \ {i} : catalog'[j] = catalog[j]
  BY <1>3, CatalogAssumption DEF CInv, CatalogTypeOK
<1>7. StepAbout(i)
  BY <1>2, <1>3, <1>6 DEF StepAbout
<1>8. \A k \in calls' : k.item = i => k = e
  BY <1>3
<1>9. CalmItem(i)'
  BY <1>2, <1>3, <1>6, <1>8 DEF CalmItem, UpdateStored
<1>10. \A c \in calls' : c.item = i => ~Alone(c)'
  BY <1>2, <1>8 DEF Alone
<1> QED
  BY <1>5, <1>7, <1>9, <1>10, OwnItem

LEMMA FindKeeps ==
    ASSUME CInv, CInv', ApiInv, NEW r \in Requests, NEW i \in Items, NEW op \in {"updated", "deleted"},
           NEW d \in Details \cup {Nothing}, FindItem(r, op, i, d)
    PROVE  ApiInv'
<1> DEFINE e == Call(r, op, i, d, "write")
<1>1. e \in Calls
  BY CallType
<1>2. e.req = r /\ e.op = op /\ e.item = i /\ e.details = d /\ e.stage = "write"
      /\ e.after = Over(i)
  BY DEF Call
<1>3. calls' = calls \cup {e} /\ NewRequest(r) /\ catalog[i] # Nothing
      /\ UNCHANGED <<catalog, published, queue>>
  BY DEF FindItem, hostVars
<1> HIDE DEF e
<1>4. e.after \subseteq {c.req : c \in calls}
  BY <1>2 DEF Over
<1>5. History'
  BY <1>1, <1>2, <1>3, <1>4, HistoryNew DEF ApiInv
<1>6. StepAbout(i)
  BY <1>2, <1>3 DEF StepAbout
<1>7. ASSUME Calm(i)' PROVE CalmItem(i)'
  <2>1. \A c \in calls : c.item = i => c.op = "created"
    <3> SUFFICES ASSUME NEW c \in calls, c.item = i, c.op # "created" PROVE FALSE
      OBVIOUS
    <3>1. c = e
      BY <1>2, <1>3, <1>7 DEF Calm, UpdatedOnce
    <3> QED
      BY <1>2, <1>3, <3>1 DEF NewRequest
  <2>2. UpdatedOnce(i)
    BY <2>1 DEF UpdatedOnce
  <2>3. Calm(i)
    BY <1>3, <1>7, <2>2 DEF Calm
  <2>4. CalmItem(i)
    BY <2>3 DEF ApiInv, CalmCatalog
  <2> QED
    BY <1>2, <1>3, <2>1, <2>4 DEF CalmItem, UpdateStored
<1>8. ASSUME NEW c \in calls', c.item = i, Alone(c)' PROVE AloneItem(c)'
  <2>1. c = e
    <3> SUFFICES ASSUME c \in calls, c # e PROVE FALSE
      BY <1>3
    <3>1. e.req # c.req
      BY <1>2, <1>3 DEF NewRequest
    <3>2. e.req \in c.after
      BY <1>2, <1>3, <1>8, <3>1 DEF Alone
    <3> QED
      BY <1>2, <1>3, <3>2 DEF ApiInv, History, NewRequest
  <2>2. \A k \in calls : k.item = i => k.req \in Over(i)
    BY <1>2, <1>3, <1>8, <2>1 DEF Alone, NewRequest
  <2>3. \A k \in calls : k.item = i => k.stage \in Ended /\ \A m \in queue : m.req # k.req
    BY <2>2, OverIsOver DEF ApiInv
  <2>4. \A m \in queue : m.item # i
    <3> SUFFICES ASSUME NEW m \in queue, m.item = i PROVE FALSE
      OBVIOUS
    <3>1. PICK k \in calls : m = CatalogEvent(k)
      BY DEF CInv, CatalogTypeOK, ApiInv, History
    <3> QED
      BY <2>3, <3>1, EventFields
  <2> QED
    BY <1>2, <1>3, <1>8, <2>1, <2>3, <2>4 DEF AloneItem, UpdateStored
<1> QED
  BY <1>5, <1>6, <1>7, <1>8, OwnItem

\* What holds of an item after a request about it moved on held before.
LEMMA CalmBefore ==
    ASSUME CInv, ApiInv, NEW c \in calls, NEW d, NEW stage, NEW e, Moved(c, e, stage, d),
           c.stage \notin Ended, Calm(c.item)'
    PROVE  /\ Calm(c.item) /\ CalmItem(c.item) /\ catalog[c.item] # Nothing
           /\ c.op # "deleted" /\ stage # "failed"
           /\ \A k \in calls : k.item = c.item /\ k.op # "created" /\ c.op # "created" => k = c
<1>1. /\ calls' = (calls \ {c}) \cup {e} /\ e.req = c.req /\ e.item = c.item /\ e.op = c.op
      /\ e.stage = stage
  BY DEF Moved
<1>2. \A k, l \in calls : k.item = c.item /\ l.item = c.item /\ "created" \notin {k.op, l.op}
                            => k = l /\ k.op = "updated"
  <2> SUFFICES ASSUME NEW k \in calls, NEW l \in calls, k.item = c.item, l.item = c.item,
                      "created" \notin {k.op, l.op}
               PROVE  k = l /\ k.op = "updated"
    OBVIOUS
  <2>1. CASE k = c /\ l = c
    BY <1>1, <2>1 DEF Calm, UpdatedOnce
  <2>2. CASE k = c /\ l # c
    <3>1. l \in calls' /\ e \in calls' /\ l = e
      BY <1>1, <2>2 DEF Calm, UpdatedOnce
    <3> QED
      BY <1>1, <2>2, <3>1 DEF Moved
  <2>3. CASE k # c /\ l = c
    <3>1. k \in calls' /\ e \in calls' /\ k = e
      BY <1>1, <2>3 DEF Calm, UpdatedOnce
    <3> QED
      BY <1>1, <2>3, <3>1 DEF Moved
  <2>4. CASE k # c /\ l # c
    BY <1>1, <2>4 DEF Calm, UpdatedOnce
  <2> QED
    BY <2>1, <2>2, <2>3, <2>4
<1>3. \A k \in calls : k.item = c.item => k.stage # "failed"
  BY <1>1 DEF Calm, Ended
<1>4. Calm(c.item) /\ stage # "failed"
  BY <1>1, <1>2, <1>3 DEF Calm, UpdatedOnce
<1>5. CalmItem(c.item)
  BY <1>4, CallFields DEF ApiInv, CalmCatalog
<1>6. catalog[c.item] # Nothing
  BY <1>5 DEF CalmItem
<1>7. c.op # "deleted"
  BY <1>2
<1> QED
  BY <1>2, <1>4, <1>5, <1>6, <1>7

LEMMA AloneBefore ==
    ASSUME CInv, ApiInv, NEW c \in calls, NEW d, NEW stage, NEW e, Moved(c, e, stage, d),
           c.stage \notin Ended, NEW k \in calls', k.item = c.item, Alone(k)'
    PROVE  /\ k = e /\ Alone(c) /\ AloneItem(c)
           /\ \A l \in calls' : l.item = c.item /\ l.req # c.req => l.stage \in Ended
<1>1. /\ calls' = (calls \ {c}) \cup {e} /\ e.req = c.req /\ e.item = c.item /\ e.op = c.op
      /\ e.after = c.after /\ \A l \in calls \ {c} : l.req # c.req
  BY DEF Moved
<1>2. k = e
  <2> SUFFICES ASSUME k # e PROVE FALSE
    OBVIOUS
  <2>1. k \in calls /\ k.req # c.req
    BY <1>1
  <2>2. \A l \in calls : l.item = k.item /\ l.req # k.req => l.req \in k.after
    BY <1>1 DEF Alone
  <2>3. Alone(k)
    BY <2>2 DEF Alone
  <2>4. AloneItem(k)
    BY <2>1, <2>3 DEF ApiInv, AloneCatalog
  <2> QED
    BY <2>1, <2>4 DEF AloneItem
<1>3. Alone(c)
  BY <1>1, <1>2 DEF Alone
<1>4. AloneItem(c)
  BY <1>3 DEF ApiInv, AloneCatalog
<1> QED
  BY <1>1, <1>2, <1>3, <1>4 DEF AloneItem

LEMMA ReadBackKeeps ==
    ASSUME CInv, CInv', ApiInv, NEW c \in calls, ReadBack(c)
    PROVE  ApiInv'
<1> DEFINE i == c.item
<1>1. c.stage = "readback" /\ c.op = "created" /\ c.stage \notin Ended
  BY DEF ReadBack, ApiInv, History, Ended
<1>2. PICK stage \in {"publish", "done"}, d \in Details \cup {Nothing} :
         /\ MoveCall(c, stage, d)
         /\ IF stage = "done" THEN catalog[i] = Nothing ELSE d = catalog[i]
  BY CallFields DEF ReadBack, CInv, CatalogTypeOK
<1>3. PICK e : Moved(c, e, stage, d)
  BY <1>2, Moving DEF ApiInv
<1>4. /\ calls' = (calls \ {c}) \cup {e} /\ e.req = c.req /\ e.item = i /\ e.op = "created"
      /\ e.stage = stage /\ e.details = d
      /\ UNCHANGED <<catalog, published, queue>>
  BY <1>1, <1>3 DEF Moved, ReadBack, hostVars
<1>5. History'
  BY <1>1, <1>3, <1>4, HistoryMoves DEF ApiInv
<1>6. StepAbout(i)
  BY <1>4 DEF StepAbout
<1>7. ASSUME Calm(i)' PROVE CalmItem(i)'
  <2>1. CalmItem(i) /\ catalog[i] # Nothing
    BY <1>1, <1>3, <1>7, CalmBefore
  <2>2. stage = "publish" /\ d = catalog[i]
    BY <1>2, <2>1
  <2>3. \A k \in calls' : k.item = i /\ k # e => k \in calls
    BY <1>4
  <2>4. \A k \in calls : k.item = i /\ UpdateStored(k) => k \in calls'
    BY <1>1, <1>4 DEF UpdateStored
  <2> QED
    BY <1>4, <2>1, <2>2, <2>3, <2>4 DEF CalmItem, UpdateStored
<1>8. ASSUME NEW k \in calls', k.item = i, Alone(k)' PROVE AloneItem(k)'
  <2>1. Alone(c)
    BY <1>1, <1>3, <1>8, AloneBefore
  <2> QED
    BY <1>1, <2>1 DEF Alone
<1> QED
  BY <1>5, <1>6, <1>7, <1>8, OwnItem

LEMMA WriteKeeps ==
    ASSUME CInv, CInv', ApiInv, NEW c \in calls, WriteItem(c)
    PROVE  ApiInv'
<1> DEFINE i == c.item
<1>1. c.stage = "write" /\ c.op # "created" /\ c.stage \notin Ended
  BY DEF WriteItem, ApiInv, History, Ended
<1>2. c.details \in Details \cup {Nothing} /\ i \in Items
  BY CallFields
<1>3. PICK e : Moved(c, e, "publish", c.details)
  BY <1>2, Moving DEF ApiInv, WriteItem
<1>4. /\ calls' = (calls \ {c}) \cup {e} /\ e.req = c.req /\ e.item = i /\ e.op = c.op
      /\ e.stage = "publish" /\ e.details = c.details
      /\ UNCHANGED <<published, queue>>
  BY <1>3 DEF Moved, WriteItem, hostVars
<1>5. /\ \A j \in Items \ {i} : catalog'[j] = catalog[j]
      /\ catalog[i] # Nothing => catalog'[i] = c.details
  BY <1>2 DEF WriteItem, Written, CInv, CatalogTypeOK
<1>6. History'
  BY <1>1, <1>3, <1>4, HistoryMoves DEF ApiInv
<1>7. StepAbout(i)
  BY <1>4, <1>5 DEF StepAbout
<1>8. ASSUME Calm(i)' PROVE CalmItem(i)'
  <2>1. /\ CalmItem(i) /\ catalog[i] # Nothing /\ c.op # "deleted"
        /\ \A k \in calls : k.item = i /\ k.op # "created" => k = c
    BY <1>1, <1>3, <1>8, CalmBefore
  <2>2. c.op = "updated" /\ catalog'[i] = c.details /\ c.details # Nothing
    BY <1>1, <1>5, <2>1, CallFields
  <2>3. \A k \in calls' : k.item = i /\ k.op # "created" => k = e
    BY <1>4, <2>1
  <2>4. \A k \in calls' : k.item = i /\ k.op = "created" => k \in calls
    BY <1>1, <1>4
  <2>5. e \in calls' /\ UpdateStored(e)
    BY <1>4, <2>2 DEF UpdateStored
  <2> QED
    BY <1>4, <2>1, <2>2, <2>3, <2>4, <2>5 DEF CalmItem, UpdateStored
<1>9. ASSUME NEW k \in calls', k.item = i, Alone(k)' PROVE AloneItem(k)'
  <2>1. /\ k = e /\ Alone(c) /\ AloneItem(c)
        /\ \A l \in calls' : l.item = i /\ l.req # c.req => l.stage \in Ended
    BY <1>1, <1>3, <1>9, AloneBefore
  <2>2. catalog'[i] = c.details /\ c.details # Nothing
    BY <1>5, <2>1, CallFields DEF Alone, AloneItem
  <2> QED
    BY <1>4, <2>1, <2>2 DEF AloneItem
<1> QED
  BY <1>6, <1>7, <1>8, <1>9, OwnItem

LEMMA PublishKeeps ==
    ASSUME CInv, CInv', ApiInv, NEW c \in calls, PublishEvent(c)
    PROVE  ApiInv'
<1> DEFINE i == c.item
<1>1. c.stage = "publish" /\ c.stage \notin Ended
  BY DEF PublishEvent, Ended
<1>2. PICK e : Moved(c, e, "done", c.details)
  BY Moving, CallFields DEF ApiInv, PublishEvent
<1>3. /\ calls' = (calls \ {c}) \cup {e} /\ e.req = c.req /\ e.item = i /\ e.op = c.op
      /\ e.stage = "done" /\ e.details = c.details /\ catalog' = catalog
      /\ published' = published \cup {CatalogEvent(c)} /\ queue' = queue \cup {CatalogEvent(c)}
  BY <1>2 DEF Moved, PublishEvent, Publish
<1>4. CatalogEvent(e) = CatalogEvent(c)
  BY <1>3 DEF CatalogEvent
<1>5. History'
  BY <1>1, <1>2, <1>3, HistoryMoves DEF ApiInv, Ended
<1>6. StepAbout(i)
  BY <1>3, EventFields DEF StepAbout
<1>7. ASSUME Calm(i)' PROVE CalmItem(i)'
  <2>1. CalmItem(i) /\ catalog[i] # Nothing
    BY <1>1, <1>2, <1>7, CalmBefore
  <2>2. UpdateStored(e) <=> UpdateStored(c)
    BY <1>1, <1>3 DEF UpdateStored
  <2>3. \A k \in calls' : k.item = i /\ UpdateStored(k) => catalog[i] = k.details
    BY <1>3, <2>1, <2>2 DEF CalmItem
  <2>4. (\A k \in calls' : k.item = i => ~UpdateStored(k)) =>
           \A k \in calls' : k.item = i /\ k.op = "created" => catalog[i] = k.details
    BY <1>3, <2>1, <2>2 DEF CalmItem
  <2>5. \A k \in calls' : k.item = i /\ k.op = "created" /\ k.stage = "done"
                            => CatalogEvent(k) \in published'
    <3> SUFFICES ASSUME NEW k \in calls', k.item = i, k.op = "created", k.stage = "done"
                 PROVE  CatalogEvent(k) \in published'
      OBVIOUS
    <3>1. CASE k = e
      BY <1>3, <1>4, <3>1
    <3>2. CASE k \in calls
      BY <1>3, <2>1, <3>2 DEF CalmItem
    <3> QED
      BY <1>3, <3>1, <3>2
  <2>6. ~\A k \in calls' : k.item # i
    BY <1>3
  <2> QED
    BY <1>3, <2>1, <2>3, <2>4, <2>5, <2>6 DEF CalmItem, UpdateStored
<1>8. ASSUME NEW k \in calls', k.item = i, Alone(k)' PROVE AloneItem(k)'
  <2>1. /\ k = e /\ Alone(c) /\ AloneItem(c)
        /\ \A l \in calls' : l.item = i /\ l.req # c.req => l.stage \in Ended
    BY <1>1, <1>2, <1>8, AloneBefore
  <2>2. UpdateStored(c)
    BY <1>1, <2>1 DEF UpdateStored, Alone
  <2>3. \A m \in queue' : m.item = i => m.req = c.req
    BY <1>3, <2>1, EventFields DEF AloneItem
  <2> QED
    BY <1>3, <2>1, <2>2, <2>3 DEF AloneItem
<1> QED
  BY <1>5, <1>6, <1>7, <1>8, OwnItem

LEMMA FailKeeps ==
    ASSUME CInv, CInv', ApiInv, NEW c \in calls, CallFails(c)
    PROVE  ApiInv'
<1> DEFINE i == c.item
<1>1. c.stage \notin Ended
  BY DEF CallFails, Ended
<1>2. c.details \in Details \cup {Nothing} /\ i \in Items
  BY CallFields
<1>3. PICK e : Moved(c, e, "failed", c.details)
  BY <1>2, Moving DEF ApiInv, CallFails
<1>4. /\ calls' = (calls \ {c}) \cup {e} /\ e.req = c.req /\ e.item = i /\ e.op = c.op
      /\ e.stage = "failed" /\ e.details = c.details
  BY <1>3 DEF Moved
<1>5. \/ UNCHANGED <<published, queue>>
      \/ published' = published \cup {CatalogEvent(c)} /\ queue' = queue \cup {CatalogEvent(c)}
  BY DEF CallFails, Publish
<1>6. /\ \A j \in Items \ {i} : catalog'[j] = catalog[j]
      /\ catalog'[i] = catalog[i] \/ (catalog[i] # Nothing /\ catalog'[i] = c.details)
  BY <1>2 DEF CallFails, Written, CInv, CatalogTypeOK
<1>7. History'
  BY <1>1, <1>3, <1>5, HistoryMoves DEF ApiInv, Ended
<1>8. StepAbout(i)
  BY <1>4, <1>5, <1>6, EventFields DEF StepAbout
<1>9. ~Calm(i)'
  BY <1>4 DEF Calm
<1>10. ASSUME NEW k \in calls', k.item = i, Alone(k)' PROVE AloneItem(k)'
  <2>1. /\ k = e /\ Alone(c) /\ AloneItem(c)
        /\ \A l \in calls' : l.item = i /\ l.req # c.req => l.stage \in Ended
    BY <1>1, <1>3, <1>10, AloneBefore
  <2>2. catalog'[i] # Nothing
    BY <1>6, <2>1, CallFields DEF Alone, AloneItem
  <2>3. \A m \in queue' : m.item = i => m.req = c.req
    BY <1>5, <2>1, EventFields DEF AloneItem
  <2> QED
    BY <1>4, <2>1, <2>2, <2>3 DEF AloneItem, UpdateStored
<1> QED
  BY <1>7, <1>8, <1>9, <1>10, OwnItem

-----------------------------------------------------------------------------
(* The copy.  A request leaves it, and what is being consumed, alone.      *)

CopyStays == AloneCopy /\ CopyKept /\ CopyTold

LEMMA NewCopy ==
    ASSUME CInv, CopyInv, ApiInv', NEW e, calls' = calls \cup {e}, NewRequest(e.req),
           UNCHANGED <<published, queue, errors, tasks, copy>>
    PROVE  CopyStays'
<1>1. \A m : (Kept(m.item)' => Kept(m.item)) /\ (Applied(m)' => Applied(m))
  BY DEF Kept, About, Applied
<1>2. CopyKept' /\ CopyTold'
  BY <1>1 DEF CopyInv, CopyKept, CopyTold
<1>3. ASSUME NEW k \in calls', Alone(k)' PROVE AloneTasks(k)'
  <2>1. CASE k \in calls
    <3>1. Alone(k)
      BY <1>3 DEF Alone
    <3>2. AloneTasks(k)
      BY <2>1, <3>1 DEF CopyInv, AloneCopy
    <3> QED
      BY <1>1, <3>2 DEF AloneTasks
  <2>2. CASE k = e
    <3>1. \A m \in published : m.req # e.req
      BY EventFields DEF CopyInv, ApiInv, History, NewRequest
    <3>2. \A m \in queue' : m.item = e.item => m.req = e.req
      BY <1>3, <2>2 DEF ApiInv, AloneCatalog, AloneItem
    <3>3. \A m \in queue : m.item # e.item
      BY <3>1, <3>2 DEF CInv, CatalogTypeOK
    <3>4. \A t \in tasks : t.msg.item # e.item
      BY <3>3, TaskType
    <3>5. CatalogEvent(e) \notin published
      BY <3>1, EventFields
    <3> QED
      BY <2>2, <3>4, <3>5 DEF AloneTasks
  <2> QED
    BY <2>1, <2>2
<1> QED
  BY <1>2, <1>3 DEF CopyStays, AloneCopy

LEMMA MovedCopy ==
    ASSUME CInv, CopyInv, NEW c \in calls, NEW d, NEW stage, NEW e, Moved(c, e, stage, d),
           c.stage \notin Ended, UNCHANGED <<errors, tasks, copy>>,
           \/ UNCHANGED <<published, queue>>
           \/ published' = published \cup {CatalogEvent(c)} /\ queue' = queue \cup {CatalogEvent(c)}
    PROVE  CopyStays'
<1>1. /\ calls' = (calls \ {c}) \cup {e} /\ e.req = c.req /\ e.item = c.item /\ e.op = c.op
  BY DEF Moved
<1>2. \A m \in published : m.req # c.req
  BY OwnEvent DEF CopyInv, ApiInv
<1>3. CatalogEvent(c) \notin published
  BY <1>2, EventFields
<1>4. \A t \in tasks : t.msg # CatalogEvent(c)
  BY <1>3, TaskType
<1>5. \A m \in published' : Applied(m)' => m \in published /\ Applied(m)
  BY <1>4 DEF Applied
<1>6. \A i : Kept(i)' => Kept(i)
  BY DEF Kept, About
<1>7. CopyKept'
  BY <1>5, <1>6 DEF CopyInv, CopyKept
<1>8. CopyTold'
  BY DEF CopyInv, CopyTold
<1>9. ASSUME NEW k \in calls', Alone(k)' PROVE AloneTasks(k)'
  <2>1. CASE k.item = c.item
    <3>1. k = e /\ Alone(c)
      BY <1>9, <2>1, AloneBefore DEF CopyInv
    <3>2. AloneTasks(c)
      BY <3>1 DEF CopyInv, AloneCopy
    <3>3. ~(CatalogEvent(e) \in published' /\ Applied(CatalogEvent(e))')
      BY <1>1, <1>2, <1>5, EventFields
    <3> QED
      BY <1>1, <3>1, <3>2, <3>3 DEF AloneTasks
  <2>2. CASE k.item # c.item
    <3>1. k \in calls /\ Alone(k)
      BY <1>1, <1>9, <2>2 DEF Alone
    <3>2. AloneTasks(k)
      BY <3>1 DEF CopyInv, AloneCopy
    <3> QED
      BY <1>5, <3>2 DEF AloneTasks
  <2> QED
    BY <2>1, <2>2
<1> QED
  BY <1>7, <1>8, <1>9 DEF CopyStays, AloneCopy

LEMMA CreateCopy ==
    ASSUME CopyInv, CInv', NEW r \in Requests, NEW i \in Items, NEW d \in Details,
           CreateItem(r, i, d)
    PROVE  CopyInv'
<1> DEFINE e == Call(r, "created", i, d, "readback")
<1>1. CInv /\ ApiInv
  BY DEF CopyInv
<1>2. ApiInv'
  BY <1>1, CreateKeeps
<1>3. e.req = r /\ calls' = calls \cup {e} /\ NewRequest(r)
      /\ UNCHANGED <<published, queue, errors, tasks, copy>>
  BY DEF CreateItem, hostVars, Call
<1> HIDE DEF e
<1>4. CopyStays'
  BY <1>1, <1>2, <1>3, NewCopy
<1> QED
  BY <1>2, <1>4 DEF CopyInv, CopyStays

LEMMA FindCopy ==
    ASSUME CopyInv, CInv', NEW r \in Requests, NEW i \in Items, NEW op \in {"updated", "deleted"},
           NEW d \in Details \cup {Nothing}, FindItem(r, op, i, d)
    PROVE  CopyInv'
<1> DEFINE e == Call(r, op, i, d, "write")
<1>1. CInv /\ ApiInv
  BY DEF CopyInv
<1>2. ApiInv'
  BY <1>1, FindKeeps
<1>3. e.req = r /\ calls' = calls \cup {e} /\ NewRequest(r)
      /\ UNCHANGED <<published, queue, errors, tasks, copy>>
  BY DEF FindItem, hostVars, Call
<1> HIDE DEF e
<1>4. CopyStays'
  BY <1>1, <1>2, <1>3, NewCopy
<1> QED
  BY <1>2, <1>4 DEF CopyInv, CopyStays

LEMMA CallCopy ==
    ASSUME CopyInv, CInv', NEW c \in calls,
           ReadBack(c) \/ WriteItem(c) \/ PublishEvent(c) \/ CallFails(c)
    PROVE  CopyInv'
<1>1. CInv /\ ApiInv /\ History
  BY DEF CopyInv, ApiInv
<1>2. ApiInv'
  BY <1>1, ReadBackKeeps, WriteKeeps, PublishKeeps, FailKeeps
<1>3. c.stage \notin Ended
  BY DEF ReadBack, WriteItem, PublishEvent, CallFails, Ended
<1>4. \E stage \in {"publish", "done", "failed"}, d \in Details \cup {Nothing} : MoveCall(c, stage, d)
  <2>1. c.item \in Items /\ c.details \in Details \cup {Nothing}
    BY <1>1, CallFields
  <2>2. catalog[c.item] \in Details \cup {Nothing}
    BY <1>1, <2>1 DEF CInv, CatalogTypeOK
  <2> QED
    BY <2>1, <2>2 DEF ReadBack, WriteItem, PublishEvent, CallFails
<1>5. \E e, d, stage : Moved(c, e, stage, d)
  BY <1>1, <1>4, Moving
<1>6. UNCHANGED <<errors, tasks, copy>>
  BY DEF ReadBack, WriteItem, PublishEvent, CallFails, hostVars
<1>7. \/ UNCHANGED <<published, queue>>
      \/ published' = published \cup {CatalogEvent(c)} /\ queue' = queue \cup {CatalogEvent(c)}
  BY DEF ReadBack, WriteItem, PublishEvent, CallFails, hostVars, Publish
<1>8. CopyStays'
  <2>1. PICK e, d, stage : Moved(c, e, stage, d)
    BY <1>5
  <2> QED
    BY <1>1, <1>3, <1>6, <1>7, <2>1, MovedCopy
<1> QED
  BY <1>2, <1>8 DEF CopyInv, CopyStays

-----------------------------------------------------------------------------
(* The consumers, which leave Catalog alone.                               *)

LEMMA ApiStays ==
    ASSUME ApiInv, UNCHANGED <<published, catalog, calls>>, queue' \subseteq queue
    PROVE  ApiInv'
<1>1. History'
  BY DEF ApiInv, History
<1>2. CalmCatalog'
  BY DEF ApiInv, CalmCatalog, Calm, CalmItem, UpdatedOnce, UpdateStored
<1>3. \A c \in calls : Alone(c)' => AloneItem(c)'
  <2> SUFFICES ASSUME NEW c \in calls, Alone(c)' PROVE AloneItem(c)'
    OBVIOUS
  <2>1. AloneItem(c)
    BY DEF ApiInv, AloneCatalog, Alone
  <2> QED
    BY <2>1 DEF AloneItem
<1> QED
  BY <1>1, <1>2, <1>3 DEF ApiInv, AloneCatalog

\* A delivery begins or is settled, or the service stops.
LEMMA QuietCopy ==
    ASSUME CopyInv, CInv', UNCHANGED <<published, catalog, calls, copy>>, queue' \subseteq queue,
           \A v \in tasks' : v \in tasks \/ v.stage = "read",
           \A m : Applied(m)' => Applied(m)
    PROVE  CopyInv'
<1>1. ApiInv'
  BY ApiStays DEF CopyInv
<1>2. CopyKept' /\ CopyTold'
  BY DEF CopyInv, CopyKept, CopyTold, Kept, About
<1>3. ASSUME NEW c \in calls', Alone(c)' PROVE AloneTasks(c)'
  <2>1. AloneTasks(c)
    BY <1>3 DEF CopyInv, AloneCopy, Alone
  <2> QED
    BY <2>1 DEF AloneTasks
<1> QED
  BY <1>1, <1>2, <1>3 DEF CopyInv, AloneCopy

\* A lone update is the only message about its item, and one task handles it.
LEMMA LoneTask ==
    ASSUME CopyInv, NEW c \in calls, Alone(c), NEW t \in tasks, t.msg.item = c.item
    PROVE  /\ t.msg = CatalogEvent(c) /\ t.msg.type = "updated" /\ t.msg.details = c.details
           /\ \A v \in tasks : v.msg.item = c.item => v = t
<1>1. \A v \in tasks : v.msg.item = c.item => v.msg = CatalogEvent(c)
  <2> SUFFICES ASSUME NEW v \in tasks, v.msg.item = c.item PROVE v.msg = CatalogEvent(c)
    OBVIOUS
  <2>1. v.msg \in queue /\ v.msg \in published
    BY TaskType DEF CopyInv
  <2>2. v.msg.req = c.req
    BY <2>1 DEF CopyInv, ApiInv, AloneCatalog, AloneItem
  <2> QED
    BY <2>1, <2>2, OwnEvent DEF CopyInv, ApiInv
<1> QED
  BY <1>1, EventFields DEF Alone, CopyInv, CInv, OneTask

LEMMA LoneTaskKeeps ==
    ASSUME CopyInv, NEW t \in tasks, NEW u, TaskShape(t, u),
           NEW c \in calls, Alone(c), t.msg.item = c.item
    PROVE  AloneTasks(c)'
<1>1. /\ t.msg = CatalogEvent(c) /\ t.msg.type = "updated" /\ t.msg.details = c.details
      /\ \A v \in tasks : v.msg.item = c.item => v = t
  BY LoneTask
<1>2. CInv /\ AloneTasks(c)
  BY DEF CopyInv, AloneCopy
<1>3. c.item \in Items /\ copy \in [Items -> Details \cup {Nothing}]
  BY <1>2, CallFields DEF CInv, CatalogTypeOK
<1>4. \A v \in tasks' : v.msg.item = c.item => v = u
  BY <1>1 DEF TaskShape
<1>5. u.stage = "create" => copy'[c.item] = Nothing
  BY <1>1 DEF TaskShape, AfterRead
<1>6. u.stage = "replace" => copy'[c.item] # Nothing
  BY <1>1 DEF TaskShape, AfterRead
<1>7. Writes(t) => copy'[c.item] = c.details
  <2>1. t.stage \in Writing => t.stage \in {"create", "replace"}
    BY <1>1, <1>2 DEF Writing, CInv, StagesFit
  <2>2. t.stage = "replace" => copy[t.msg.item] # Nothing
    BY <1>2 DEF AloneTasks
  <2> QED
    BY <1>1, <1>3, <2>1, <2>2 DEF Writes, CopyWith
<1>8. Applied(CatalogEvent(c))' => copy'[c.item] = c.details
  <2> SUFFICES ASSUME Applied(CatalogEvent(c))' PROVE Writes(t)
    BY <1>7
  <2>1. t.msg \in queue' /\ t.msg \notin errors'
    BY <1>1, <1>2, TaskType DEF Applied, TaskShape
  <2>2. u.stage = "ack"
    BY <1>1, <1>2, <1>4, <2>1 DEF Applied
  <2> QED
    BY <1>1, <2>1, <2>2 DEF TaskShape, AfterRead
<1> QED
  BY <1>4, <1>5, <1>6, <1>8 DEF AloneTasks

LEMMA OtherTaskKeeps ==
    ASSUME CopyInv, NEW t \in tasks, NEW u, TaskShape(t, u),
           NEW c \in calls, Alone(c), t.msg.item # c.item
    PROVE  AloneTasks(c)'
<1>1. CInv /\ AloneTasks(c)
  BY DEF CopyInv, AloneCopy
<1>2. copy'[c.item] = copy[c.item]
  BY <1>1, WritesOwnItem, CallFields
<1>3. \A v \in tasks' : v.msg.item = c.item => v \in tasks
  BY DEF TaskShape
<1>4. Applied(CatalogEvent(c))' => Applied(CatalogEvent(c))
  BY EventFields DEF TaskShape, Applied
<1> QED
  BY <1>1, <1>2, <1>3, <1>4 DEF AloneTasks, TaskShape

LEMMA TaskCopy ==
    ASSUME CopyInv, CInv', NEW t \in tasks, NEW u, TaskShape(t, u)
    PROVE  CopyInv'
<1>1. CInv
  BY DEF CopyInv
<1>2. /\ t.msg \in published /\ t.msg.type \in {"created", "updated", "deleted"} /\ u.msg = t.msg
      /\ t.msg.item \in Items
  BY <1>1, TaskType DEF TaskShape, CatalogEvents
<1>3. ApiInv'
  BY ApiStays DEF CopyInv, TaskShape
<1>4. AloneCopy'
  <2> SUFFICES ASSUME NEW c \in calls, Alone(c)' PROVE AloneTasks(c)'
    BY DEF AloneCopy, TaskShape
  <2>1. Alone(c)
    BY DEF Alone, TaskShape
  <2> QED
    BY <2>1, LoneTaskKeeps, OtherTaskKeeps
<1>5. CopyKept'
  <2> SUFFICES ASSUME NEW m \in published, Kept(m.item), Applied(m)'
               PROVE  copy'[m.item] # Nothing
    BY DEF CopyKept, Kept, About, TaskShape
  <2>1. m.item \in Items
    BY <1>1 DEF CInv, CatalogTypeOK, CatalogEvents
  <2>2. CASE Applied(m)
    <3>1. copy[m.item] # Nothing
      BY <2>2 DEF CopyInv, CopyKept
    <3> QED
      BY <1>1, <2>1, <3>1, WritesOwnItem, WriteStores DEF TaskShape
  <2>3. CASE ~Applied(m)
    <3>1. m = t.msg /\ u.stage = "ack" /\ t.msg \notin errors'
      BY <1>2, <2>3 DEF Applied, TaskShape
    <3>2. t.msg.type # "deleted"
      BY <1>2, <3>1 DEF Kept, About
    <3>3. Writes(t) \/ (copy' = copy /\ copy[t.msg.item] # Nothing)
      BY <1>2, <3>1, <3>2 DEF TaskShape, AfterRead
    <3> QED
      BY <1>1, <3>1, <3>3, WriteStores
  <2> QED
    BY <2>2, <2>3
<1>6. CopyTold'
  <2> SUFFICES ASSUME NEW i \in Items
               PROVE  copy'[i] = Nothing \/ \E m \in published : m.item = i /\ copy'[i] = m.details
    BY DEF CopyTold, TaskShape
  <2>1. copy'[i] = copy[i] \/ (i = t.msg.item /\ copy'[i] = t.msg.details)
    BY <1>1, <1>2, WritesOwnItem DEF TaskShape, Writes, CopyWith, CInv, CatalogTypeOK
  <2> QED
    BY <1>2, <2>1 DEF CopyInv, CopyTold
<1> QED
  BY <1>3, <1>4, <1>5, <1>6 DEF CopyInv

-----------------------------------------------------------------------------
LEMMA CopyInitially == CatalogInit => CopyInv
<1> SUFFICES ASSUME CatalogInit PROVE CopyInv
  OBVIOUS
<1>1. CInv
  BY DEF CatalogInit, HostInit, CInv, CatalogTypeOK, OneTask, CallsDetailed, EventsDetailed,
         StagesFit, FoundStays, AppliedStick
<1>2. ApiInv
  BY DEF CatalogInit, HostInit, ApiInv, History, CalmCatalog, CalmItem, AloneCatalog
<1>3. AloneCopy /\ CopyKept /\ CopyTold
  BY DEF CatalogInit, HostInit, AloneCopy, CopyKept, CopyTold
<1> QED
  BY <1>1, <1>2, <1>3 DEF CopyInv

LEMMA CopyStep ==
    ASSUME CopyInv, CInv', [CatalogNext]_catalogVars
    PROVE  CopyInv'
<1>1. CInv
  BY DEF CopyInv
<1>2. ASSUME NEW r \in Requests, NEW i \in Items, NEW d \in Details,
             CreateItem(r, i, d) \/ FindItem(r, "updated", i, d)
      PROVE  CopyInv'
  BY <1>2, CreateCopy, FindCopy
<1>3. ASSUME NEW r \in Requests, NEW i \in Items, FindItem(r, "deleted", i, Nothing)
      PROVE  CopyInv'
  BY <1>3, FindCopy
<1>4. ASSUME NEW c \in calls, ReadBack(c) \/ WriteItem(c) \/ PublishEvent(c) \/ CallFails(c)
      PROVE  CopyInv'
  BY <1>4, CallCopy
<1>5. ASSUME NEW m \in queue, Handle(m)
      PROVE  CopyInv'
  <2>1. \A v \in tasks' : v \in tasks \/ v.stage = "read"
    BY <1>5 DEF Handle, Begin, Task
  <2>2. \A e : Applied(e)' => Applied(e)
    BY <1>5, <2>1 DEF Handle, Begin, Applied
  <2> QED
    BY <1>5, <2>1, <2>2, QuietCopy DEF Handle, Begin
<1>6. ASSUME NEW t \in tasks, Settle(t) /\ UNCHANGED <<catalog, calls, copy>>
      PROVE  CopyInv'
  <2>1. \A e : Applied(e)' => Applied(e)
    BY <1>6 DEF Settle, Applied
  <2> QED
    BY <1>6, <2>1, QuietCopy DEF Settle
<1>7. ASSUME NEW t \in tasks, ReadCopy(t) \/ WriteCopy(t) \/ WriteRefused(t) \/ TaskFails(t)
      PROVE  CopyInv'
  BY <1>1, <1>7, ProceedShape, TaskCopy
<1>8. CASE Stop /\ UNCHANGED <<catalog, calls, copy>>
  <2>1. \A e : Applied(e)' => Applied(e)
    BY <1>8 DEF Stop, Applied
  <2> QED
    BY <1>8, <2>1, QuietCopy DEF Stop
<1>9. CASE UNCHANGED catalogVars
  <2>1. \A e : Applied(e)' => Applied(e)
    BY <1>9 DEF catalogVars, hostVars, Applied
  <2> QED
    BY <1>9, <2>1, QuietCopy DEF catalogVars, hostVars
<1> QED
  BY <1>2, <1>3, <1>4, <1>5, <1>6, <1>7, <1>8, <1>9 DEF CatalogNext, Proceed

LEMMA CopyInvariant == CatalogSpec => []CopyInv
<1>1. CopyInv /\ CInv' /\ [CatalogNext]_catalogVars => CopyInv'
  BY CopyStep
<1> QED
  BY <1>1, CopyInitially, CatalogInvariant, PTL DEF CatalogSpec, CatalogSafety

-----------------------------------------------------------------------------
LEMMA AfterLoneUpdate ==
    ASSUME CopyInv, NEW i \in Items, UpdatedAlone(i)
    PROVE  copy[i] = catalog[i]
<1>1. PICK c \in calls :
         /\ c.item = i /\ c.op = "updated" /\ c.stage = "done" /\ Consumed(CatalogEvent(c))
         /\ \A e \in calls \ {c} : e.item = i => e.req \in c.after
  BY DEF UpdatedAlone
<1>2. Alone(c)
  BY <1>1 DEF Alone
<1>3. AloneItem(c) /\ AloneTasks(c)
  BY <1>2 DEF CopyInv, ApiInv, AloneCatalog, AloneCopy
<1>4. CatalogEvent(c) \in published /\ Applied(CatalogEvent(c))
  BY <1>1 DEF Consumed, Applied
<1>5. UpdateStored(c)
  BY <1>1 DEF UpdateStored
<1> QED
  BY <1>1, <1>3, <1>4, <1>5 DEF AloneItem, AloneTasks

LEMMA AfterOneUpdate ==
    ASSUME CopyInv, NEW i \in Items, AtRest(i), UpdatedOnce(i)
    PROVE  copy[i] = catalog[i]
<1>1. \A c \in calls : c.item = i => c.stage = "done" /\ c.op \in {"created", "updated"}
  BY CallFields DEF AtRest, UpdatedOnce, CopyInv
<1>2. CalmItem(i)
  BY <1>1 DEF Calm, CopyInv, ApiInv, CalmCatalog
<1>3. \A m \in published : m.item = i => \E c \in calls : c.item = i /\ m = CatalogEvent(c)
  BY EventFields DEF CopyInv, ApiInv, History
<1>4. Kept(i)
  BY <1>1, <1>3, EventFields DEF Kept, About
<1>5. \A c \in calls : c.item = i => CatalogEvent(c) \in published /\ Applied(CatalogEvent(c))
  <2> SUFFICES ASSUME NEW c \in calls, c.item = i
               PROVE  CatalogEvent(c) \in published /\ Applied(CatalogEvent(c))
    OBVIOUS
  <2>1. CatalogEvent(c) \in published
    BY <1>1, <1>2 DEF CopyInv, ApiInv, History, CalmItem
  <2>2. Consumed(CatalogEvent(c))
    BY <2>1, EventFields DEF AtRest
  <2> QED
    BY <2>1, <2>2 DEF Consumed, Applied
<1>6. CASE \E c \in calls : c.item = i /\ c.op = "updated"
  <2>1. PICK c \in calls : c.item = i /\ c.op = "updated"
    BY <1>6
  <2>2. catalog[i] = c.details
    BY <1>1, <1>2, <2>1 DEF CalmItem, UpdateStored
  <2>3. CatalogEvent(c) \in published /\ CatalogEvent(c).type = "updated"
        /\ CatalogEvent(c).item = i /\ Applied(CatalogEvent(c))
    BY <1>5, <2>1, EventFields
  <2>4. HoldsUpdate(i)
    BY <1>4, <2>3 DEF CopyInv, CInv, AppliedStick
  <2>5. PICK m \in published : m.item = i /\ m.type = "updated" /\ copy[i] = m.details
    BY <2>4 DEF HoldsUpdate, About
  <2>6. PICK k \in calls : k.item = i /\ m = CatalogEvent(k)
    BY <1>3, <2>5
  <2>7. k = c
    BY <2>1, <2>5, <2>6, EventFields DEF UpdatedOnce
  <2> QED
    BY <2>2, <2>5, <2>6, <2>7, EventFields
<1>7. CASE ~\E c \in calls : c.item = i /\ c.op = "updated"
  <2>1. \A c \in calls : c.item = i => c.op = "created"
    BY <1>1, <1>7
  <2>2. CASE \E c \in calls : c.item = i
    <3>1. PICK c \in calls : c.item = i
      BY <2>2
    <3>2. catalog[i] = c.details
      BY <1>2, <2>1, <3>1 DEF CalmItem, UpdateStored
    <3>3. CatalogEvent(c) \in published /\ Applied(CatalogEvent(c)) /\ CatalogEvent(c).item = i
      BY <1>5, <3>1, EventFields
    <3>4. copy[i] # Nothing
      BY <1>4, <3>3 DEF CopyInv, CopyKept
    <3>5. PICK m \in published : m.item = i /\ copy[i] = m.details
      BY <3>4 DEF CopyInv, CopyTold
    <3>6. PICK k \in calls : k.item = i /\ m = CatalogEvent(k)
      BY <1>3, <3>5
    <3>7. k = c
      BY <2>1, <3>1, <3>6 DEF CopyInv, ApiInv, History
    <3> QED
      BY <3>2, <3>5, <3>6, <3>7, EventFields
  <2>3. CASE ~\E c \in calls : c.item = i
    <3>1. catalog[i] = Nothing
      BY <1>2, <2>3 DEF CalmItem
    <3>2. copy[i] = Nothing
      BY <1>3, <2>3 DEF CopyInv, CopyTold
    <3> QED
      BY <3>1, <3>2
  <2> QED
    BY <2>2, <2>3
<1> QED
  BY <1>6, <1>7

\* For any number of items, requests, retries and failures: at rest, the copy is
\* what Catalog stores of an item that was created and updated at most once,
\* whichever of the two events arrived first; and it is again once an update that
\* began when all other requests about the item were over is consumed, even if
\* some of those failed or their events were consumed in the wrong order.
THEOREM CopyIsRight == CatalogSpec => []CopyMatchesCatalog
<1>1. CopyInv => CopyMatchesCatalog
  BY AfterLoneUpdate, AfterOneUpdate DEF CopyMatchesCatalog
<1> QED
  BY <1>1, CopyInvariant, PTL
=============================================================================
