----------------------------- MODULE ListPageProofs -----------------------------
(***************************************************************************)
(* Proofs about ListPage, for any items, contents and number of requests   *)
(* in progress: its type invariant, that a page shows no row which the     *)
(* service never held, and that a rendered page with nothing in progress   *)
(* is right.                                                               *)
(***************************************************************************)
EXTENDS ListPage, TLAPS

\* Modals are only open for changes that the page offers.
Offered == \A f \in open : f.op \in Changes(kind)

\* What answers carry was held when they were served.
AnswersWereHeld == held \subseteq ever /\ \A i \in Busy : req[i].rows \subseteq ever

PagesInv == PagesTypeOK /\ Offered /\ AnswersWereHeld /\ ShownWasHeld

-----------------------------------------------------------------------------
(* Requests and rows.                                                      *)

LEMMA RequestFields ==
    ASSUME NEW r \in Requests
    PROVE  /\ r.op \in RequestKinds /\ r.of \in Lists /\ r.id \in Ids \cup {NoId}
           /\ r.val \in Contents /\ r.stage \in {"sent", "done", "refused"}
           /\ r.rows \in SUBSET Rows /\ r.modal \in BOOLEAN /\ r.live \in BOOLEAN
BY DEF Requests

LEMMA FreeIsNoRequest == Free \notin Requests
<1> SUFFICES ASSUME Free \in Requests PROVE FALSE
  OBVIOUS
<1>1. Free.stage \in {"sent", "done", "refused"}
  BY RequestFields
<1>2. Free.stage = "free"
  BY DEF Free
<1> QED
  BY <1>1, <1>2

\* What becomes of a request in progress: its page goes, or its modal goes.
LEMMA PageGone ==
    ASSUME NEW r \in Requests
    PROVE  /\ [r EXCEPT !.live = FALSE] \in Requests
           /\ [r EXCEPT !.live = FALSE].op = r.op /\ [r EXCEPT !.live = FALSE].rows = r.rows
BY DEF Requests

LEMMA ModalGone ==
    ASSUME NEW r \in Requests, NEW m \in BOOLEAN
    PROVE  /\ [r EXCEPT !.modal = m] \in Requests
           /\ [r EXCEPT !.modal = m].op = r.op /\ [r EXCEPT !.modal = m].rows = r.rows
BY DEF Requests

LEMMA SomeContents == (CHOOSE c \in Contents : TRUE) \in Contents
BY PagesAssumption

LEMMA RequestType ==
    ASSUME PagesTypeOK, NEW op \in RequestKinds, NEW a \in Ids \cup {NoId}, NEW c \in Contents
    PROVE  /\ Request(op, a, c) \in Requests /\ Request(op, a, c).op = op
           /\ Request(op, a, c).rows = {}
<1>1. about \in Lists
  BY DEF PagesTypeOK
<1>2. (op \in {"add", "edit", "grant"}) \in BOOLEAN
  OBVIOUS
<1> QED
  BY <1>1, <1>2 DEF Request, Requests

LEMMA ListType ==
    ASSUME PagesTypeOK, NEW l \in Lists
    PROVE  ListOf(l) \in Requests /\ ListOf(l).op = "list" /\ ListOf(l).rows = {}
<1> DEFINE r == Request("list", NoId, CHOOSE c \in Contents : TRUE)
<1>1. r \in Requests /\ r.op = "list" /\ r.rows = {}
  BY SomeContents, RequestType DEF RequestKinds
<1>2. [r EXCEPT !.of = l] \in Requests /\ [r EXCEPT !.of = l].op = "list"
      /\ [r EXCEPT !.of = l].rows = {}
  BY <1>1 DEF Requests
<1> QED
  BY <1>2 DEF ListOf

LEMMA BusyRequest ==
    ASSUME PagesTypeOK, NEW i \in Busy
    PROVE  i \in Slots /\ req[i] \in Requests
BY DEF PagesTypeOK, Busy

\* Requests in progress that are unchanged but for what a page tells them, and
\* lists and changes the page offers: what the rest of the proof needs of a step.
Continues(r, s) == r \in Requests /\ s \in Requests /\ s.op = r.op /\ s.rows = r.rows

Begun(s) == s \in Requests /\ s.rows = {} /\ (s.op = "list" \/ s.op \in Changes(kind))

SlotsGoOn ==
    /\ req' \in [Slots -> Requests \cup {Free}]
    /\ \A i \in Slots : \/ req'[i] = Free
                        \/ req[i] # Free /\ Continues(req[i], req'[i])
                        \/ Begun(req'[i])

-----------------------------------------------------------------------------
\* A step of the page: the service's rows stay, what is shown was held.
LEMMA PageKeeps ==
    ASSUME PagesInv, UNCHANGED <<kind, held, ever>>, SlotsGoOn,
           about' \in Lists, phase' \in Phases, status' \in Phases,
           spoiled' \in BOOLEAN, acts' \in 0..MaxActs,
           items' \subseteq ever, shown' \subseteq ever,
           open' \subseteq Forms, \A f \in open' : f.op \in Changes(kind)
    PROVE  PagesInv'
<1>1. \A i \in Slots : req'[i] # Free =>
        (req'[i].op # "list" => req'[i].op \in Changes(kind)) /\ req'[i].rows \subseteq ever
  <2> TAKE i \in Slots
  <2> HAVE req'[i] # Free
  <2>1. CASE req[i] # Free /\ Continues(req[i], req'[i])
    BY <2>1 DEF Continues, PagesInv, PagesTypeOK, AnswersWereHeld, Busy
  <2>2. CASE Begun(req'[i])
    BY <2>2 DEF Begun
  <2> QED
    BY <2>1, <2>2 DEF SlotsGoOn
<1>2. kind' = kind /\ Changes(kind') = Changes(kind) /\ held' = held /\ ever' = ever
      /\ kind \in Kinds /\ held \subseteq Rows /\ ever \subseteq Rows
  BY DEF Changes, PagesInv, PagesTypeOK
<1>3. items' \subseteq Rows /\ shown' \subseteq Rows
  BY <1>2
<1>4. PagesTypeOK'
  BY <1>1, <1>2, <1>3 DEF PagesTypeOK, SlotsGoOn, Busy
<1>5. Offered' /\ AnswersWereHeld' /\ ShownWasHeld'
  BY <1>1, <1>2 DEF Offered, AnswersWereHeld, ShownWasHeld, Busy, PagesInv
<1> QED
  BY <1>4, <1>5 DEF PagesInv

\* A free slot takes a request.
LEMMA SlotTakes ==
    ASSUME PagesInv, NEW i \in Slots, NEW r, Begun(r), req' = [req EXCEPT ![i] = r]
    PROVE  SlotsGoOn
<1>1. req \in [Slots -> Requests \cup {Free}] /\ r \in Requests
  BY DEF PagesInv, PagesTypeOK, Begun
<1>2. \A j \in Slots \ {i} : req'[j] = req[j] /\ (req[j] # Free => Continues(req[j], req'[j]))
  BY <1>1 DEF Continues
<1> QED
  BY <1>1, <1>2 DEF SlotsGoOn

\* A slot is emptied.
LEMMA SlotFreed ==
    ASSUME PagesInv, NEW i \in Slots, req' = Without(i)
    PROVE  SlotsGoOn
<1>1. req \in [Slots -> Requests \cup {Free}]
  BY DEF PagesInv, PagesTypeOK
<1>2. Without(i) \in [Slots -> Requests \cup {Free}] /\ Without(i)[i] = Free
      /\ \A j \in Slots \ {i} : Without(i)[j] = req[j]
  BY <1>1 DEF Without
<1> QED
  BY <1>1, <1>2 DEF SlotsGoOn, Continues

\* A render leaves the requests as they are, but for modals that go.
LEMMA RenderedRequest ==
    ASSUME PagesInv, Render, NEW j \in Slots
    PROVE  \/ req[j] = Free /\ req'[j] = Free
           \/ /\ req[j] # Free /\ req[j] \in Requests /\ req'[j] \in Requests
              /\ \E m \in BOOLEAN :
                    req'[j] = [req[j] EXCEPT !.modal = m] /\ (m => Present(req[j], items, phase))
<1>1. req \in [Slots -> Requests \cup {Free}]
  BY DEF PagesInv, PagesTypeOK
<1>2. req'[j] = IF req[j] = Free THEN Free
                ELSE [req[j] EXCEPT !.modal = @ /\ Present(req[j], items, phase)]
  BY DEF Render
<1>3. CASE req[j] # Free
  <2> DEFINE m == req[j].modal /\ Present(req[j], items, phase)
  <2>1. req[j] \in Requests /\ req[j].modal \in BOOLEAN
    BY <1>1, <1>3, RequestFields
  <2>2. req'[j] = [req[j] EXCEPT !.modal = m] /\ m \in BOOLEAN
        /\ (m => Present(req[j], items, phase))
    BY <1>2, <1>3, <2>1 DEF Present
  <2> HIDE DEF m
  <2> QED
    BY <1>3, <2>1, <2>2, ModalGone
<1> QED
  BY <1>2, <1>3

LEMMA RenderKeeps ==
    ASSUME PagesInv, Render
    PROVE  PagesInv'
<1>1. SlotsGoOn
  <2>1. ASSUME NEW j \in Slots
        PROVE  \/ req[j] = Free /\ req'[j] = Free
               \/ req[j] # Free /\ Continues(req[j], req'[j])
    <3>1. CASE req[j] # Free
      <4>1. PICK m \in BOOLEAN : req[j] \in Requests /\ req'[j] = [req[j] EXCEPT !.modal = m]
        BY <3>1, RenderedRequest
      <4> QED
        BY <3>1, <4>1, ModalGone DEF Continues
    <3> QED
      BY <3>1, RenderedRequest
  <2>2. req' = [j \in Slots |-> req'[j]]
    BY DEF Render
  <2> QED
    BY <2>1, <2>2 DEF SlotsGoOn, Continues
<1>2. /\ UNCHANGED <<kind, held, ever, about, items, phase, spoiled, acts>>
      /\ shown' = items /\ status' = phase /\ open' \subseteq open
  BY DEF Render
<1>3. /\ about \in Lists /\ phase \in Phases /\ items \subseteq ever /\ spoiled \in BOOLEAN
      /\ acts \in 0..MaxActs /\ open \subseteq Forms /\ \A f \in open : f.op \in Changes(kind)
  BY DEF PagesInv, PagesTypeOK, Offered, ShownWasHeld
<1> QED
  BY <1>1, <1>2, <1>3, PageKeeps

LEMMA ToggledForms ==
    ASSUME PagesInv, NEW i \in Busy, req[i].op \in {"add", "edit", "grant"}
    PROVE  Toggled(i) \subseteq Forms /\ \A f \in Toggled(i) : f.op \in Changes(kind)
<1>1. req[i] \in Requests /\ req[i].id \in Ids \cup {NoId} /\ req[i].op \in Changes(kind)
  BY BusyRequest, RequestFields DEF PagesInv, PagesTypeOK
<1>2. FormOf(req[i]) \in Forms /\ FormOf(req[i]).op \in Changes(kind)
  BY <1>1 DEF FormOf, Forms
<1>3. Toggled(i) \subseteq open \cup {FormOf(req[i])}
  BY DEF Toggled, Flip
<1> QED
  BY <1>2, <1>3 DEF PagesInv, PagesTypeOK, Offered
-----------------------------------------------------------------------------
(* The user.                                                               *)

LEMMA UserKeeps ==
    ASSUME PagesInv,
           Mount \/ Refresh \/ \E l \in Lists : SwitchInventory(l)
    PROVE  PagesInv'
<1> DEFINE Typed == /\ req \in [Slots -> Requests \cup {Free}] /\ acts \in 0..MaxActs
                    /\ about \in Lists /\ phase \in Phases /\ status \in Phases
                    /\ open \subseteq Forms /\ \A f \in open : f.op \in Changes(kind)
                    /\ shown \subseteq ever /\ items \subseteq ever /\ MaxActs \in Nat
<1>1. Typed /\ "own" \in Lists /\ "loading" \in Phases /\ PagesTypeOK
  BY PagesAssumption DEF PagesInv, PagesTypeOK, Offered, ShownWasHeld, Lists, Phases
<1>2. Act => acts' \in 0..MaxActs
  BY <1>1 DEF Act
<1>3. \A l \in Lists : Begun(ListOf(l))
  BY <1>1, ListType DEF Begun
<1>4. CASE Mount
  <2>1. PICK i \in Slots \ Busy : req' = [j \in Slots |->
            IF j = i THEN ListOf("own")
            ELSE IF req[j] = Free THEN Free ELSE [req[j] EXCEPT !.live = FALSE]]
    BY <1>4 DEF Mount
  <2>2. \A j \in Slots : req[j] # Free =>
          [req[j] EXCEPT !.live = FALSE] \in Requests /\ Continues(req[j], [req[j] EXCEPT !.live = FALSE])
    <3> TAKE j \in Slots
    <3> HAVE req[j] # Free
    <3>1. req[j] \in Requests
      BY <1>1
    <3> QED
      BY <3>1, PageGone DEF Continues
  <2>3. SlotsGoOn
    <3>1. ListOf("own") \in Requests /\ Begun(ListOf("own"))
      BY <1>1, <1>3 DEF Begun
    <3>2. \A j \in Slots : \/ req'[j] = Free
                           \/ req[j] # Free /\ Continues(req[j], req'[j])
                           \/ Begun(req'[j])
      <4> TAKE j \in Slots
      <4>1. CASE j = i
        <5>1. req'[j] = ListOf("own")
          BY <2>1, <4>1
        <5> QED
          BY <3>1, <5>1
      <4>2. CASE j # i /\ req[j] = Free
        BY <2>1, <4>2
      <4>3. CASE j # i /\ req[j] # Free
        BY <2>1, <2>2, <4>3
      <4> QED
        BY <4>1, <4>2, <4>3
    <3>3. req' \in [Slots -> Requests \cup {Free}]
      BY <2>1, <2>2, <3>1
    <3> QED
      BY <3>2, <3>3 DEF SlotsGoOn
  <2>4. (\E j \in Busy : req[j].op \notin {"list", "grant"}) \in BOOLEAN
    OBVIOUS
  <2>5. /\ about' = "own" /\ items' = {} /\ phase' = "loading" /\ shown' = {}
        /\ status' = "loading" /\ open' = {} /\ UNCHANGED <<kind, held, ever>>
        /\ spoiled' \in BOOLEAN
    BY <1>4, <2>4 DEF Mount, Show
  <2> QED
    BY <1>1, <1>2, <1>4, <2>3, <2>5, PageKeeps DEF Mount
<1>5. CASE Refresh
  <2>1. PICK i \in Slots \ Busy : req' = [req EXCEPT ![i] = ListOf("own")]
    BY <1>5 DEF Refresh
  <2>2. SlotsGoOn
    BY <1>1, <1>3, <2>1, SlotTakes
  <2>3. /\ spoiled' \in BOOLEAN /\ Act
        /\ UNCHANGED <<kind, held, ever, about, items, phase, shown, status, open>>
    BY <1>5 DEF Refresh, Crosses
  <2> QED
    BY <1>1, <1>2, <2>2, <2>3, PageKeeps
<1>6. ASSUME NEW l \in Lists, SwitchInventory(l) PROVE PagesInv'
  <2>1. PICK i \in Slots \ Busy : req' = [req EXCEPT ![i] = ListOf(l)]
    BY <1>6 DEF SwitchInventory
  <2>2. SlotsGoOn
    BY <1>3, <2>1, SlotTakes
  <2>3. /\ spoiled' \in BOOLEAN /\ about' = l /\ Act
        /\ UNCHANGED <<kind, held, ever, items, phase, shown, status, open>>
    BY <1>6 DEF SwitchInventory, Crosses
  <2> QED
    BY <1>1, <1>2, <2>2, <2>3, PageKeeps
<1> QED
  BY <1>4, <1>5, <1>6

LEMMA ToggleKeeps ==
    ASSUME PagesInv, NEW f \in Forms, ToggleModal(f)
    PROVE  PagesInv'
<1>1. /\ f.op \in Changes(kind) /\ open' \subseteq open \cup {f}
      /\ UNCHANGED <<kind, held, ever, about, items, phase, shown, status, req, spoiled>>
  BY DEF ToggleModal, Flip
<1>2. acts' \in 0..MaxActs
  BY PagesAssumption DEF ToggleModal, Act, PagesInv, PagesTypeOK
<1>3. SlotsGoOn
  BY <1>1 DEF PagesInv, PagesTypeOK, SlotsGoOn, Continues
<1>4. /\ about' \in Lists /\ phase' \in Phases /\ status' \in Phases /\ spoiled' \in BOOLEAN
      /\ items' \subseteq ever /\ shown' \subseteq ever /\ open \subseteq Forms
      /\ \A g \in open : g.op \in Changes(kind)
  BY <1>1 DEF PagesInv, PagesTypeOK, Offered, ShownWasHeld
<1> QED
  BY <1>1, <1>2, <1>3, <1>4, PageKeeps

\* A change that is sent is one that the page offers.
LEMMA SendKeeps ==
    ASSUME PagesInv, NEW op \in RequestKinds, op \in Changes(kind),
           NEW a \in Ids \cup {NoId}, NEW c \in Contents, Send(Request(op, a, c))
    PROVE  PagesInv'
<1>1. Begun(Request(op, a, c))
  <2>1. PagesTypeOK
    BY DEF PagesInv
  <2>2. Request(op, a, c) \in Requests /\ Request(op, a, c).op = op /\ Request(op, a, c).rows = {}
    BY <2>1, RequestType
  <2> HIDE DEF Request
  <2> QED
    BY <2>2 DEF Begun
<1>2. PICK i \in Slots \ Busy : req' = [req EXCEPT ![i] = Request(op, a, c)]
  BY DEF Send
<1>3. SlotsGoOn
  BY <1>1, <1>2, SlotTakes
<1>4. /\ Act /\ spoiled' \in BOOLEAN
      /\ UNCHANGED <<kind, held, ever, about, items, phase, shown, status, open>>
  BY DEF Send, Crosses
<1>5. acts' \in 0..MaxActs
  BY <1>4, PagesAssumption DEF Act, PagesInv, PagesTypeOK
<1> QED
  BY <1>3, <1>4, <1>5, PageKeeps DEF PagesInv, PagesTypeOK, Offered, ShownWasHeld

LEMMA ChangeKeeps ==
    ASSUME PagesInv,
           \/ \E f \in Forms : ToggleModal(f) \/ \E c \in Contents : Submit(f, c)
           \/ \E a \in Ids : Delete(a)
    PROVE  PagesInv'
<1>1. ASSUME NEW f \in Forms, NEW c \in Contents, Submit(f, c) PROVE PagesInv'
  <2>1. f.op \in Changes(kind) /\ f.op \in RequestKinds /\ f.id \in Ids \cup {NoId}
    BY <1>1 DEF Submit, PagesInv, Offered, Forms, RequestKinds
  <2> QED
    BY <1>1, <2>1, SendKeeps DEF Submit
<1>2. ASSUME NEW a \in Ids, Delete(a) PROVE PagesInv'
  BY <1>2, SendKeeps, SomeContents DEF Delete, RequestKinds
<1> QED
  BY <1>1, <1>2, ToggleKeeps

-----------------------------------------------------------------------------
(* The service.                                                            *)

\* What a change makes of the rows are rows.
LEMMA EffectRows ==
    ASSUME PagesInv, NEW r \in Requests, NEW new \in SUBSET Rows
    PROVE  Effect(r, new) \in SUBSET Rows /\ (r.op = "add" => new \subseteq Effect(r, new))
<1>1. held \subseteq Rows /\ r.val \in Contents
  BY RequestFields DEF PagesInv, PagesTypeOK
<1>2. Put(r.id, r.val) \subseteq Rows
  BY <1>1 DEF Put, RowsWith, Rows
<1> QED
  BY <1>1, <1>2 DEF Effect

LEMMA ServeKeeps ==
    ASSUME PagesInv, NEW i \in Slots, Serve(i)
    PROVE  PagesInv'
<1> DEFINE r == req[i]
           News == IF r.op = "add"
                   THEN {{[of |-> "own", id |-> a, val |-> r.val]} : a \in Ids \ {s.id : s \in ever}}
                   ELSE {IF r.op = "list" THEN {s \in held : s.of = r.of} ELSE {}}
<1>1. i \in Busy /\ r \in Requests /\ r.val \in Contents /\ "own" \in Lists
      /\ held \subseteq Rows /\ ever \subseteq Rows /\ held \subseteq ever
  BY BusyRequest, RequestFields DEF Serve, PagesInv, PagesTypeOK, AnswersWereHeld, Lists
<1>2. PICK new \in News, stage \in {"done", "refused"}, stored \in BOOLEAN :
        /\ stage = "done" => stored \/ (kind = "users" /\ r.op = "edit")
        /\ held' = IF stored THEN Effect(r, new) ELSE held
        /\ ever' = ever \cup held'
        /\ req' = [req EXCEPT ![i].stage = stage,
                              ![i].rows = IF stage = "done" THEN new ELSE {}]
  BY DEF Serve
<1>3. UNCHANGED <<kind, about, items, phase, shown, status, open, spoiled, acts>>
  BY DEF Serve
<1>4. new \in SUBSET Rows /\ (r.op # "add" => new \subseteq held)
  BY <1>1 DEF Rows
<1> DEFINE R == IF stage = "done" THEN new ELSE {}
           q == [r EXCEPT !.stage = stage, !.rows = R]
<1>5. R \in SUBSET Rows /\ stage \in {"sent", "done", "refused"}
  BY <1>4
<1> HIDE DEF R, r
<1>6. q \in Requests /\ q.op = r.op /\ q.rows = R
  <2>1. r \in Requests /\ stage \in {"sent", "done", "refused"} /\ R \in SUBSET Rows
    BY <1>1, <1>5
  <2> QED
    BY ONLY <2>1 DEF Requests
<1>7. req' = [req EXCEPT ![i] = q]
  BY <1>1, <1>2 DEF PagesInv, PagesTypeOK, R, r
<1>8. held' \subseteq Rows /\ ever' \subseteq Rows
  BY <1>1, <1>2, <1>4, EffectRows DEF PagesInv, r
<1>9. R \subseteq ever'
  <2>1. CASE r.op = "add" /\ stage = "done"
    BY <1>1, <1>2, <1>4, <2>1, EffectRows DEF PagesInv, R, r
  <2>2. CASE r.op # "add" \/ stage # "done"
    BY <1>1, <1>2, <1>4, <2>2 DEF R
  <2> QED
    BY <2>1, <2>2
<1> HIDE DEF q
<1>10. /\ req' \in [Slots -> Requests \cup {Free}] /\ req'[i] = q
       /\ \A j \in Slots \ {i} : req'[j] = req[j]
  BY <1>6, <1>7 DEF PagesInv, PagesTypeOK
<1>11. \A j \in Slots : req'[j] # Free =>
         (req'[j].op # "list" => req'[j].op \in Changes(kind)) /\ req'[j].rows \subseteq ever'
  <2>1. (q.op # "list" => q.op \in Changes(kind)) /\ q.rows \subseteq ever'
    BY <1>1, <1>6, <1>9 DEF PagesInv, PagesTypeOK, r
  <2>2. ever \subseteq ever'
    BY <1>2
  <2> QED
    BY <1>10, <2>1, <2>2 DEF PagesInv, PagesTypeOK, AnswersWereHeld, Busy
<1>12. PagesTypeOK'
  BY <1>1, <1>3, <1>8, <1>10, <1>11 DEF PagesInv, PagesTypeOK, Busy, Changes
<1> QED
  BY <1>2, <1>3, <1>11, <1>12
  DEF PagesInv, Offered, AnswersWereHeld, ShownWasHeld, Busy, Changes

LEMMA OthersKeep ==
    ASSUME PagesInv, OthersChange
    PROVE  PagesInv'
<1>1. held' \subseteq Rows /\ ever' = ever \cup held' /\ spoiled' = TRUE
      /\ UNCHANGED <<kind, about, items, phase, shown, status, open, req>>
  BY DEF OthersChange, PagesInv, PagesTypeOK, Rows
<1>2. acts' \in 0..MaxActs
  BY PagesAssumption DEF OthersChange, Act, PagesInv, PagesTypeOK
<1>3. PagesTypeOK'
  BY <1>1, <1>2 DEF PagesInv, PagesTypeOK, Busy, Changes
<1> QED
  BY <1>1, <1>3 DEF PagesInv, Offered, AnswersWereHeld, ShownWasHeld, Busy, Changes

-----------------------------------------------------------------------------
(* Answers.                                                                *)

LEMMA AnswerKeeps ==
    ASSUME PagesInv, NEW i \in Slots, Answer(i)
    PROVE  PagesInv'
<1>1. i \in Busy /\ UNCHANGED <<kind, held, ever, about, shown, status, acts>>
  BY DEF Answer, Listed, ListFails, AddSucceeds, GrantSucceeds, EditSucceeds, DeleteAnswered,
         ChangeFails, Unheard, Answered
<1>2. /\ about' \in Lists /\ acts' \in 0..MaxActs /\ phase \in Phases /\ status' \in Phases
      /\ spoiled \in BOOLEAN /\ items \subseteq ever /\ shown' \subseteq ever
      /\ req[i].rows \subseteq ever /\ shown \subseteq ever /\ PagesTypeOK
      /\ open \subseteq Forms /\ \A f \in open : f.op \in Changes(kind)
  BY <1>1 DEF PagesInv, PagesTypeOK, Offered, AnswersWereHeld, ShownWasHeld
<1>3. ASSUME req' = Without(i), open' = open \/ (open' = Toggled(i) /\ req[i].op \in {"add", "grant"}),
             items' \subseteq ever, phase' \in Phases, spoiled' \in BOOLEAN
      PROVE  PagesInv'
  <2>1. SlotsGoOn
    BY <1>3, SlotFreed
  <2>2. open' \subseteq Forms /\ \A f \in open' : f.op \in Changes(kind)
    BY <1>1, <1>2, <1>3, ToggledForms
  <2> QED
    BY <1>1, <1>2, <1>3, <2>1, <2>2, PageKeeps
<1>4. CASE Listed(i)
  BY <1>2, <1>3, <1>4 DEF Listed, Show, Phases
<1>5. CASE ListFails(i)
  BY <1>3, <1>5 DEF ListFails, Show, Phases
<1>6. CASE DeleteAnswered(i)
  BY <1>2, <1>3, <1>6 DEF DeleteAnswered
<1>7. CASE AddSucceeds(i) \/ GrantSucceeds(i)
  BY <1>2, <1>3, <1>7 DEF AddSucceeds, GrantSucceeds, Answered, Appended
<1>8. CASE EditSucceeds(i)
  <2>1. /\ req[i].op \in {"add", "edit", "grant"} /\ req' = [req EXCEPT ![i] = ListOf("own")]
        /\ open' = Toggled(i) /\ UNCHANGED <<items, phase>> /\ spoiled' \in BOOLEAN
    BY <1>8 DEF EditSucceeds, Answered, Repopulated, Crosses
  <2>2. Begun(ListOf("own"))
    BY <1>2, ListType DEF Begun, Lists
  <2>3. SlotsGoOn
    BY <2>1, <2>2, SlotTakes
  <2> QED
    BY <1>1, <1>2, <2>1, <2>3, ToggledForms, PageKeeps
<1>9. CASE ChangeFails(i)
  BY <1>2, <1>3, <1>9 DEF ChangeFails
<1>10. CASE Unheard(i)
  BY <1>2, <1>3, <1>10 DEF Unheard
<1> QED
  BY <1>4, <1>5, <1>6, <1>7, <1>8, <1>9, <1>10 DEF Answer

-----------------------------------------------------------------------------
LEMMA InitPages == PagesInit => PagesInv
<1> SUFFICES ASSUME PagesInit PROVE PagesInv
  OBVIOUS
<1>1. /\ kind \in Kinds /\ held \subseteq Rows /\ ever = held /\ about = "own"
      /\ items = {} /\ phase = "loading" /\ shown = {} /\ status = "loading" /\ open = {}
      /\ spoiled = FALSE /\ acts = 0
      /\ req = [i \in Slots |-> IF i = 1 THEN ListOf("own") ELSE Free]
  BY DEF PagesInit
<1>2. ListOf("own") \in Requests /\ ListOf("own").op = "list" /\ ListOf("own").rows = {}
  <2> DEFINE q == Request("list", NoId, CHOOSE c \in Contents : TRUE)
  <2>1. q \in Requests /\ q.op = "list" /\ q.rows = {}
    BY <1>1, SomeContents DEF Request, Requests, RequestKinds, Lists
  <2>2. [q EXCEPT !.of = "own"] \in Requests /\ [q EXCEPT !.of = "own"].op = "list"
        /\ [q EXCEPT !.of = "own"].rows = {}
    BY <2>1 DEF Requests, Lists
  <2> QED
    BY <2>2 DEF ListOf
<1>3. req \in [Slots -> Requests \cup {Free}]
      /\ \A i \in Slots : req[i] # Free => req[i].op = "list" /\ req[i].rows = {}
  BY <1>1, <1>2
<1>4. PagesTypeOK
  <2>1. 0 \in 0..MaxActs /\ "own" \in Lists /\ "loading" \in Phases
    BY PagesAssumption DEF Lists, Phases
  <2>2. \A i \in Busy : req[i].op = "list"
    BY <1>3 DEF Busy
  <2> QED
    BY <1>1, <1>3, <2>1, <2>2 DEF PagesTypeOK
<1> QED
  BY <1>1, <1>3, <1>4 DEF PagesInv, Offered, AnswersWereHeld, ShownWasHeld, Busy

LEMMA StepKeepsPages == PagesInv /\ [PagesNext]_pageVars => PagesInv'
<1> SUFFICES ASSUME PagesInv, [PagesNext]_pageVars PROVE PagesInv'
  OBVIOUS
<1>1. CASE UNCHANGED pageVars
  BY <1>1 DEF pageVars, PagesInv, PagesTypeOK, Offered, AnswersWereHeld, ShownWasHeld, Busy, Changes
<1>2. CASE PagesNext
  BY <1>2, UserKeeps, ChangeKeeps, ServeKeeps, AnswerKeeps, OthersKeep, RenderKeeps DEF PagesNext
<1> QED
  BY <1>1, <1>2

LEMMA PagesInvHolds == PagesSpec => []PagesInv
BY InitPages, StepKeepsPages, PTL DEF PagesSpec

\* A page has in progress only what it offers, and all it holds are rows.
THEOREM PagesTypeCorrect == PagesSpec => []PagesTypeOK
<1>1. PagesInv => PagesTypeOK
  BY DEF PagesInv
<1> QED
  BY <1>1, PagesInvHolds, PTL

\* No page shows, or is about to, a row with contents that the service never
\* held for it.
THEOREM NothingInvented == PagesSpec => []ShownWasHeld
<1>1. PagesInv => ShownWasHeld
  BY DEF PagesInv
<1> QED
  BY <1>1, PagesInvHolds, PTL

-----------------------------------------------------------------------------
(* What a page shows is what its service holds, once nothing is in         *)
(* progress: while something is, the items of the page's state differ from *)
(* the service's by the changes under way, and what is rendered lags.      *)

IdsOf(rows) == {r.id : r \in rows}

\* Open modals, and forms whose modal is still to be shut, are on the page.
OpenFit == \A f \in open : Present(f, shown, status) /\ (f.op = "add" <=> f.id = NoId)
ModalsFit == \A i \in Busy : req[i].modal /\ req[i].live => Present(req[i], shown, status)

\* A request names a row that the service held and knows what it is told; a row
\* that was deleted is gone for good.
Sensible(i) ==
    /\ req[i].op \in {"add", "edit", "grant"} => (req[i].op = "add" <=> req[i].id = NoId)
    /\ req[i].op \in {"edit", "delete"} => req[i].id \in IdsOf(ever)
    /\ req[i].stage = "sent" => req[i].rows = {}
    /\ req[i].op = "delete" /\ req[i].stage = "done" => req[i].id \notin IdsOf(held)

Named ==
    /\ kind # "inventory" => about = "own"
    /\ OpenFit /\ ModalsFit
    /\ \A i \in Busy : Sensible(i)

\* Unless the page is spoiled, the list it waits for crosses nothing that
\* matters and is the right one, and every change is the page's.
Heeded(i) ==
    /\ req[i].op \notin {"list", "grant"} => req[i].live
    /\ req[i].op = "list" /\ req[i].live =>
           /\ req[i].of = about
           /\ req[i].stage = "done" => req[i].rows = {r \in held : r.of = about}
           /\ \A j \in Busy \ {i} : req[j].op = "grant" \/ (req[j].op = "list" /\ ~req[j].live)
ListsAlone == ~spoiled => \A i \in Busy : Heeded(i)

\* A table that is right but for the changes in progress.
Calm == phase = "table" /\ ~spoiled /\ \A i \in Busy : req[i].op = "list" => ~req[i].live
Changing(a) == \E i \in Busy : req[i].op \in {"edit", "delete"} /\ req[i].id = a
Adding == {i \in Busy : req[i].op = "add"}

ItemsAreHeld == \A r \in items : r.of = about /\ (r \in held \/ Changing(r.id))
HeldIsItem ==
    \A r \in held : r.of = about =>
        \/ r \in items \/ Changing(r.id)
        \/ \E i \in Adding : r \in req[i].rows \/ req[i].stage = "refused"
AddsApart ==
    \A i \in Adding : \A r \in req[i].rows :
        /\ r \in held /\ r.of = about /\ ~Changing(r.id)
        /\ r.id \notin IdsOf(items) /\ r.id \notin IdsOf(shown)
        /\ \A j \in Adding \ {i} : r.id \notin IdsOf(req[j].rows)
DiffersByChanges == Calm => ItemsAreHeld /\ HeldIsItem /\ AddsApart

CalmInv == Named /\ ListsAlone /\ DiffersByChanges

\* The steps of an answer: slot i is left, the other requests go on.
Carries(r, s) ==
    /\ s.op = r.op /\ s.of = r.of /\ s.id = r.id /\ s.stage = r.stage
    /\ s.rows = r.rows /\ s.live = r.live
Leaves(i) == Busy' = Busy \ {i} /\ \A j \in Busy' : Carries(req[j], req'[j])

LEMMA WithoutLeaves ==
    ASSUME PagesInv, NEW i \in Busy, req' = Without(i)
    PROVE  Leaves(i) /\ \A j \in Busy' : req'[j] = req[j]
<1>1. req \in [Slots -> Requests \cup {Free}] /\ i \in Slots
  BY DEF PagesInv, PagesTypeOK, Busy
<1>2. req'[i] = Free /\ \A j \in Slots \ {i} : req'[j] = req[j]
  BY <1>1 DEF Without
<1> QED
  BY <1>2 DEF Leaves, Busy, Carries

\* The modal that an answer flips is on the page.
LEMMA ToggledFit ==
    ASSUME PagesInv, Named, NEW i \in Busy, req[i].op \in {"add", "edit", "grant"}, req[i].live,
           open' = Toggled(i), UNCHANGED <<shown, status>>
    PROVE  OpenFit'
<1>1. \A f \in open : Present(f, shown, status) /\ (f.op = "add" <=> f.id = NoId)
  BY DEF Named, OpenFit
<1>2. ASSUME req[i].modal
      PROVE  /\ Present(FormOf(req[i]), shown, status)
             /\ FormOf(req[i]).op = "add" <=> FormOf(req[i]).id = NoId
  BY <1>2 DEF Named, ModalsFit, Sensible, FormOf, Present
<1>3. \A f \in open' : f \in open \/ (req[i].modal /\ f = FormOf(req[i]))
  BY DEF Toggled, Flip
<1> QED
  BY <1>1, <1>2, <1>3 DEF OpenFit

LEMMA NamedLeaves ==
    ASSUME Named, NEW i, Leaves(i), UNCHANGED <<kind, held, ever, about>>, OpenFit', ModalsFit'
    PROVE  Named'
<1>1. ASSUME NEW j \in Busy' PROVE Sensible(j)'
  <2>1. j \in Busy /\ Carries(req[j], req'[j]) /\ Sensible(j)
    BY DEF Leaves, Named
  <2> QED
    BY <2>1 DEF Carries, Sensible
<1> QED
  BY <1>1 DEF Named

LEMMA ListsLeave ==
    ASSUME ListsAlone, NEW i, Leaves(i), UNCHANGED <<held, about>>, spoiled => spoiled'
    PROVE  ListsAlone'
<1> SUFFICES ASSUME ~spoiled', NEW j \in Busy' PROVE Heeded(j)'
  BY DEF ListsAlone
<1>1. Heeded(j) /\ j \in Busy /\ Busy' \subseteq Busy /\ \A k \in Busy' : Carries(req[k], req'[k])
  BY DEF ListsAlone, Leaves
<1> QED
  BY <1>1 DEF Heeded, Carries

\* An answer that is no change's leaves the differences as they are.
LEMMA DifferenceStays ==
    ASSUME DiffersByChanges, NEW i, Leaves(i), UNCHANGED <<held, about, items, shown>>,
           Calm' => Calm, ~spoiled => req[i].op \notin {"add", "edit", "delete"}
    PROVE  DiffersByChanges'
<1> SUFFICES ASSUME Calm' PROVE (ItemsAreHeld /\ HeldIsItem /\ AddsApart)'
  BY DEF DiffersByChanges
<1>1. Calm /\ ItemsAreHeld /\ HeldIsItem /\ AddsApart /\ req[i].op \notin {"add", "edit", "delete"}
  BY DEF DiffersByChanges, Calm
<1>2. \A j \in Busy' : j \in Busy /\ j # i /\ Carries(req[j], req'[j])
  BY DEF Leaves
<1>3. \A j \in Busy : req[j].op \in {"add", "edit", "delete"} => j \in Busy'
  BY <1>1 DEF Leaves
<1>4. \A a : Changing(a)' <=> Changing(a)
  BY <1>2, <1>3 DEF Changing, Carries
<1>5. Adding' = Adding /\ \A j \in Adding : req'[j].rows = req[j].rows /\ req'[j].stage = req[j].stage
  BY <1>2, <1>3 DEF Adding, Carries
<1>6. ItemsAreHeld' /\ HeldIsItem'
  BY <1>1, <1>4, <1>5 DEF ItemsAreHeld, HeldIsItem
<1>7. AddsApart'
  BY <1>1, <1>4, <1>5 DEF AddsApart
<1> QED
  BY <1>6, <1>7
-----------------------------------------------------------------------------
(* The user.                                                               *)

LEMMA SlotTaken ==
    ASSUME PagesInv, NEW i \in Slots \ Busy, NEW r \in Requests, req' = [req EXCEPT ![i] = r]
    PROVE  /\ Busy' = Busy \cup {i} /\ req'[i] = r
           /\ \A j \in Busy : j # i /\ req'[j] = req[j]
<1>1. req \in [Slots -> Requests \cup {Free}]
  BY DEF PagesInv, PagesTypeOK
<1>2. req'[i] = r /\ \A j \in Slots \ {i} : req'[j] = req[j]
  BY <1>1
<1> QED
  BY <1>2, FreeIsNoRequest DEF Busy

LEMMA ListSays ==
    ASSUME PagesTypeOK, NEW l \in Lists
    PROVE  /\ ListOf(l).of = l /\ ListOf(l).stage = "sent" /\ ListOf(l).live = TRUE
           /\ ListOf(l).modal = FALSE
<1> DEFINE q == Request("list", NoId, CHOOSE c \in Contents : TRUE)
<1>1. q \in Requests /\ q.stage = "sent" /\ q.live = TRUE /\ q.modal = FALSE
  <2>1. q \in Requests
    BY SomeContents, RequestType DEF RequestKinds
  <2>2. q.stage = "sent" /\ q.live = TRUE /\ q.modal = ("list" \in {"add", "edit", "grant"})
    BY DEF Request
  <2>3. ("list" \in {"add", "edit", "grant"}) = FALSE
    OBVIOUS
  <2> HIDE DEF q
  <2> QED
    BY <2>1, <2>2, <2>3, Zenon
<1> HIDE DEF q
<1>2. /\ [q EXCEPT !.of = l].of = l /\ [q EXCEPT !.of = l].stage = "sent"
      /\ [q EXCEPT !.of = l].live = TRUE /\ [q EXCEPT !.of = l].modal = FALSE
  BY <1>1 DEF Requests
<1> QED
  BY <1>2 DEF ListOf, q

LEMMA NoCrossing ==
    ASSUME PagesInv, NEW op, ~Crosses(op, 0), NEW j \in Busy
    PROVE  op = "grant" \/ req[j].op = "grant" \/ (op # "list" /\ req[j].op # "list")
<1>1. j \in Busy \ {0}
  BY DEF Busy, Slots
<1> QED
  BY <1>1 DEF Crosses

\* A request is sent: the rest of the page stays as it is.
LEMMA NamedTakes ==
    ASSUME Named, NEW i, NEW r, Busy' = Busy \cup {i}, req'[i] = r,
           \A j \in Busy : j # i /\ req'[j] = req[j],
           UNCHANGED <<kind, held, ever, shown, status>>, kind # "inventory" => about' = "own",
           OpenFit', r.modal /\ r.live => Present(r, shown, status),
           r.stage = "sent" /\ r.rows = {},
           r.op \in {"add", "edit", "grant"} => (r.op = "add" <=> r.id = NoId),
           r.op \in {"edit", "delete"} => r.id \in IdsOf(ever)
    PROVE  Named'
<1>1. \A j \in Busy : Sensible(j) /\ (req[j].modal /\ req[j].live => Present(req[j], shown, status))
  BY DEF Named, ModalsFit
<1>2. ModalsFit'
  BY <1>1 DEF ModalsFit
<1>3. ASSUME NEW j \in Busy' PROVE Sensible(j)'
  <2>1. CASE j = i
    BY <2>1 DEF Sensible
  <2>2. CASE j \in Busy
    BY <1>1, <2>2 DEF Sensible
  <2> QED
    BY <2>1, <2>2
<1> QED
  BY <1>2, <1>3 DEF Named

LEMMA CalmSend ==
    ASSUME PagesInv, CalmInv, NEW op \in {"add", "edit", "delete", "grant"},
           NEW a \in Ids \cup {NoId}, NEW c \in Contents, Send(Request(op, a, c)),
           op = "add" <=> a = NoId, status = "table", a = NoId \/ a \in IdsOf(shown)
    PROVE  CalmInv'
<1> DEFINE r == Request(op, a, c)
<1>1. /\ r \in Requests /\ r.op = op /\ r.rows = {} /\ r.of = about /\ r.id = a
      /\ r.stage = "sent" /\ r.live = TRUE /\ r.modal = (op \in {"add", "edit", "grant"})
  <2>1. PagesTypeOK /\ op \in RequestKinds
    BY DEF PagesInv, RequestKinds
  <2>2. r \in Requests /\ r.op = op /\ r.rows = {}
    BY <2>1, RequestType
  <2>3. /\ r.of = about /\ r.id = a /\ r.stage = "sent" /\ r.live = TRUE
        /\ r.modal = (op \in {"add", "edit", "grant"})
    BY DEF Request
  <2> QED
    BY <2>2, <2>3, Zenon
<1>2. PICK i \in Slots \ Busy : req' = [req EXCEPT ![i] = r]
  BY DEF Send
<1>3. /\ spoiled' = (spoiled \/ Crosses(op, 0))
      /\ UNCHANGED <<kind, held, ever, about, items, phase, shown, status, open>>
  BY <1>1 DEF Send
<1> HIDE DEF r
<1>4. /\ Busy' = Busy \cup {i} /\ req'[i] = r /\ i \notin Busy
      /\ \A j \in Busy : j # i /\ req'[j] = req[j]
  BY <1>1, <1>2, SlotTaken
<1>5. Named'
  <2>1. Present(r, shown, status)
    BY <1>1 DEF Present, IdsOf
  <2>2. op \in {"edit", "delete"} => a \in IdsOf(ever)
    BY DEF IdsOf, PagesInv, ShownWasHeld
  <2>3. OpenFit' /\ Named
    BY <1>3 DEF CalmInv, Named, OpenFit
  <2>4. kind # "inventory" => about' = "own"
    BY <1>3 DEF CalmInv, Named
  <2> QED
    BY <1>1, <1>3, <1>4, <2>1, <2>2, <2>3, <2>4, NamedTakes
<1>6. ListsAlone'
  <2> SUFFICES ASSUME ~spoiled', NEW j \in Busy' PROVE Heeded(j)'
    BY DEF ListsAlone
  <2>1. ~spoiled /\ ~Crosses(op, 0)
    BY <1>3
  <2>2. CASE j = i
    BY <1>1, <1>4, <2>2 DEF Heeded
  <2>3. CASE j \in Busy
    <3>1. Heeded(j)
      BY <2>1, <2>3 DEF CalmInv, ListsAlone
    <3>2. req[j].op = "list" => op = "grant"
      BY <2>1, <2>3, NoCrossing
    <3> QED
      BY <1>1, <1>3, <1>4, <2>3, <3>1, <3>2 DEF Heeded
  <2> QED
    BY <1>4, <2>2, <2>3
<1>7. DiffersByChanges'
  <2> SUFFICES ASSUME Calm' PROVE (ItemsAreHeld /\ HeldIsItem /\ AddsApart)'
    BY DEF DiffersByChanges
  <2>1. Calm /\ ItemsAreHeld /\ HeldIsItem /\ AddsApart
    BY <1>3, <1>4 DEF Calm, CalmInv, DiffersByChanges
  <2>2. \A b : /\ Changing(b) => Changing(b)'
               /\ Changing(b)' => Changing(b) \/ b \in IdsOf(shown)
    BY <1>1, <1>4 DEF Changing
  <2>3. /\ Adding \subseteq Adding' /\ \A j \in Adding : j # i /\ req'[j] = req[j]
        /\ \A j \in Adding' : j = i \/ j \in Adding
    BY <1>1, <1>4 DEF Adding
  <2>4. ItemsAreHeld' /\ HeldIsItem'
    BY <1>3, <2>1, <2>2, <2>3 DEF ItemsAreHeld, HeldIsItem
  <2>5. AddsApart'
    <3> SUFFICES ASSUME NEW j \in Adding', NEW s \in req'[j].rows
                 PROVE  /\ s \in held /\ s.of = about /\ ~Changing(s.id)'
                        /\ s.id \notin IdsOf(items) /\ s.id \notin IdsOf(shown)
                        /\ \A k \in Adding' \ {j} : s.id \notin IdsOf(req'[k].rows)
      BY <1>3 DEF AddsApart
    <3>1. j \in Adding /\ s \in req[j].rows /\ IdsOf(req'[i].rows) = {}
      BY <1>1, <1>4, <2>3 DEF IdsOf
    <3> QED
      BY <2>1, <2>2, <2>3, <3>1 DEF AddsApart
  <2> QED
    BY <2>4, <2>5
<1> QED
  BY <1>5, <1>6, <1>7 DEF CalmInv

LEMMA CalmChange ==
    ASSUME PagesInv, CalmInv,
           \/ \E f \in Forms : ToggleModal(f) \/ \E c \in Contents : Submit(f, c)
           \/ \E a \in Ids : Delete(a)
    PROVE  CalmInv'
<1>1. ASSUME NEW f \in Forms, ToggleModal(f) PROVE CalmInv'
  <2>1. /\ UNCHANGED <<kind, held, ever, about, items, phase, shown, status, req, spoiled>>
        /\ open' = Flip(f) /\ Present(f, shown, status) /\ (f.op = "add" <=> f.id = NoId)
    BY <1>1 DEF ToggleModal
  <2>2. OpenFit'
    BY <2>1 DEF OpenFit, CalmInv, Named, Flip
  <2> QED
    BY <2>1, <2>2 DEF CalmInv, Named, ModalsFit, Sensible, ListsAlone, Heeded, DiffersByChanges,
       Calm, ItemsAreHeld, HeldIsItem, AddsApart, Changing, Adding, Busy
<1>2. ASSUME NEW f \in Forms, NEW c \in Contents, Submit(f, c) PROVE CalmInv'
  <2>1. Present(f, shown, status) /\ (f.op = "add" <=> f.id = NoId)
    BY <1>2 DEF Submit, CalmInv, Named, OpenFit
  <2>2. f.op \in {"add", "edit", "grant"} /\ f.id \in Ids \cup {NoId}
    BY DEF Forms
  <2>3. status = "table" /\ (f.id = NoId \/ f.id \in IdsOf(shown))
    BY <2>1 DEF Present, IdsOf
  <2> QED
    BY <1>2, <2>1, <2>2, <2>3, CalmSend DEF Submit
<1>3. ASSUME NEW a \in Ids, Delete(a) PROVE CalmInv'
  <2>1. status = "table" /\ a \in IdsOf(shown) /\ a # NoId
    BY <1>3, PagesAssumption DEF Delete, IdsOf
  <2> QED
    BY <1>3, <2>1, SomeContents, CalmSend DEF Delete
<1> QED
  BY <1>1, <1>2, <1>3

\* A list is asked for: until it arrives the page need not be right.
LEMMA CalmList ==
    ASSUME PagesInv, CalmInv, Refresh \/ \E l \in Lists : SwitchInventory(l)
    PROVE  CalmInv'
<1>1. PICK l \in Lists, i \in Slots \ Busy :
        /\ req' = [req EXCEPT ![i] = ListOf(l)] /\ about' = l
        /\ kind # "inventory" => l = "own"
        /\ spoiled' = Crosses("list", 0)
        /\ UNCHANGED <<kind, held, ever, shown, status, open>>
  <2>1. CASE Refresh
    BY <2>1 DEF Refresh, Lists, CalmInv, Named
  <2>2. ASSUME NEW l \in Lists, SwitchInventory(l)
        PROVE  \E i \in Slots \ Busy : req' = [req EXCEPT ![i] = ListOf(l)]
    BY <2>2 DEF SwitchInventory
  <2> QED
    BY <2>1, <2>2 DEF SwitchInventory
<1> DEFINE r == ListOf(l)
<1>2. /\ r \in Requests /\ r.op = "list" /\ r.rows = {} /\ r.of = l /\ r.stage = "sent"
      /\ r.live = TRUE /\ r.modal = FALSE
  BY ListType, ListSays DEF PagesInv
<1> HIDE DEF r
<1>3. /\ Busy' = Busy \cup {i} /\ req'[i] = r /\ i \notin Busy
      /\ \A j \in Busy : j # i /\ req'[j] = req[j]
  BY <1>1, <1>2, SlotTaken DEF r
<1>4. Named'
  <2>1. OpenFit' /\ Named /\ (kind # "inventory" => about' = "own")
    BY <1>1 DEF CalmInv, Named, OpenFit
  <2>2. /\ r.modal /\ r.live => Present(r, shown, status)
        /\ r.op \in {"add", "edit", "grant"} => (r.op = "add" <=> r.id = NoId)
        /\ r.op \in {"edit", "delete"} => r.id \in IdsOf(ever)
    BY <1>2
  <2> QED
    BY <1>1, <1>2, <1>3, <2>1, <2>2, NamedTakes
<1>5. ListsAlone'
  <2> SUFFICES ASSUME ~spoiled', NEW j \in Busy' PROVE Heeded(j)'
    BY DEF ListsAlone
  <2>1. \A k \in Busy : req[k].op = "grant"
    BY <1>1, NoCrossing
  <2> QED
    BY <1>1, <1>2, <1>3, <2>1 DEF Heeded
<1>6. DiffersByChanges'
  BY <1>2, <1>3 DEF DiffersByChanges, Calm
<1> QED
  BY <1>4, <1>5, <1>6 DEF CalmInv

LEMMA CalmMount ==
    ASSUME PagesInv, CalmInv, Mount
    PROVE  CalmInv'
<1>1. PICK i \in Slots \ Busy : req' = [j \in Slots |->
            IF j = i THEN ListOf("own")
            ELSE IF req[j] = Free THEN Free ELSE [req[j] EXCEPT !.live = FALSE]]
  BY DEF Mount
<1>2. /\ about' = "own" /\ phase' = "loading" /\ open' = {}
      /\ spoiled' = \E j \in Busy : req[j].op \notin {"list", "grant"}
      /\ UNCHANGED <<kind, held, ever>>
  BY DEF Mount, Show
<1> DEFINE r == ListOf("own")
<1>3. /\ r \in Requests /\ r.op = "list" /\ r.rows = {} /\ r.of = "own" /\ r.stage = "sent"
      /\ r.live = TRUE /\ r.modal = FALSE
  BY ListType, ListSays DEF PagesInv, Lists
<1>4. req'[i] = r /\ \A j \in Slots \ {i} :
        req'[j] = IF req[j] = Free THEN Free ELSE [req[j] EXCEPT !.live = FALSE]
  BY <1>1
<1> HIDE DEF r
<1>5. ASSUME NEW j \in Busy
      PROVE  /\ j # i /\ j \in Busy' /\ ~req'[j].live /\ req'[j].op = req[j].op /\ req'[j].id = req[j].id
             /\ req'[j].stage = req[j].stage /\ req'[j].rows = req[j].rows
  <2>1. j \in Slots \ {i} /\ req[j] \in Requests /\ req[j] # Free
    BY BusyRequest DEF PagesInv, Busy
  <2>2. req'[j] = [req[j] EXCEPT !.live = FALSE]
    BY <1>4, <2>1
  <2>3. [req[j] EXCEPT !.live = FALSE] \in Requests
    BY <2>1, PageGone
  <2>4. /\ ~[req[j] EXCEPT !.live = FALSE].live
        /\ [req[j] EXCEPT !.live = FALSE].op = req[j].op
        /\ [req[j] EXCEPT !.live = FALSE].id = req[j].id
        /\ [req[j] EXCEPT !.live = FALSE].stage = req[j].stage
        /\ [req[j] EXCEPT !.live = FALSE].rows = req[j].rows
    BY <2>1 DEF Requests
  <2> QED
    BY <2>1, <2>2, <2>3, <2>4, FreeIsNoRequest DEF Busy
<1>6. \A j \in Busy' : j = i \/ j \in Busy
  BY <1>4 DEF Busy
<1>7. Named'
  <2>1. OpenFit' /\ ModalsFit'
    BY <1>2, <1>3, <1>4, <1>5, <1>6 DEF OpenFit, ModalsFit
  <2>2. ASSUME NEW j \in Busy' PROVE Sensible(j)'
    <3>1. CASE j = i
      BY <1>3, <1>4, <3>1 DEF Sensible
    <3>2. CASE j \in Busy
      <4>1. Sensible(j)
        BY <3>2 DEF CalmInv, Named
      <4> QED
        BY <1>2, <1>5, <3>2, <4>1 DEF Sensible
    <3> QED
      BY <1>6, <3>1, <3>2
  <2> QED
    BY <1>2, <2>1, <2>2 DEF Named
<1>8. ListsAlone'
  <2> SUFFICES ASSUME ~spoiled', NEW j \in Busy' PROVE Heeded(j)'
    BY DEF ListsAlone
  <2>1. \A k \in Busy : req[k].op \in {"list", "grant"}
    BY <1>2
  <2> QED
    BY <1>2, <1>3, <1>4, <1>5, <1>6, <2>1 DEF Heeded
<1>9. DiffersByChanges'
  BY <1>2 DEF DiffersByChanges, Calm
<1> QED
  BY <1>7, <1>8, <1>9 DEF CalmInv

-----------------------------------------------------------------------------
(* The service.                                                            *)

\* What serving a request makes of the rows: an addition is a row of its own,
\* and only the row that is edited or deleted changes.
Added(i, r) == req[i].op = "add" /\ r.of = "own" /\ r.id \notin IdsOf(ever)
Served(i) ==
    /\ \A r \in held' \ held :
          \/ Added(i, r) /\ (r \in req'[i].rows \/ req'[i].stage = "refused")
          \/ req[i].op = "edit" /\ r.id = req[i].id /\ r.id \in IdsOf(held)
    /\ \A r \in held \ held' : req[i].op \in {"edit", "delete"} /\ r.id = req[i].id
    /\ \A r \in req'[i].rows : req[i].op = "list" \/ (Added(i, r) /\ r \in held')
    /\ req[i].op = "delete" /\ req'[i].stage = "done" => req[i].id \notin IdsOf(held')
    /\ req[i].op = "list" /\ req'[i].stage = "done" =>
          req'[i].rows = {r \in held : r.of = req[i].of}

LEMMA ServedRequest ==
    ASSUME PagesInv, NEW i \in Slots, Serve(i)
    PROVE  /\ i \in Busy /\ Busy' = Busy /\ \A j \in Busy \ {i} : req'[j] = req[j]
           /\ req'[i].op = req[i].op /\ req'[i].of = req[i].of /\ req'[i].id = req[i].id
           /\ req'[i].live = req[i].live /\ req'[i].modal = req[i].modal
           /\ req[i].stage = "sent" /\ req'[i].stage # "sent"
           /\ Served(i)
<1> DEFINE r == req[i]
           News == IF r.op = "add"
                   THEN {{[of |-> "own", id |-> a, val |-> r.val]} : a \in Ids \ {s.id : s \in ever}}
                   ELSE {IF r.op = "list" THEN {s \in held : s.of = r.of} ELSE {}}
<1>1. i \in Busy /\ r \in Requests /\ r.stage = "sent" /\ r.val \in Contents
      /\ held \subseteq Rows /\ held \subseteq ever
      /\ req \in [Slots -> Requests \cup {Free}]
  BY BusyRequest, RequestFields DEF Serve, PagesInv, PagesTypeOK, AnswersWereHeld
<1>2. PICK new \in News, stage \in {"done", "refused"}, stored \in BOOLEAN :
        /\ stage = "done" => stored \/ (kind = "users" /\ r.op = "edit")
        /\ held' = IF stored THEN Effect(r, new) ELSE held
        /\ req' = [req EXCEPT ![i].stage = stage,
                              ![i].rows = IF stage = "done" THEN new ELSE {}]
  BY DEF Serve
<1>3. /\ r.op = "add" => \E a \in Ids \ IdsOf(ever) : new = {[of |-> "own", id |-> a, val |-> r.val]}
      /\ r.op = "list" => new = {s \in held : s.of = r.of}
      /\ r.op \notin {"add", "list"} => new = {}
  BY DEF IdsOf
<1> DEFINE R == IF stage = "done" THEN new ELSE {}
           q == [r EXCEPT !.stage = stage, !.rows = R]
<1>4. req' = [req EXCEPT ![i] = q]
  BY <1>1, <1>2 DEF PagesInv, PagesTypeOK
<1>5. new \in SUBSET Rows /\ R \in SUBSET Rows
  BY <1>1, <1>3 DEF Rows, Lists
<1>6. Effect(r, new) =
        CASE r.op = "add" -> held \cup new
          [] r.op = "edit" -> (held \ RowsWith(r.id)) \cup Put(r.id, r.val)
          [] r.op = "delete" -> held \ RowsWith(r.id)
          [] OTHER -> held
  BY DEF Effect
<1>7. \A s \in Put(r.id, r.val) : s.id = r.id /\ r.id \in IdsOf(held)
  BY <1>1 DEF Put, RowsWith, IdsOf, Rows
<1>8. \A s : s \in RowsWith(r.id) <=> s \in held /\ s.id = r.id
  BY DEF RowsWith
<1> HIDE DEF r, News, R
<1>9. /\ q \in Requests /\ q.op = r.op /\ q.of = r.of /\ q.id = r.id /\ q.live = r.live
      /\ q.modal = r.modal /\ q.stage = stage /\ q.rows = R
  <2>1. r \in Requests /\ stage \in {"sent", "done", "refused"} /\ R \in SUBSET Rows
    BY <1>1, <1>5
  <2> QED
    BY ONLY <2>1 DEF Requests
<1> HIDE DEF q
<1>10. req'[i] = q /\ Busy' = Busy /\ \A j \in Slots \ {i} : req'[j] = req[j]
  <2>1. req'[i] = q /\ \A j \in Slots \ {i} : req'[j] = req[j]
    BY <1>1, <1>4
  <2> QED
    BY <1>1, <1>9, <2>1, FreeIsNoRequest DEF Busy
<1>11. Served(i)
  <2>1. \A s \in new : r.op = "list" \/ (Added(i, s) /\ r.op = "add")
    BY <1>3 DEF Added, r
  <2>2. \A s \in held' \ held :
          \/ r.op = "add" /\ s \in new
          \/ r.op = "edit" /\ s.id = r.id /\ r.id \in IdsOf(held)
    BY <1>2, <1>6, <1>7
  <2>3. \A s \in held \ held' : r.op \in {"edit", "delete"} /\ s.id = r.id
    BY <1>2, <1>6, <1>8
  <2>4. R = IF stage = "done" THEN new ELSE {}
    BY DEF R
  <2>5. r.op = "delete" /\ stage = "done" => r.id \notin IdsOf(held')
    BY <1>2, <1>6, <1>8 DEF IdsOf
  <2>6. r.op = "add" /\ stage = "done" => new \subseteq held'
    BY <1>2, <1>6
  <2>7. \A s \in held' \ held :
          \/ Added(i, s) /\ (s \in R \/ stage = "refused")
          \/ r.op = "edit" /\ s.id = r.id /\ s.id \in IdsOf(held)
    BY <2>1, <2>2, <2>4
  <2>8. \A s \in R : r.op = "list" \/ (Added(i, s) /\ s \in held')
    BY <2>1, <2>4, <2>6
  <2>9. r.op = "list" /\ stage = "done" => R = {s \in held : s.of = r.of}
    BY <1>3, <2>4
  <2> QED
    BY <1>9, <1>10, <2>3, <2>5, <2>7, <2>8, <2>9 DEF Served, r
<1> QED
  BY <1>1, <1>9, <1>10, <1>11 DEF Busy, r

LEMMA CalmServe ==
    ASSUME PagesInv, CalmInv, NEW i \in Slots, Serve(i)
    PROVE  CalmInv'
<1>1. /\ i \in Busy /\ Busy' = Busy /\ \A j \in Busy \ {i} : req'[j] = req[j]
      /\ req'[i].op = req[i].op /\ req'[i].of = req[i].of /\ req'[i].id = req[i].id
      /\ req'[i].live = req[i].live /\ req'[i].modal = req[i].modal
      /\ req[i].stage = "sent" /\ req'[i].stage # "sent"
      /\ Served(i)
  BY ServedRequest
<1>2. /\ UNCHANGED <<kind, about, items, phase, shown, status, open, spoiled>>
      /\ ever' = ever \cup held'
  BY DEF Serve
<1>3. /\ held \subseteq ever /\ shown \cup items \subseteq ever /\ \A j \in Busy : req[j].rows \subseteq ever
      /\ req[i].op = "add" => about = "own"
  BY <1>1 DEF PagesInv, PagesTypeOK, AnswersWereHeld, ShownWasHeld, CalmInv, Named, Changes
<1>4. \A j \in Busy : Sensible(j) /\ (req[j].modal /\ req[j].live => Present(req[j], shown, status))
  BY DEF CalmInv, Named, ModalsFit
<1>5. req[i].rows = {}
  BY <1>1, <1>4 DEF Sensible
<1>6. \A b \in IdsOf(ever) : b \in IdsOf(ever') /\ (b \in IdsOf(held') => b \in IdsOf(held))
  BY <1>1, <1>2 DEF IdsOf, Served, Added
<1>7. Named'
  <2>1. OpenFit' /\ ModalsFit'
    BY <1>1, <1>2, <1>4 DEF CalmInv, Named, OpenFit, ModalsFit, Present
  <2>2. ASSUME NEW j \in Busy PROVE Sensible(j)'
    <3>1. CASE j = i
      BY <1>1, <1>4, <1>6, <3>1 DEF Sensible, Served
    <3>2. CASE j # i
      BY <1>1, <1>4, <1>6, <3>2 DEF Sensible
    <3> QED
      BY <3>1, <3>2
  <2> QED
    BY <1>1, <1>2, <2>1, <2>2 DEF CalmInv, Named
<1>8. ListsAlone'
  <2> SUFFICES ASSUME ~spoiled', NEW j \in Busy PROVE Heeded(j)'
    BY <1>1 DEF ListsAlone
  <2>1. Heeded(j)
    BY <1>2 DEF CalmInv, ListsAlone
  <2>2. req[i].op \in {"list", "grant"} => held' = held
    BY <1>1 DEF Served, Added
  <2>3. req'[j].op = "list" /\ req'[j].live /\ req'[j].stage = "done" =>
          req'[j].rows = {r \in held' : r.of = about}
    BY <1>1, <2>1, <2>2 DEF Heeded, Served
  <2>4. \A k \in Busy : req'[k].op = req[k].op /\ req'[k].live = req[k].live /\ req'[k].of = req[k].of
    BY <1>1
  <2> QED
    BY <1>1, <1>2, <2>1, <2>3, <2>4 DEF Heeded
<1>9. DiffersByChanges'
  <2> SUFFICES ASSUME Calm' PROVE (ItemsAreHeld /\ HeldIsItem /\ AddsApart)'
    BY DEF DiffersByChanges
  <2>1. \A k \in Busy : req'[k].op = req[k].op /\ req'[k].live = req[k].live /\ req'[k].id = req[k].id
    BY <1>1
  <2>2. ItemsAreHeld /\ HeldIsItem /\ AddsApart
    BY <1>1, <1>2, <2>1 DEF Calm, CalmInv, DiffersByChanges
  <2>3. \A b : Changing(b)' <=> Changing(b)
    BY <1>1, <2>1 DEF Changing
  <2>4. Adding' = Adding /\ i \in Busy
    BY <1>1, <2>1 DEF Adding
  <2>5. \A b : req[i].op \in {"edit", "delete"} /\ b = req[i].id => Changing(b)
    BY <1>1 DEF Changing
  <2>6. \A b : Changing(b) => b \in IdsOf(ever)
    BY <1>4 DEF Changing, Sensible
  <2>7. \A r \in held \ held' : Changing(r.id)
    BY <1>1, <2>5 DEF Served
  <2>8. ItemsAreHeld'
    BY <1>2, <2>2, <2>3, <2>7 DEF ItemsAreHeld
  <2>9. HeldIsItem'
    <3> SUFFICES ASSUME NEW r \in held', r.of = about
                 PROVE  \/ r \in items \/ Changing(r.id)
                        \/ \E j \in Adding : r \in req'[j].rows \/ req'[j].stage = "refused"
      BY <1>2, <2>3, <2>4 DEF HeldIsItem
    <3>1. CASE r \in held
      <4>1. ASSUME NEW j \in Adding, r \in req[j].rows \/ req[j].stage = "refused"
            PROVE  r \in req'[j].rows \/ req'[j].stage = "refused"
        <5>1. j # i /\ j \in Busy
          BY <1>1, <1>5, <4>1 DEF Adding
        <5> QED
          BY <1>1, <4>1, <5>1
      <4> QED
        BY <2>2, <3>1, <4>1 DEF HeldIsItem
    <3>2. CASE r \notin held
      BY <1>1, <2>5, <3>2 DEF Served, Added, Adding
    <3> QED
      BY <3>1, <3>2
  <2>10. AddsApart'
    <3> SUFFICES ASSUME NEW j \in Adding, NEW r \in req'[j].rows
                 PROVE  /\ r \in held' /\ r.of = about /\ ~Changing(r.id)
                        /\ r.id \notin IdsOf(items) /\ r.id \notin IdsOf(shown)
                        /\ \A k \in Adding \ {j} : r.id \notin IdsOf(req'[k].rows)
      BY <1>2, <2>3, <2>4 DEF AddsApart
    <3>1. \A k \in Adding \ {i} : req'[k] = req[k] /\ k \in Busy
      BY <1>1 DEF Adding
    <3>2. CASE j = i
      <4>1. req[i].op = "add" /\ Added(i, r) /\ r \in held' /\ r.of = about
        BY <1>1, <1>3, <3>2 DEF Served, Adding, Added
      <4>2. r.id \notin IdsOf(ever)
        BY <4>1 DEF Added
      <4>3. /\ r.id \notin IdsOf(items) /\ r.id \notin IdsOf(shown)
            /\ \A k \in Busy : r.id \notin IdsOf(req[k].rows)
        BY <1>3, <4>2 DEF IdsOf
      <4> QED
        BY <2>6, <3>1, <3>2, <4>1, <4>2, <4>3
    <3>3. CASE j # i
      <4>1. /\ r \in req[j].rows /\ r \in held /\ r.of = about /\ ~Changing(r.id)
            /\ r.id \notin IdsOf(items) /\ r.id \notin IdsOf(shown)
            /\ \A k \in Adding \ {j} : r.id \notin IdsOf(req[k].rows)
        BY <2>2, <3>1, <3>3 DEF AddsApart
      <4>2. r \in held' /\ r.id \in IdsOf(ever)
        BY <1>3, <2>7, <4>1 DEF IdsOf
      <4>3. i \in Adding => r.id \notin IdsOf(req'[i].rows)
        BY <1>1, <4>2 DEF Served, Added, Adding, IdsOf
      <4> QED
        BY <3>1, <4>1, <4>2, <4>3
    <3> QED
      BY <3>2, <3>3
  <2> QED
    BY <2>8, <2>9, <2>10
<1> QED
  BY <1>7, <1>8, <1>9 DEF CalmInv

LEMMA CalmOthers ==
    ASSUME PagesInv, CalmInv, OthersChange
    PROVE  CalmInv'
<1>1. /\ UNCHANGED <<kind, about, shown, status, open, req>>
      /\ ever' = ever \cup held' /\ spoiled' = TRUE
  BY DEF OthersChange
<1>2. PICK r \in held :
        \/ held' = held \ {r}
        \/ \E c \in Contents \ {r.val} : held' = (held \ {r}) \cup {[r EXCEPT !.val = c]}
  BY DEF OthersChange
<1>3. \A c \in Contents : [r EXCEPT !.val = c].id = r.id
  BY DEF PagesInv, PagesTypeOK, Rows
<1>4. IdsOf(held') \subseteq IdsOf(held) /\ IdsOf(ever) \subseteq IdsOf(ever')
  BY <1>1, <1>2, <1>3 DEF IdsOf
<1>5. Named'
  BY <1>1, <1>4 DEF CalmInv, Named, OpenFit, ModalsFit, Sensible, Busy
<1> QED
  BY <1>1, <1>5 DEF CalmInv, ListsAlone, DiffersByChanges, Calm

-----------------------------------------------------------------------------
(* Answers.                                                                *)

LEMMA FitStays ==
    ASSUME Named, NEW i, Leaves(i), \A j \in Busy' : req'[j] = req[j], UNCHANGED <<shown, status>>
    PROVE  ModalsFit' /\ (UNCHANGED open => OpenFit')
BY DEF Named, ModalsFit, OpenFit, Leaves

\* What every answer but an edit's does.
LEMMA AnswerLeaves ==
    ASSUME PagesInv, CalmInv, NEW i \in Busy, req' = Without(i),
           UNCHANGED <<kind, held, ever, about, shown, status>>, spoiled => spoiled',
           OpenFit' \/ UNCHANGED open
    PROVE  Leaves(i) /\ Named' /\ ListsAlone'
<1>1. Leaves(i) /\ \A j \in Busy' : req'[j] = req[j]
  BY WithoutLeaves
<1>2. OpenFit' /\ ModalsFit'
  BY <1>1, FitStays DEF CalmInv
<1> QED
  BY <1>1, <1>2, NamedLeaves, ListsLeave DEF CalmInv

\* Once the page is spoiled, nothing is claimed of it until its next list.
LEMMA SpoiledIsCalm ==
    ASSUME Named', spoiled' = TRUE
    PROVE  CalmInv'
BY DEF CalmInv, ListsAlone, DiffersByChanges, Calm

\* An answer that is neither a list nor a change's leaves the page as calm as it was.
LEMMA CalmStays ==
    ASSUME CalmInv, NEW i \in Busy, Leaves(i), Named', ListsAlone',
           UNCHANGED <<held, about, items, phase, shown, spoiled>>,
           req[i].op = "list" => ~req[i].live,
           ~spoiled => req[i].op \notin {"add", "edit", "delete"}
    PROVE  CalmInv'
<1>1. Calm' => Calm
  BY DEF Calm, Leaves, Carries
<1>2. DiffersByChanges'
  BY <1>1, DifferenceStays DEF CalmInv
<1> QED
  BY <1>2 DEF CalmInv

LEMMA CalmUnheard ==
    ASSUME PagesInv, CalmInv, NEW i \in Slots, Unheard(i)
    PROVE  CalmInv'
<1>1. /\ i \in Busy /\ ~req[i].live /\ req' = Without(i)
      /\ UNCHANGED <<kind, held, ever, about, items, phase, shown, status, open, spoiled>>
  BY DEF Unheard
<1>2. Leaves(i) /\ Named' /\ ListsAlone'
  BY <1>1, AnswerLeaves
<1>3. ~spoiled => req[i].op \in {"list", "grant"}
  BY <1>1 DEF CalmInv, ListsAlone, Heeded
<1> QED
  BY <1>1, <1>2, <1>3, CalmStays

LEMMA CalmListed ==
    ASSUME PagesInv, CalmInv, NEW i \in Slots, Listed(i)
    PROVE  CalmInv'
<1>1. /\ i \in Busy /\ req[i].live /\ req[i].op = "list" /\ req[i].stage = "done"
      /\ UNCHANGED <<kind, held, ever, about, shown, status, open, spoiled>>
      /\ items' = req[i].rows /\ req' = Without(i)
  BY DEF Listed, Answered, Show
<1>2. Leaves(i) /\ Named' /\ ListsAlone'
  BY <1>1, AnswerLeaves
<1>3. ASSUME Calm' PROVE (ItemsAreHeld /\ HeldIsItem /\ AddsApart)'
  <2>1. Heeded(i)
    BY <1>1, <1>3 DEF Calm, CalmInv, ListsAlone
  <2>2. items' = {r \in held : r.of = about} /\ \A j \in Busy' : req'[j].op \in {"grant", "list"}
    BY <1>1, <1>2, <2>1 DEF Heeded, Leaves, Carries
  <2> QED
    BY <1>1, <2>2 DEF ItemsAreHeld, HeldIsItem, AddsApart, Adding
<1> QED
  BY <1>2, <1>3 DEF CalmInv, DiffersByChanges

LEMMA CalmListFails ==
    ASSUME PagesInv, CalmInv, NEW i \in Slots, ListFails(i)
    PROVE  CalmInv'
<1>1. /\ i \in Busy /\ req' = Without(i) /\ spoiled' = TRUE
      /\ UNCHANGED <<kind, held, ever, about, shown, status, open>>
  BY DEF ListFails, Answered
<1>2. Named'
  BY <1>1, AnswerLeaves
<1> QED
  BY <1>1, <1>2, SpoiledIsCalm

LEMMA CalmAdd ==
    ASSUME PagesInv, CalmInv, NEW i \in Slots, AddSucceeds(i)
    PROVE  CalmInv'
<1>1. /\ i \in Busy /\ req[i].live /\ req[i].op = "add" /\ req[i].stage = "done"
      /\ UNCHANGED <<kind, held, ever, about, phase, shown, status, spoiled>>
      /\ items' = items \cup req[i].rows /\ open' = Toggled(i) /\ req' = Without(i)
  BY DEF AddSucceeds, Answered, Appended
<1>2. Leaves(i) /\ \A j \in Busy' : req'[j] = req[j]
  BY <1>1, WithoutLeaves
<1>3. OpenFit'
  BY <1>1, ToggledFit DEF CalmInv
<1>4. Named' /\ ListsAlone'
  BY <1>1, <1>3, AnswerLeaves
<1>5. ASSUME Calm' PROVE (ItemsAreHeld /\ HeldIsItem /\ AddsApart)'
  <2>1. Calm
    BY <1>1, <1>2, <1>5 DEF Calm, Leaves
  <2>2. ItemsAreHeld /\ HeldIsItem /\ AddsApart
    BY <2>1 DEF CalmInv, DiffersByChanges
  <2>3. \A a : Changing(a)' <=> Changing(a)
    BY <1>1, <1>2 DEF Changing, Leaves
  <2>4. /\ i \in Adding /\ Adding' = Adding \ {i}
        /\ \A j \in Adding' : req'[j].rows = req[j].rows /\ req'[j].stage = req[j].stage
    BY <1>1, <1>2 DEF Adding, Leaves
  <2>5. \A r \in req[i].rows : r \in held /\ r.of = about
    BY <2>2, <2>4 DEF AddsApart
  <2>6. ItemsAreHeld'
    BY <1>1, <2>2, <2>3, <2>5 DEF ItemsAreHeld
  <2>7. HeldIsItem'
    BY <1>1, <2>2, <2>3, <2>4 DEF HeldIsItem
  <2>8. AddsApart'
    <3> SUFFICES ASSUME NEW j \in Adding', NEW r \in req'[j].rows
                 PROVE  /\ r \in held /\ r.of = about /\ ~Changing(r.id)'
                        /\ r.id \notin IdsOf(items') /\ r.id \notin IdsOf(shown)
                        /\ \A k \in Adding' \ {j} : r.id \notin IdsOf(req'[k].rows)
      BY <1>1 DEF AddsApart
    <3>1. j \in Adding \ {i} /\ r \in req[j].rows
      BY <2>4
    <3>2. /\ r \in held /\ r.of = about /\ ~Changing(r.id)
          /\ r.id \notin IdsOf(items) /\ r.id \notin IdsOf(shown)
          /\ \A k \in Adding \ {j} : r.id \notin IdsOf(req[k].rows)
      BY <2>2, <3>1 DEF AddsApart
    <3>3. r.id \notin IdsOf(items')
      BY <1>1, <2>4, <3>1, <3>2 DEF IdsOf
    <3> QED
      BY <2>3, <2>4, <3>2, <3>3
  <2> QED
    BY <2>6, <2>7, <2>8
<1> QED
  BY <1>4, <1>5 DEF CalmInv, DiffersByChanges

LEMMA CalmGrant ==
    ASSUME PagesInv, CalmInv, NEW i \in Slots, GrantSucceeds(i)
    PROVE  CalmInv'
<1>1. /\ i \in Busy /\ req[i].live /\ req[i].op = "grant" /\ open' = Toggled(i) /\ req' = Without(i)
      /\ UNCHANGED <<kind, held, ever, about, items, phase, shown, status, spoiled>>
  BY DEF GrantSucceeds, Answered
<1>2. OpenFit'
  BY <1>1, ToggledFit DEF CalmInv
<1>3. Leaves(i) /\ Named' /\ ListsAlone'
  BY <1>1, <1>2, AnswerLeaves
<1> QED
  BY <1>1, <1>3, CalmStays

\* The edit's slot asks for the list that repairs the page.
LEMMA CalmEdit ==
    ASSUME PagesInv, CalmInv, NEW i \in Slots, EditSucceeds(i)
    PROVE  CalmInv'
<1>1. /\ i \in Busy /\ req[i].live /\ req[i].op = "edit" /\ open' = Toggled(i)
      /\ req' = [req EXCEPT ![i] = ListOf("own")] /\ spoiled' = Crosses("list", i)
      /\ UNCHANGED <<kind, held, ever, about, shown, status>>
  BY DEF EditSucceeds, Answered, Repopulated
<1>2. about = "own"
  BY <1>1 DEF PagesInv, PagesTypeOK, CalmInv, Named, Changes
<1> DEFINE r == ListOf("own")
<1>3. /\ r \in Requests /\ r.op = "list" /\ r.rows = {} /\ r.of = "own" /\ r.stage = "sent"
      /\ r.live = TRUE /\ r.modal = FALSE
  BY ListType, ListSays DEF PagesInv, Lists
<1> HIDE DEF r
<1>4. req'[i] = r /\ Busy' = Busy /\ \A j \in Slots \ {i} : req'[j] = req[j]
  <2>1. req \in [Slots -> Requests \cup {Free}]
    BY DEF PagesInv, PagesTypeOK
  <2>2. req'[i] = r /\ \A j \in Slots \ {i} : req'[j] = req[j]
    BY <1>1, <2>1 DEF r
  <2> QED
    BY <1>1, <1>3, <2>2, FreeIsNoRequest DEF Busy
<1>5. \A j \in Busy \ {i} : req'[j] = req[j]
  BY <1>4 DEF Busy
<1>6. Named'
  <2>1. OpenFit'
    BY <1>1, ToggledFit DEF CalmInv
  <2>2. ModalsFit'
    BY <1>1, <1>3, <1>4, <1>5 DEF CalmInv, Named, ModalsFit
  <2>3. ASSUME NEW j \in Busy PROVE Sensible(j)'
    <3>1. CASE j = i
      BY <1>3, <1>4, <3>1 DEF Sensible
    <3>2. CASE j # i
      BY <1>1, <1>5, <3>2 DEF CalmInv, Named, Sensible
    <3> QED
      BY <3>1, <3>2
  <2> QED
    BY <1>1, <1>2, <1>4, <2>1, <2>2, <2>3 DEF Named
<1>7. ListsAlone'
  <2> SUFFICES ASSUME ~spoiled', NEW j \in Busy PROVE Heeded(j)'
    BY <1>4 DEF ListsAlone
  <2>1. \A k \in Busy \ {i} : req[k].op = "grant"
    BY <1>1 DEF Crosses
  <2> QED
    BY <1>1, <1>2, <1>3, <1>4, <1>5, <2>1 DEF Heeded
<1>8. DiffersByChanges'
  BY <1>1, <1>3, <1>4 DEF DiffersByChanges, Calm
<1> QED
  BY <1>6, <1>7, <1>8 DEF CalmInv

\* The page is only right after it if no earlier answer awaited its render.
LEMMA CalmDelete ==
    ASSUME PagesInv, CalmInv, NEW i \in Slots, DeleteAnswered(i)
    PROVE  CalmInv'
<1>1. /\ i \in Busy /\ req[i].op = "delete" /\ req[i].stage \in {"done", "refused"}
      /\ UNCHANGED <<kind, held, ever, about, phase, shown, status, open>>
      /\ spoiled' = (spoiled \/ req[i].stage = "refused" \/ items # shown)
      /\ items' = {r \in shown : r.id # req[i].id} /\ req' = Without(i)
  BY DEF DeleteAnswered, Answered
<1>2. Leaves(i) /\ Named' /\ ListsAlone'
  BY <1>1, AnswerLeaves
<1>3. ASSUME Calm' PROVE (ItemsAreHeld /\ HeldIsItem /\ AddsApart)'
  <2>1. Calm /\ req[i].stage = "done" /\ items' = {r \in items : r.id # req[i].id}
    BY <1>1, <1>2, <1>3 DEF Calm, Leaves, Carries
  <2>2. ItemsAreHeld /\ HeldIsItem /\ AddsApart
    BY <2>1 DEF CalmInv, DiffersByChanges
  <2>3. req[i].id \notin IdsOf(held)
    BY <1>1, <2>1 DEF CalmInv, Named, Sensible
  <2>4. \A a : (Changing(a)' => Changing(a)) /\ (Changing(a) => Changing(a)' \/ a = req[i].id)
    BY <1>2 DEF Changing, Leaves, Carries
  <2>5. Adding' = Adding /\ \A j \in Adding : req'[j].rows = req[j].rows /\ req'[j].stage = req[j].stage
    BY <1>1, <1>2 DEF Adding, Leaves, Carries
  <2>6. ItemsAreHeld'
    BY <1>1, <1>2, <2>1, <2>2, <2>4 DEF ItemsAreHeld
  <2>7. HeldIsItem'
    BY <1>1, <1>2, <2>1, <2>2, <2>3, <2>4, <2>5 DEF HeldIsItem, IdsOf
  <2>8. AddsApart'
    BY <1>1, <1>2, <2>1, <2>2, <2>4, <2>5 DEF AddsApart, IdsOf
  <2> QED
    BY <2>6, <2>7, <2>8
<1> QED
  BY <1>2, <1>3 DEF CalmInv, DiffersByChanges

LEMMA CalmFails ==
    ASSUME PagesInv, CalmInv, NEW i \in Slots, ChangeFails(i)
    PROVE  CalmInv'
<1>1. /\ i \in Busy /\ req[i].op \in {"add", "edit", "delete", "grant"} /\ req' = Without(i)
      /\ spoiled' = (spoiled \/ req[i].op # "grant")
      /\ UNCHANGED <<kind, held, ever, about, items, phase, shown, status, open>>
  BY DEF ChangeFails, Answered
<1>2. Leaves(i) /\ Named' /\ ListsAlone'
  BY <1>1, AnswerLeaves
<1>3. CASE req[i].op = "grant"
  <2>1. spoiled' = spoiled
    BY <1>1, <1>3 DEF PagesInv, PagesTypeOK
  <2> QED
    BY <1>1, <1>2, <1>3, <2>1, CalmStays
<1>4. CASE req[i].op # "grant"
  BY <1>1, <1>2, <1>4, SpoiledIsCalm
<1> QED
  BY <1>3, <1>4

-----------------------------------------------------------------------------
(* A render: the page's state is what it was.                              *)

LEMMA CarriesModal ==
    ASSUME NEW r \in Requests, NEW m \in BOOLEAN
    PROVE  Carries(r, [r EXCEPT !.modal = m]) /\ [r EXCEPT !.modal = m].modal = m
BY DEF Requests, Carries

LEMMA CalmRender ==
    ASSUME PagesInv, CalmInv, Render
    PROVE  CalmInv'
<1>1. /\ UNCHANGED <<kind, held, ever, about, items, phase, spoiled>>
      /\ shown' = items /\ status' = phase /\ open' = {f \in open : Present(f, items, phase)}
  BY DEF Render
<1>2. ASSUME NEW j \in Slots, req[j] # Free
      PROVE  /\ req'[j] # Free /\ Carries(req[j], req'[j])
             /\ req'[j].modal => Present(req'[j], items, phase)
  <2>1. PICK m \in BOOLEAN :
            /\ req[j] \in Requests /\ req'[j] = [req[j] EXCEPT !.modal = m]
            /\ m => Present(req[j], items, phase)
    BY <1>2, RenderedRequest
  <2>2. Carries(req[j], req'[j]) /\ req'[j].modal = m /\ req'[j] \in Requests
    BY <2>1, CarriesModal, ModalGone
  <2> QED
    BY <2>1, <2>2, FreeIsNoRequest DEF Carries, Present
<1>3. /\ Busy' = Busy /\ \A j \in Busy : Carries(req[j], req'[j])
      /\ \A j \in Busy : req'[j].modal => Present(req'[j], items, phase)
  <2>1. \A j \in Slots : req[j] = Free => req'[j] = Free
    BY RenderedRequest
  <2> QED
    BY <1>2, <2>1 DEF Busy
<1>4. Named'
  <2>1. OpenFit' /\ ModalsFit'
    BY <1>1, <1>3 DEF CalmInv, Named, OpenFit, ModalsFit
  <2>2. ASSUME NEW j \in Busy PROVE Sensible(j)'
    BY <1>1, <1>3 DEF CalmInv, Named, Sensible, Carries
  <2> QED
    BY <1>1, <1>3, <2>1, <2>2 DEF CalmInv, Named
<1>5. ListsAlone'
  <2> SUFFICES ASSUME ~spoiled', NEW j \in Busy PROVE Heeded(j)'
    BY <1>3 DEF ListsAlone
  <2>1. Heeded(j)
    BY <1>1 DEF CalmInv, ListsAlone
  <2> QED
    BY <1>1, <1>3, <2>1 DEF Heeded, Carries
<1>6. ASSUME Calm' PROVE (ItemsAreHeld /\ HeldIsItem /\ AddsApart)'
  <2>1. Calm /\ ItemsAreHeld /\ HeldIsItem /\ AddsApart
    BY <1>1, <1>3, <1>6 DEF Calm, Carries, CalmInv, DiffersByChanges
  <2>2. \A a : Changing(a)' <=> Changing(a)
    BY <1>3 DEF Changing, Carries
  <2>3. Adding' = Adding /\ \A j \in Adding : req'[j].rows = req[j].rows /\ req'[j].stage = req[j].stage
    BY <1>3 DEF Adding, Carries
  <2>4. ItemsAreHeld' /\ HeldIsItem'
    BY <1>1, <2>1, <2>2, <2>3 DEF ItemsAreHeld, HeldIsItem
  <2>5. AddsApart'
    BY <1>1, <2>1, <2>2, <2>3 DEF AddsApart
  <2> QED
    BY <2>4, <2>5
<1> QED
  BY <1>4, <1>5, <1>6 DEF CalmInv, DiffersByChanges

-----------------------------------------------------------------------------
LEMMA InitCalm == PagesInit => CalmInv
<1> SUFFICES ASSUME PagesInit PROVE CalmInv
  OBVIOUS
<1>1. /\ about = "own" /\ phase = "loading" /\ open = {}
      /\ req = [i \in Slots |-> IF i = 1 THEN ListOf("own") ELSE Free]
  BY DEF PagesInit
<1>2. PagesTypeOK
  BY InitPages DEF PagesInv
<1>3. /\ ListOf("own").op = "list" /\ ListOf("own").rows = {} /\ ListOf("own").of = "own"
      /\ ListOf("own").stage = "sent" /\ ListOf("own").modal = FALSE
  BY <1>2, ListType, ListSays DEF Lists
<1>4. \A i \in Busy : i = 1 /\ req[i] = ListOf("own")
  BY <1>1 DEF Busy
<1>5. Named
  BY <1>1, <1>3, <1>4 DEF Named, OpenFit, ModalsFit, Sensible
<1>6. ListsAlone /\ DiffersByChanges
  BY <1>1, <1>3, <1>4 DEF ListsAlone, Heeded, DiffersByChanges, Calm
<1> QED
  BY <1>5, <1>6 DEF CalmInv

LEMMA StepKeepsCalm == PagesInv /\ CalmInv /\ [PagesNext]_pageVars => CalmInv'
<1> SUFFICES ASSUME PagesInv, CalmInv, [PagesNext]_pageVars PROVE CalmInv'
  OBVIOUS
<1>1. CASE UNCHANGED pageVars
  BY <1>1 DEF pageVars, CalmInv, Named, OpenFit, ModalsFit, Sensible, ListsAlone, Heeded,
     DiffersByChanges, Calm, ItemsAreHeld, HeldIsItem, AddsApart, Changing, Adding, Busy
<1>2. ASSUME NEW i \in Slots, Answer(i) PROVE CalmInv'
  BY <1>2, CalmListed, CalmListFails, CalmAdd, CalmGrant, CalmEdit, CalmDelete, CalmFails,
     CalmUnheard DEF Answer
<1>3. CASE PagesNext
  BY <1>2, <1>3, CalmMount, CalmList, CalmOthers, CalmChange, CalmServe, CalmRender DEF PagesNext
<1> QED
  BY <1>1, <1>3

\* With nothing in progress but grants and all of it rendered, a table shows
\* exactly what the service holds, unless the page is spoiled: by a failure, by
\* others, by a crossing list, or by a deletion answered before an earlier
\* answer was rendered.
THEOREM CalmPagesAreTrue == PagesSpec => []CalmPageIsTrue
<1>1. CalmInv => CalmPageIsTrue
  <2> SUFFICES ASSUME CalmInv, status = "table", ~spoiled, Rendered,
                      \A i \in Busy : req[i].op = "grant"
               PROVE  shown = {r \in held : r.of = about}
    BY DEF CalmPageIsTrue
  <2>1. ItemsAreHeld /\ HeldIsItem /\ items = shown
    BY DEF CalmInv, DiffersByChanges, Calm, Rendered
  <2>2. (\A a : ~Changing(a)) /\ Adding = {}
    BY DEF Changing, Adding
  <2> QED
    BY <2>1, <2>2 DEF ItemsAreHeld, HeldIsItem
<1>2. PagesSpec => []CalmInv
  BY InitCalm, StepKeepsCalm, PagesInvHolds, PTL DEF PagesSpec
<1> QED
  BY <1>1, <1>2, PTL
=================================================================================
