-------------------------------- MODULE ListPage --------------------------------
(***************************************************************************)
(* A page of the frontend that lists what a service holds: Catalog, Users, *)
(* Store or Inventory, with the forms that add, edit and grant.  The four  *)
(* pages are one machine; they differ in their operations and in how they  *)
(* take a refused list.                                                    *)
(*                                                                         *)
(* Requests overlap and are answered in any order, and none is cancelled.  *)
(* An answer changes the state of the page, and React renders it later, so *)
(* several answers may come before a render (createRoot, index.js).  Users *)
(* and deletions see what was rendered last.  A modal flips open and shut; *)
(* it lives with its rendered row and the row with the table.              *)
(* Whoever is at the page is signed in: the inventory of nobody would stay *)
(* at "Loading..." (user.sub of null, outside Inventory's try).            *)
(***************************************************************************)
EXTENDS Naturals

CONSTANTS
    Ids,          \* items or users
    NoId,         \* the target of a request about no row
    Contents,     \* what a row may say
    MaxRequests,  \* bound: requests in progress
    MaxActs       \* bound: what the user and others do

ASSUME PagesAssumption ==
    NoId \notin Ids /\ Contents # {} /\ MaxRequests \in Nat \ {0} /\ MaxActs \in Nat

\* Whose inventory is listed; other pages list what is their "own".
Lists == {"own", "other"}
Rows == [of : Lists, id : Ids, val : Contents]
Kinds == {"catalog", "users", "store", "inventory"}
Phases == {"loading", "table", "error"}

\* The changes that the rows and buttons of a page offer.
CatalogChanges == {"add", "edit", "delete", "grant"}
UsersChanges == {"edit", "delete"}
Changes(k) ==
    CASE k = "catalog" -> CatalogChanges [] k = "users" -> UsersChanges [] OTHER -> {}
Forms == [op : {"add", "edit", "grant"}, id : Ids \cup {NoId}]

RequestKinds == {"list", "add", "edit", "delete", "grant"}
Requests == [op : RequestKinds, of : Lists, id : Ids \cup {NoId}, val : Contents,
             stage : {"sent", "done", "refused"}, rows : SUBSET Rows,
             modal : BOOLEAN, live : BOOLEAN]
Free == [stage |-> "free"]
Slots == 1..MaxRequests

VARIABLES
    kind,     \* which page
    held,     \* what the service holds
    ever,     \* every row it has held so far
    about,    \* whose list the page is headed
    items,    \* items or users of the state, with the updates React has queued
    phase,    \* loading and loadedSuccess of that state
    shown,    \* items or users as rendered last: this.state
    status,   \* loading and loadedSuccess as rendered last
    open,     \* the modals that are open
    req,      \* requests in progress
    spoiled,  \* whether the page may be wrong, see CalmPageIsTrue
    acts      \* what the user and others did so far

pageVars == <<kind, held, ever, about, items, phase, shown, status, open, req,
              spoiled, acts>>

Busy == {i \in Slots : req[i] # Free}

\* Whether the row or table that a form or request belongs to is on the page.
Present(f, rows, s) ==
    s = "table" /\ (f.id = NoId \/ \E r \in rows : r.id = f.id)

\* setState: the next render is to show rows and s.
Show(rows, s) == items' = rows /\ phase' = s

Rendered == items = shown /\ phase = status

\* toggle: it flips, so it opens a modal that the user closed meanwhile.
Flip(f) == IF f \in open THEN open \ {f} ELSE open \cup {f}
FormOf(r) == [op |-> r.op, id |-> r.id]

Request(op, a, c) ==
    [op |-> op, of |-> about, id |-> a, val |-> c, stage |-> "sent", rows |-> {},
     modal |-> op \in {"add", "edit", "grant"}, live |-> TRUE]
ListOf(l) == [Request("list", NoId, CHOOSE c \in Contents : TRUE) EXCEPT !.of = l]

\* An answer may meet the page out of order if a list is in progress together
\* with another list or a change.  A list that crosses none repairs the page.
Crosses(op, i) ==
    \E j \in Busy \ {i} : {op, req[j].op} \cap {"list"} # {} /\ "grant" \notin {op, req[j].op}

Act == acts < MaxActs /\ acts' = acts + 1

-----------------------------------------------------------------------------
(* The user.                                                               *)

\* componentDidMount: the page is left and entered again, or just entered; the
\* requests of the one before go on without it.
Mount ==
    /\ Act
    /\ \E i \in Slots \ Busy :
          req' = [j \in Slots |->
            IF j = i THEN ListOf("own")
            ELSE IF req[j] = Free THEN Free ELSE [req[j] EXCEPT !.live = FALSE]]
    /\ about' = "own" /\ Show({}, "loading")
    /\ shown' = {} /\ status' = "loading" /\ open' = {}
    /\ spoiled' = \E j \in Busy : req[j].op \notin {"list", "grant"}
    /\ UNCHANGED <<kind, held, ever>>

\* Inventory's effect runs again when the user in the link's state changes;
\* the rows stay until an answer replaces them.
SwitchInventory(l) ==
    /\ kind = "inventory" /\ l # about /\ Act
    /\ \E i \in Slots \ Busy : req' = [req EXCEPT ![i] = ListOf(l)]
    /\ about' = l
    /\ spoiled' = Crosses("list", 0)
    /\ UNCHANGED <<kind, held, ever, items, phase, shown, status, open>>

\* Store's updateState, called by a purchase form.
Refresh ==
    /\ kind = "store" /\ status = "table" /\ Act
    /\ \E i \in Slots \ Busy : req' = [req EXCEPT ![i] = ListOf("own")]
    /\ spoiled' = Crosses("list", 0)
    /\ UNCHANGED <<kind, held, ever, about, items, phase, shown, status, open>>

\* A modal covers the page: only it can be closed, and no other be opened.
ToggleModal(f) ==
    /\ f.op \in Changes(kind) /\ (f.op = "add" <=> f.id = NoId)
    /\ Present(f, shown, status)
    /\ f \in open \/ (open = {} /\ Act)
    /\ f \in open => UNCHANGED acts
    /\ open' = Flip(f)
    /\ UNCHANGED <<kind, held, ever, about, items, phase, shown, status, req, spoiled>>

Send(r) ==
    /\ Act
    /\ \E i \in Slots \ Busy : req' = [req EXCEPT ![i] = r]
    /\ spoiled' = (spoiled \/ Crosses(r.op, 0))
    /\ UNCHANGED <<kind, held, ever, about, items, phase, shown, status, open>>

\* Add, Save and Grant; the buttons stay enabled while the request is sent.
Submit(f, c) == f \in open /\ Send(Request(f.op, f.id, c))

\* Mutant: every page has the button.
DeleteAnywhere(a) ==
    /\ open = {}
    /\ status = "table" /\ \E r \in shown : r.id = a
    /\ Send(Request("delete", a, CHOOSE c \in Contents : TRUE))

\* Delete, once the user confirmed it.
Delete(a) ==
    /\ "delete" \in Changes(kind) /\ open = {}
    /\ status = "table" /\ \E r \in shown : r.id = a
    /\ Send(Request("delete", a, CHOOSE c \in Contents : TRUE))

-----------------------------------------------------------------------------
(* The service.                                                            *)

RowsWith(a) == {r \in held : r.id = a}

Put(a, c) == {[r EXCEPT !.val = c] : r \in RowsWith(a)}

\* What a change makes of the rows.
Effect(r, new) ==
    CASE r.op = "add" -> held \cup new
      [] r.op = "edit" -> (held \ RowsWith(r.id)) \cup Put(r.id, r.val)
      [] r.op = "delete" -> held \ RowsWith(r.id)
      [] OTHER -> held

\* A change is refused if its row is gone, and may be for other reasons, even
\* after it was stored (publishing fails); Users' PUT may store nothing.
Serve(i) ==
    /\ i \in Busy /\ req[i].stage = "sent"
    /\ LET r == req[i] IN
       \E new \in IF r.op = "add"
                  THEN {{[of |-> "own", id |-> a, val |-> r.val]} : a \in Ids \ {s.id : s \in ever}}
                  ELSE {IF r.op = "list" THEN {s \in held : s.of = r.of} ELSE {}},
          stage \in {"done", "refused"}, stored \in BOOLEAN :
          /\ r.op \in {"edit", "delete"} /\ RowsWith(r.id) = {} => stage = "refused"
          /\ stage = "done" => stored \/ (kind = "users" /\ r.op = "edit")
          /\ held' = IF stored THEN Effect(r, new) ELSE held
          /\ ever' = ever \cup held'
          /\ req' = [req EXCEPT ![i].stage = stage,
                                ![i].rows = IF stage = "done" THEN new ELSE {}]
    /\ UNCHANGED <<kind, about, items, phase, shown, status, open, spoiled, acts>>

\* Another administrator, a purchase, or an event changes a row.
OthersChange ==
    /\ Act
    /\ \E r \in held :
          \/ held' = held \ {r}
          \/ \E c \in Contents \ {r.val} : held' = (held \ {r}) \cup {[r EXCEPT !.val = c]}
    /\ ever' = ever \cup held'
    /\ spoiled' = TRUE
    /\ UNCHANGED <<kind, about, items, phase, shown, status, open, req>>

-----------------------------------------------------------------------------
(* React.                                                                  *)

\* The queued updates are rendered: the modals of rows that go are unmounted,
\* and the toggle of their forms does nothing any more.
Render ==
    /\ ~Rendered
    /\ shown' = items /\ status' = phase
    /\ open' = {f \in open : Present(f, items, phase)}
    /\ req' = [i \in Slots |->
         IF req[i] = Free THEN Free
         ELSE [req[i] EXCEPT !.modal = @ /\ Present(req[i], items, phase)]]
    /\ UNCHANGED <<kind, held, ever, about, items, phase, spoiled, acts>>

-----------------------------------------------------------------------------
(* Answers.                                                                *)

Without(i) == [req EXCEPT ![i] = Free]

\* An answer that the page acts on, with whether it spoils the page.
Answered(i, op, stages) ==
    /\ i \in Busy /\ req[i].live /\ req[i].op = op /\ req[i].stage \in stages
    /\ UNCHANGED <<kind, held, ever, about, shown, status, acts>>

\* The page that asked is gone.
Unheard(i) ==
    /\ i \in Busy /\ ~req[i].live /\ req[i].stage # "sent"
    /\ req' = Without(i)
    /\ UNCHANGED <<kind, held, ever, about, items, phase, shown, status, open, spoiled, acts>>

Listed(i) ==
    /\ Answered(i, "list", {"done"})
    /\ Show(req[i].rows, "table")
    /\ req' = Without(i)
    /\ UNCHANGED <<open, spoiled>>

\* Mutant: without the catch, the page stays as it is.
ListFailsSilently(i) ==
    /\ Answered(i, "list", {"sent", "done", "refused"})
    /\ req' = Without(i)
    /\ spoiled' = TRUE
    /\ UNCHANGED <<items, phase, open>>

\* No page looks at response.ok: a body that is no JSON ends in catch; Store's
\* error in JSON has no items.
ListFails(i) ==
    /\ Answered(i, "list", {"sent", "done", "refused"})
    /\ \E s \in {"error"} \cup IF kind = "store" /\ req[i].stage = "refused"
                               THEN {"table"} ELSE {} : Show({}, s)
    /\ req' = Without(i)
    /\ spoiled' = TRUE
    /\ UNCHANGED open

\* Mutant: the state is set to the new row alone.
Replaced(rows) == rows

\* addItemToState
Appended(rows) == items \cup rows

Toggled(i) == IF req[i].modal THEN Flip(FormOf(req[i])) ELSE open

AddSucceeds(i) ==
    /\ Answered(i, "add", {"done"})
    /\ items' = Appended(req[i].rows)
    /\ open' = Toggled(i)
    /\ req' = Without(i)
    /\ UNCHANGED <<phase, spoiled>>

GrantSucceeds(i) ==
    /\ Answered(i, "grant", {"done"})
    /\ open' = Toggled(i)
    /\ req' = Without(i)
    /\ UNCHANGED <<items, phase, spoiled>>

\* updateState: populate again.
Repopulated(i) == [req EXCEPT ![i] = ListOf("own")]

\* Mutant: an edit is shown as it was sent, and not loaded again.
EditShownAsSent(i) ==
    /\ Answered(i, "edit", {"done"})
    /\ items' = {IF r.id = req[i].id THEN [r EXCEPT !.val = req[i].val] ELSE r : r \in items}
    /\ open' = Toggled(i)
    /\ req' = Without(i)
    /\ UNCHANGED <<phase, spoiled>>

EditSucceeds(i) ==
    /\ Answered(i, "edit", {"done"})
    /\ open' = Toggled(i)
    /\ req' = Repopulated(i)
    /\ spoiled' = Crosses("list", i)
    /\ UNCHANGED <<items, phase>>

\* Whatever the answer's status says, the row goes: from what was rendered last,
\* so that an earlier answer which still awaits its render is undone.
DeleteAnswered(i) ==
    /\ Answered(i, "delete", {"done", "refused"})
    /\ items' = {r \in shown : r.id # req[i].id}
    /\ req' = Without(i)
    /\ spoiled' = (spoiled \/ req[i].stage = "refused" \/ items # shown)
    /\ UNCHANGED <<phase, open>>

\* An alert: refused, or no answer at all.
ChangeFails(i) ==
    /\ \/ \E op \in {"add", "edit", "grant"} :
             Answered(i, op, {"sent", "done", "refused"})
       \/ Answered(i, "delete", {"sent", "done"})
    /\ req' = Without(i)
    /\ spoiled' = (spoiled \/ req[i].op # "grant")
    /\ UNCHANGED <<items, phase, open>>

Answer(i) ==
    \/ Listed(i) \/ ListFails(i)
    \/ AddSucceeds(i) \/ GrantSucceeds(i) \/ EditSucceeds(i)
    \/ DeleteAnswered(i) \/ ChangeFails(i)
    \/ Unheard(i)

\* The page has just been entered for the first time.
PagesInit ==
    /\ kind \in Kinds
    /\ held \in {R \in SUBSET Rows :
          /\ \A r, s \in R : r.of = s.of /\ r.id = s.id => r = s
          /\ kind # "inventory" => \A r \in R : r.of = "own"}
    /\ ever = held
    /\ about = "own" /\ items = {} /\ phase = "loading"
    /\ shown = {} /\ status = "loading" /\ open = {}
    /\ req = [i \in Slots |-> IF i = 1 THEN ListOf("own") ELSE Free]
    /\ spoiled = FALSE
    /\ acts = 0

PagesNext ==
    \/ Mount \/ Refresh \/ OthersChange \/ Render
    \/ \E l \in Lists : SwitchInventory(l)
    \/ \E f \in Forms : ToggleModal(f) \/ \E c \in Contents : Submit(f, c)
    \/ \E a \in Ids : Delete(a)
    \/ \E i \in Slots : Serve(i) \/ Answer(i)

PagesSpec == PagesInit /\ [][PagesNext]_pageVars

\* A request is served and answered, or fails, and what is queued is rendered;
\* the user and others are not fair.
PagesFairness ==
    /\ \A i \in Slots : WF_pageVars(Serve(i)) /\ WF_pageVars(Answer(i))
    /\ WF_pageVars(Render)

-----------------------------------------------------------------------------
PagesTypeOK ==
    /\ kind \in Kinds /\ about \in Lists
    /\ phase \in Phases /\ status \in Phases
    /\ held \subseteq Rows /\ items \subseteq Rows /\ shown \subseteq Rows /\ ever \subseteq Rows
    /\ open \subseteq Forms
    /\ req \in [Slots -> Requests \cup {Free}]
    /\ spoiled \in BOOLEAN /\ acts \in 0..MaxActs
    /\ \A i \in Busy : req[i].op # "list" => req[i].op \in Changes(kind)

(* No page shows, or is about to, a row with contents the service never    *)
(* held for it, though additions are shown from their answer, changes are  *)
(* refused or lost at any point, lists arrive late, and deletions go back  *)
(* to the last render (addItemToState, updateState, deleteItemFromState).  *)
ShownWasHeld == shown \cup items \subseteq ever

(* With nothing in progress and all of it rendered, a table shows exactly  *)
(* what the service holds for its heading, after any sequence of changes   *)
(* by this page (addItemToState, deleteItemFromState, updateState,         *)
(* populate): unless since its last list something failed, others changed  *)
(* the service, a list crossed another request, or a deletion was answered *)
(* before an earlier answer was rendered.  That last case is what the code *)
(* gets wrong: the filter of this.state.items brings a row back or drops a *)
(* new one.                                                                *)
CalmPageIsTrue ==
    (status = "table" /\ ~spoiled /\ Rendered /\ \A i \in Busy : req[i].op = "grant") =>
        shown = {r \in held : r.of = about}

(* For a signed-in user no page stays at "Loading...": whatever becomes of *)
(* the first list and of the requests that overlap it, a table or an error *)
(* replaces it (populateItems and the catch of each page).                 *)
LoadingEnds == status = "loading" ~> status # "loading"
=============================================================================
