------------------------------ MODULE PurchaseForm ------------------------------
(***************************************************************************)
(* The purchase form in its modal on the store page: one confirmation, up  *)
(* to three POSTs of it, and the statuses that Trading's hub pushes back.  *)
(*                                                                         *)
(* A form's chain of retries, its timer and its hub connection outlive it: *)
(* nothing is cancelled when the modal is closed.  The hub is one object   *)
(* for all connections and addresses the user of the one that came or went *)
(* last, whatever purchase a status is about; the form does not look       *)
(* either.  So a status of anyone's purchase may reach a connected form at *)
(* any time, and its own may not.                                          *)
(* Trading is reduced to what the form can tell: the first POST of an id   *)
(* that it consumes fixes the terms, and later ones are ignored, as long   *)
(* as it runs; its sagas are in memory, so a restart forgets the ids.      *)
(* A request that was published may be consumed at any later time.         *)
(***************************************************************************)
EXTENDS Naturals

CONSTANTS
    Quantities,    \* what may be entered
    Tries,         \* how often a purchase is sent: 3
    HubMethods,    \* the client method that the hub may call
    MaxPurchases,  \* bound: confirmations
    MaxPushes,     \* bound: statuses pushed to this user
    MaxRestarts    \* bound: restarts of Trading

ASSUME FormAssumption ==
    /\ 1 \in Quantities /\ Quantities \subseteq Nat \ {0}
    /\ Tries \in Nat \ {0} /\ MaxPurchases \in Nat /\ MaxPushes \in Nat
    /\ MaxRestarts \in Nat

\* What the form listens to.  The hub calls "ReceiveStatus".
Handled == "ReceivePurchaseStatus"

Purchases == 1..MaxPurchases
\* An idempotency id, by the purchase and the try it was drawn for.
PurchaseIds == Purchases \X (1..Tries)
Posts == [id : PurchaseIds, qty : Quantities]
Terms == [id : PurchaseIds, qty : Quantities, run : 0..MaxRestarts]
Statuses == {"Accepted", "ItemsGranted", "Completed", "Faulted"}

VARIABLES
    method,     \* which method the hub calls
    row,        \* whether the page shows the item's row, with its modal
    modal,      \* whether the modal is open, and so a form mounted
    form,       \* that form's state
    link,       \* its hub connection
    ghosts,     \* whether a form that is gone left a connection behind
    chain,      \* per purchase: what purchaseItem and fetchRetry are doing
    posts,      \* the requests that Trading published
    accepted,   \* the terms of each purchase that Trading accepted, and when
    run,        \* how often Trading was started again
    pushes,     \* statuses pushed to this user
    closing,    \* timers that will toggle the modal
    refreshes   \* lists that the page loads because of a status

formVars == <<method, row, modal, form, link, ghosts, chain, posts, accepted,
              run, pushes, closing, refreshes>>

\* `faulted` says whether the form was ever told that a purchase faulted.
FreshForm == [qty |-> 1, disabled |-> FALSE, loading |-> FALSE, faulted |-> FALSE]
Running == {"sent", "taken", "wait"}
Over == {"answered", "failed"}
NoChain == [stage |-> "none"]
InProgress == {n \in Purchases : chain[n].stage \in Running}

-----------------------------------------------------------------------------
(* The modal.                                                              *)

\* The form is mounted and connects.
MountForm == modal' = TRUE /\ form' = FreshForm /\ link' = "starting"
             /\ UNCHANGED <<ghosts, chain>>

\* What becomes of a purchase whose form goes: it is sent again with the quantity
\* that the form had last.
Orphaned(c) ==
    IF c.stage \in Running THEN [c EXCEPT !.live = FALSE, !.last = form.qty]
    ELSE [c EXCEPT !.live = FALSE]

\* The form is unmounted; nobody stops its chains or the connection.
UnmountForm ==
    /\ modal' = FALSE /\ link' = "off" /\ ghosts' = (ghosts \/ link # "off")
    /\ chain' = [n \in Purchases |->
         IF chain[n] # NoChain /\ chain[n].live THEN Orphaned(chain[n]) ELSE chain[n]]
    /\ form' = FreshForm

Toggle == IF modal THEN UnmountForm ELSE MountForm

\* The user opens or closes the modal.
ToggleByUser ==
    /\ row /\ Toggle
    /\ UNCHANGED <<method, row, posts, accepted, run, pushes, closing, refreshes>>

\* Two seconds after a success, whatever the user did in between.
ToggleByTimer ==
    /\ row /\ closing > 0 /\ closing' = closing - 1
    /\ Toggle
    /\ UNCHANGED <<method, row, posts, accepted, run, pushes, refreshes>>

\* The row goes, with its modal: the timers toggle nothing any more.
RowGoes ==
    /\ row' = FALSE /\ closing' = 0
    /\ IF modal THEN UnmountForm ELSE UNCHANGED <<modal, form, link, ghosts, chain>>

\* A list that a status caused arrives: the row may be gone.
RefreshEnds ==
    /\ refreshes > 0 /\ refreshes' = refreshes - 1
    /\ UNCHANGED <<row, modal, form, link, ghosts, chain, closing>> \/ RowGoes
    /\ UNCHANGED <<method, posts, accepted, run, pushes>>

\* The user leaves the page; the lists it loads change nothing any more.
LeaveStore ==
    /\ row /\ RowGoes
    /\ refreshes' = 0
    /\ UNCHANGED <<method, posts, accepted, run, pushes>>

\* The user enters the page again.
Reenter ==
    /\ ~row /\ row' = TRUE
    /\ UNCHANGED <<method, modal, form, link, ghosts, chain, posts, accepted,
                   run, pushes, closing, refreshes>>

ChangeQuantity ==
    /\ modal
    /\ \E q \in Quantities : form' = [form EXCEPT !.qty = q]
    /\ UNCHANGED <<method, row, modal, link, ghosts, chain, posts, accepted,
                   run, pushes, closing, refreshes>>

-----------------------------------------------------------------------------
(* Purchases.                                                              *)

ChainIs(n, c) ==
    /\ chain' = [chain EXCEPT ![n] = c]
    /\ UNCHANGED <<method, row, modal, link, ghosts, accepted, run, pushes,
                   closing, refreshes>>

Ended(n, s) == [stage |-> s, live |-> chain[n].live, confirmed |-> chain[n].confirmed]

\* Mutant: each try draws an id of its own.
IdOfTry(n) == <<n, chain[n].tries>>

IdempotencyId(n) == <<n, Tries>>

\* Mutant: the button stays as it is.
StillEnabled == [form EXCEPT !.loading = TRUE]

Disabled == [form EXCEPT !.disabled = TRUE, !.loading = TRUE]

\* purchaseItem, once the user said yes to the quantity and total it shows.
Confirm(n) ==
    /\ modal /\ ~form.disabled
    /\ chain[n] = NoChain /\ \A k \in 1..(n - 1) : chain[k] # NoChain
    /\ form' = Disabled
    /\ ChainIs(n, [stage |-> "sent", tries |-> Tries, live |-> TRUE,
                   qty |-> form.qty, last |-> form.qty, confirmed |-> form.qty])
    /\ UNCHANGED posts

\* Trading publishes the request; the answer is under way.
Take(n) ==
    /\ chain[n].stage = "sent"
    /\ posts' = posts \cup {[id |-> IdempotencyId(n), qty |-> chain[n].qty]}
    /\ ChainIs(n, [chain[n] EXCEPT !.stage = "taken"])
    /\ UNCHANGED form

\* Nothing is set: the form waits for a status.
Succeed(n) ==
    /\ chain[n].stage = "taken"
    /\ ChainIs(n, Ended(n, "answered"))
    /\ UNCHANGED <<form, posts>>

TriesLeft(n) == chain[n].tries - 1

\* Mutant: the alert leaves the button as it is.
AlertedOnly == [form EXCEPT !.loading = FALSE]

Alerted == [form EXCEPT !.disabled = FALSE, !.loading = FALSE]

\* Mutant: it gives up one try too late.
FailTooLate(n) ==
    /\ chain[n].stage \in {"sent", "taken"}
    /\ IF chain[n].tries = 0
       THEN /\ form' = IF chain[n].live THEN Alerted ELSE form
            /\ ChainIs(n, Ended(n, "failed"))
       ELSE /\ UNCHANGED form
            /\ ChainIs(n, [chain[n] EXCEPT !.stage = "wait", !.tries = TriesLeft(n)])
    /\ UNCHANGED posts

\* Refused, or request or answer lost.
Fail(n) ==
    /\ chain[n].stage \in {"sent", "taken"}
    /\ IF TriesLeft(n) = 0
       THEN /\ form' = IF chain[n].live THEN Alerted ELSE form
            /\ ChainIs(n, Ended(n, "failed"))
       ELSE /\ UNCHANGED form
            /\ ChainIs(n, [chain[n] EXCEPT !.stage = "wait", !.tries = TriesLeft(n)])
    /\ UNCHANGED posts

\* After five seconds; the body takes the quantity that the form has by now, or
\* had last.
Retry(n) ==
    /\ chain[n].stage = "wait"
    /\ ChainIs(n, [chain[n] EXCEPT !.stage = "sent",
                   !.qty = IF chain[n].live THEN form.qty ELSE chain[n].last])
    /\ UNCHANGED <<form, posts>>

\* The saga takes the first request of an id and ignores the others.
Accept(p) ==
    /\ p \in posts /\ ~\E s \in accepted : s.id = p.id /\ s.run = run
    /\ accepted' = accepted \cup {[id |-> p.id, qty |-> p.qty, run |-> run]}
    /\ UNCHANGED <<method, row, modal, form, link, ghosts, chain, posts, run, pushes,
                   closing, refreshes>>

\* Trading starts again, without its sagas.
TradingRestart ==
    /\ run < MaxRestarts /\ run' = run + 1
    /\ UNCHANGED <<method, row, modal, form, link, ghosts, chain, posts, accepted, pushes,
                   closing, refreshes>>

-----------------------------------------------------------------------------
(* The hub.                                                                *)

\* start succeeds, or fails and is not tried again; automatic reconnection
\* gives up in the end.
Connect ==
    /\ \/ link = "starting" /\ link' \in {"on", "off"}
       \/ link = "on" /\ link' = "off"
    /\ UNCHANGED <<method, row, modal, form, ghosts, chain, posts, accepted, run, pushes,
                   closing, refreshes>>

\* onPurchaseStatusReceived in the mounted form.
Receive(s) ==
    IF s = "Faulted"
    THEN /\ form' = [form EXCEPT !.loading = FALSE, !.disabled = FALSE, !.faulted = TRUE]
         /\ UNCHANGED closing
    ELSE /\ form' = [form EXCEPT !.loading = FALSE]
         /\ closing' = closing + 1

\* SendStatusAsync to this user: all connections get the status, those of gone
\* forms too.  A method that no handler is registered for is dropped.
Push(s) ==
    /\ link = "on" \/ ghosts
    /\ pushes < MaxPushes /\ pushes' = pushes + 1
    /\ IF method = Handled /\ link = "on" THEN Receive(s) ELSE UNCHANGED <<form, closing>>
    /\ refreshes' = refreshes +
         (IF method # Handled \/ s = "Faulted" THEN 0
          ELSE (IF link = "on" THEN 1 ELSE 0) + (IF ghosts THEN 1 ELSE 0))
    /\ UNCHANGED <<method, row, modal, link, ghosts, chain, posts, accepted, run>>

FormInit ==
    /\ method \in HubMethods
    /\ row = TRUE /\ modal = FALSE /\ form = FreshForm
    /\ link = "off" /\ ghosts = FALSE
    /\ chain = [n \in Purchases |-> NoChain]
    /\ posts = {} /\ accepted = {} /\ run = 0
    /\ pushes = 0 /\ closing = 0 /\ refreshes = 0

AttemptEnds(n) == Take(n) \/ Succeed(n) \/ Fail(n)

FormNext ==
    \/ ToggleByUser \/ ToggleByTimer \/ RefreshEnds \/ LeaveStore \/ Reenter
    \/ ChangeQuantity
    \/ \E n \in Purchases : Confirm(n) \/ AttemptEnds(n) \/ Retry(n)
    \/ \E p \in posts : Accept(p)
    \/ TradingRestart
    \/ Connect
    \/ \E s \in Statuses : Push(s)

FormSpec == FormInit /\ [][FormNext]_formVars

\* A request is answered or fails, and a timer fires.
FormFairness ==
    \A n \in Purchases : WF_formVars(AttemptEnds(n)) /\ WF_formVars(Retry(n))

-----------------------------------------------------------------------------
Chains ==
    [stage : Running, tries : 1..Tries, live : BOOLEAN, qty : Quantities,
     last : Quantities, confirmed : Quantities]
    \cup [stage : Over, live : BOOLEAN, confirmed : Quantities]
    \cup {NoChain}

FormTypeOK ==
    /\ method \in HubMethods
    /\ row \in BOOLEAN /\ modal \in BOOLEAN /\ (modal => row)
    /\ form \in [qty : Quantities, disabled : BOOLEAN, loading : BOOLEAN,
                 faulted : BOOLEAN]
    /\ link \in {"off", "starting", "on"} /\ ghosts \in BOOLEAN
    /\ chain \in [Purchases -> Chains]
    /\ posts \subseteq Posts /\ accepted \subseteq Terms /\ run \in 0..MaxRestarts
    /\ pushes \in 0..MaxPushes /\ closing \in Nat /\ refreshes \in Nat

(* While a purchase that the open form began is being sent, its button is  *)
(* disabled, so a form sends one purchase at a time: unless a status told  *)
(* it that some purchase faulted, perhaps not its own.                     *)
OnePurchaseAtATime ==
    (modal /\ \E n \in InProgress : chain[n].live) => (form.disabled \/ form.faulted)

(* While Trading runs, however often a request is repeated, arrives twice  *)
(* or late, what the user confirmed once is accepted at most once (the     *)
(* idempotency id that fetchRetry passes on).  After a restart, between    *)
(* two tries or before a redelivery, it may be accepted once more.         *)
ConfirmedBuysOnce ==
    \A s, t \in accepted : s.id[1] = t.id[1] /\ s.run = t.run => s = t

(* A purchase being sent comes to an end: its POST is answered, or its     *)
(* last try fails, and then the form that began it, if it is still there,  *)
(* can be used again (the catch of fetchRetry).  Nothing is said of the    *)
(* form after an answer: it waits for a status, which the hub sends under  *)
(* a name that the form does not listen to (MessageHub.cs, PurchaseForm.js *)
(* componentDidMount).                                                     *)
SendingEnds ==
    \A n \in Purchases :
        n \in InProgress ~>
            \/ chain[n].stage = "answered"
            \/ chain[n].stage = "failed" /\ (chain[n].live => ~form.disabled)

(* What Trading accepts is what the user confirmed: "Purchase 1 ... for    *)
(* ... gil?" (PurchaseForm.js, purchaseItem).                              *)
AcceptedAsConfirmed ==
    \A t \in accepted : t.qty = chain[t.id[1]].confirmed
=============================================================================
