--------------------------- MODULE PurchaseFormProofs ---------------------------
(***************************************************************************)
(* Proofs about PurchaseForm, for any quantities, tries, confirmations and *)
(* pushes: its type invariant, that a form sends one purchase at a time,   *)
(* and that what was confirmed once is accepted at most once while Trading *)
(* runs.                                                                   *)
(***************************************************************************)
EXTENDS PurchaseForm, TLAPS

\* The form that is open began the purchase n, which is still being sent.
Mine(n) == n \in InProgress /\ chain[n].live

\* A form that is gone has no purchase of its own left; the open form has no
\* second one unless a status told it of a fault, since its button stays disabled.
OneOfMine ==
    /\ \A n \in Purchases : Mine(n) => modal
    /\ ~form.faulted => \A m, n \in Purchases : Mine(m) /\ Mine(n) => m = n

\* All requests of a purchase carry the id drawn when it was confirmed, and of
\* each id one request was accepted since Trading started.
IdsFixed ==
    /\ \A t \in posts \cup accepted : t.id = IdempotencyId(t.id[1])
    /\ \A s, t \in accepted : s.id = t.id /\ s.run = t.run => s = t

FormInv == FormTypeOK /\ OneOfMine /\ OnePurchaseAtATime /\ IdsFixed

-----------------------------------------------------------------------------
(* The modal.                                                              *)

\* A chain in progress is a record with all its fields.
LEMMA RunningChain ==
    ASSUME FormTypeOK, NEW n \in Purchases, chain[n].stage \in Running
    PROVE  /\ chain[n].tries \in 1..Tries /\ chain[n].live \in BOOLEAN
           /\ chain[n].qty \in Quantities /\ chain[n].last \in Quantities
           /\ chain[n].confirmed \in Quantities
           /\ chain[n] \in [stage : Running, tries : 1..Tries, live : BOOLEAN,
                            qty : Quantities, last : Quantities, confirmed : Quantities]
<1>1. chain[n] \in Chains
  BY DEF FormTypeOK
<1>2. Over \cap Running = {} /\ "none" \notin Running
  BY DEF Running, Over
<1> QED
  BY <1>1, <1>2 DEF Chains, NoChain

\* A purchase loses its form.
LEMMA OrphanedType ==
    ASSUME FormTypeOK, NEW n \in Purchases, chain[n] # NoChain
    PROVE  Orphaned(chain[n]) \in Chains /\ Orphaned(chain[n]).live = FALSE
<1>1. CASE chain[n].stage \in Running
  <2>1. form.qty \in Quantities
    BY DEF FormTypeOK
  <2>2. chain[n] \in [stage : Running, tries : 1..Tries, live : BOOLEAN,
                      qty : Quantities, last : Quantities, confirmed : Quantities]
    BY <1>1, RunningChain
  <2>3. Orphaned(chain[n]) = [chain[n] EXCEPT !.live = FALSE, !.last = form.qty]
    BY <1>1 DEF Orphaned
  <2>4. Orphaned(chain[n]) \in [stage : Running, tries : 1..Tries, live : BOOLEAN,
                               qty : Quantities, last : Quantities, confirmed : Quantities]
        /\ Orphaned(chain[n]).live = FALSE
    BY <2>1, <2>2, <2>3
  <2> QED
    BY <2>4 DEF Chains
<1>2. CASE chain[n].stage \notin Running
  <2>1. chain[n] \in [stage : Over, live : BOOLEAN, confirmed : Quantities]
    BY <1>2 DEF FormTypeOK, Chains
  <2>2. Orphaned(chain[n]) = [chain[n] EXCEPT !.live = FALSE]
    BY <1>2 DEF Orphaned
  <2>3. Orphaned(chain[n]) \in [stage : Over, live : BOOLEAN, confirmed : Quantities]
        /\ Orphaned(chain[n]).live = FALSE
    BY <2>1, <2>2
  <2> QED
    BY <2>3 DEF Chains
<1> QED
  BY <1>1, <1>2

LEMMA FreshFormType ==
    FreshForm \in [qty : Quantities, disabled : BOOLEAN, loading : BOOLEAN, faulted : BOOLEAN]
BY FormAssumption DEF FreshForm

\* Closing the modal leaves no purchase to an open form.
LEMMA UnmountKeeps ==
    ASSUME FormInv, UnmountForm, UNCHANGED <<method, posts, accepted, run>>,
           row' \in BOOLEAN, pushes' \in 0..MaxPushes, closing' \in Nat, refreshes' \in Nat
    PROVE  FormInv'
<1>1. \A n \in Purchases : chain'[n] =
        IF chain[n] # NoChain /\ chain[n].live THEN Orphaned(chain[n]) ELSE chain[n]
  BY DEF UnmountForm
<1>2. \A n \in Purchases : chain'[n] \in Chains /\ ~(chain'[n].stage \in Running /\ chain'[n].live)
  <2> TAKE n \in Purchases
  <2>1. CASE chain[n] # NoChain /\ chain[n].live
    BY <1>1, <2>1, OrphanedType DEF FormInv
  <2>2. CASE ~(chain[n] # NoChain /\ chain[n].live)
    <3>1. chain'[n] = chain[n] /\ chain[n] \in Chains
      BY <1>1, <2>2 DEF FormInv, FormTypeOK
    <3>2. NoChain.stage \notin Running
      BY DEF NoChain, Running
    <3> QED
      BY <2>2, <3>1, <3>2
  <2> QED
    BY <2>1, <2>2
<1>3. chain' \in [Purchases -> Chains]
  BY <1>2 DEF UnmountForm
<1>4. FormTypeOK'
  <2>1. modal' = FALSE /\ link' = "off" /\ form' = FreshForm /\ ghosts' \in BOOLEAN
    BY DEF UnmountForm, FormInv, FormTypeOK
  <2>2. modal' \in BOOLEAN /\ (modal' => row') /\ form' \in [qty : Quantities, disabled : BOOLEAN,
                                                            loading : BOOLEAN, faulted : BOOLEAN]
    BY <2>1, FreshFormType
  <2>3. method' \in HubMethods /\ posts' \subseteq Posts /\ accepted' \subseteq Terms
        /\ run' \in 0..MaxRestarts
    BY DEF FormInv, FormTypeOK
  <2> QED
    BY <1>3, <2>1, <2>2, <2>3 DEF FormTypeOK
<1>5. \A n \in Purchases : ~Mine(n)'
  BY <1>2 DEF Mine, InProgress
<1>6. OneOfMine' /\ OnePurchaseAtATime'
  BY <1>5 DEF OneOfMine, OnePurchaseAtATime, Mine, InProgress
<1> QED
  BY <1>4, <1>6 DEF FormInv, IdsFixed, IdempotencyId

\* Opening it makes a form that began none.
LEMMA MountKeeps ==
    ASSUME FormInv, ~modal, row, MountForm,
           UNCHANGED <<method, row, posts, accepted, run, pushes, refreshes>>, closing' \in Nat
    PROVE  FormInv'
<1>1. FormTypeOK'
  BY FreshFormType DEF FormTypeOK, FormInv, MountForm
<1>2. \A n \in Purchases : ~Mine(n)'
  BY DEF FormInv, OneOfMine, Mine, InProgress, MountForm
<1>3. OneOfMine' /\ OnePurchaseAtATime'
  BY <1>2 DEF OneOfMine, OnePurchaseAtATime, Mine, InProgress
<1> QED
  BY <1>1, <1>3 DEF FormInv, IdsFixed, IdempotencyId

\* What touches neither chains nor form, and leaves the modal in its row.
LEMMA RestKeeps ==
    ASSUME FormInv, UNCHANGED <<method, modal, form, chain, posts, accepted>>,
           run' \in 0..MaxRestarts, row' \in BOOLEAN, modal => row',
           link' \in {"off", "starting", "on"}, ghosts' \in BOOLEAN,
           pushes' \in 0..MaxPushes, closing' \in Nat, refreshes' \in Nat
    PROVE  FormInv'
BY DEF FormInv, FormTypeOK, OneOfMine, Mine, OnePurchaseAtATime, InProgress, IdsFixed, IdempotencyId

LEMMA ModalKeeps ==
    ASSUME FormInv, ToggleByUser \/ ToggleByTimer \/ RefreshEnds \/ LeaveStore \/ Reenter
    PROVE  FormInv'
<1> DEFINE Typed == /\ row \in BOOLEAN /\ (modal => row) /\ run \in 0..MaxRestarts
                     /\ link \in {"off", "starting", "on"} /\ ghosts \in BOOLEAN
                     /\ pushes \in 0..MaxPushes /\ closing \in Nat /\ refreshes \in Nat
<1>0. Typed
  BY DEF FormInv, FormTypeOK
<1>1. CASE ToggleByUser
  BY <1>0, <1>1, UnmountKeeps, MountKeeps DEF ToggleByUser, Toggle
<1>2. CASE ToggleByTimer
  BY <1>0, <1>2, UnmountKeeps, MountKeeps DEF ToggleByTimer, Toggle
<1>3. ASSUME RowGoes, refreshes' \in Nat, UNCHANGED <<method, posts, accepted, run, pushes>>
      PROVE  FormInv'
  <2>1. CASE modal
    BY <1>0, <1>3, <2>1, UnmountKeeps DEF RowGoes
  <2>2. CASE ~modal
    BY <1>0, <1>3, <2>2, RestKeeps DEF RowGoes
  <2> QED
    BY <2>1, <2>2
<1>4. CASE RefreshEnds
  <2>1. refreshes' \in Nat /\ UNCHANGED <<method, posts, accepted, run, pushes>>
    BY <1>0, <1>4 DEF RefreshEnds
  <2>2. CASE UNCHANGED <<row, modal, form, link, ghosts, chain, closing>>
    BY <1>0, <2>1, <2>2, RestKeeps
  <2>3. CASE RowGoes
    BY <2>1, <2>3, <1>3
  <2> QED
    BY <1>4, <2>2, <2>3 DEF RefreshEnds
<1>5. CASE LeaveStore
  BY <1>3, <1>5 DEF LeaveStore
<1>6. CASE Reenter
  BY <1>0, <1>6, RestKeeps DEF Reenter
<1> QED
  BY <1>1, <1>2, <1>4, <1>5, <1>6

-----------------------------------------------------------------------------
(* Purchases.                                                              *)

\* A step of the chain n that begins no purchase and leaves the form alone, or
\* else ends n.
LEMMA ChainKeeps ==
    ASSUME FormInv, NEW n \in Purchases, chain[n].stage \in Running,
           NEW c \in Chains, ChainIs(n, c),
           form' \in [qty : Quantities, disabled : BOOLEAN, loading : BOOLEAN, faulted : BOOLEAN],
           form'.faulted = form.faulted,
           c.stage \in Running => c.live = chain[n].live /\ form' = form,
           form' # form => chain[n].live,
           posts' \subseteq Posts, \A t \in posts' : t.id = IdempotencyId(t.id[1])
    PROVE  FormInv'
<1>1. chain' \in [Purchases -> Chains] /\ chain'[n] = c
      /\ \A m \in Purchases \ {n} : chain'[m] = chain[m]
  BY DEF ChainIs, FormInv, FormTypeOK
<1>2. FormTypeOK'
  BY <1>1 DEF FormTypeOK, FormInv, ChainIs
<1>3. \A m \in Purchases : Mine(m)' => Mine(m)
  BY <1>1 DEF Mine, InProgress
<1>4. OneOfMine'
  BY <1>3 DEF OneOfMine, FormInv, ChainIs
<1>5. ASSUME form' # form, ~form.faulted PROVE \A m \in Purchases : ~Mine(m)'
  <2>1. Mine(n) /\ c.stage \notin Running
    BY <1>5 DEF Mine, InProgress
  <2>2. ~Mine(n)'
    BY <2>1, <1>1 DEF Mine, InProgress
  <2> QED
    BY <2>1, <2>2, <1>3, <1>5 DEF FormInv, OneOfMine
<1>6. OnePurchaseAtATime'
  BY <1>3, <1>5 DEF OnePurchaseAtATime, FormInv, ChainIs, Mine, InProgress
<1>7. IdsFixed'
  BY DEF IdsFixed, FormInv, ChainIs, IdempotencyId
<1> QED
  BY <1>2, <1>4, <1>6, <1>7 DEF FormInv

LEMMA ConfirmKeeps ==
    ASSUME FormInv, NEW n \in Purchases, Confirm(n)
    PROVE  FormInv'
<1> DEFINE c == [stage |-> "sent", tries |-> Tries, live |-> TRUE, qty |-> form.qty,
                 last |-> form.qty, confirmed |-> form.qty]
<1>1. c \in Chains
  BY FormAssumption DEF Chains, Running, FormInv, FormTypeOK
<1>2. chain' \in [Purchases -> Chains] /\ chain'[n] = c
      /\ \A m \in Purchases \ {n} : chain'[m] = chain[m]
  BY <1>1 DEF Confirm, ChainIs, FormInv, FormTypeOK
<1>3. form' = [form EXCEPT !.disabled = TRUE, !.loading = TRUE]
  BY DEF Confirm, Disabled
<1>4. FormTypeOK'
  BY <1>2, <1>3 DEF FormTypeOK, FormInv, Confirm, ChainIs
<1>5. form'.disabled /\ form'.faulted = form.faulted /\ modal'
  BY <1>3 DEF FormInv, FormTypeOK, Confirm, ChainIs
<1>6. \A m \in Purchases \ {n} : Mine(m)' => Mine(m)
  BY <1>2 DEF Mine, InProgress
<1>7. ~form.faulted => \A m \in Purchases : ~Mine(m)
  BY DEF Confirm, FormInv, OnePurchaseAtATime, Mine
<1>8. OneOfMine' /\ OnePurchaseAtATime'
  BY <1>5, <1>6, <1>7 DEF OneOfMine, OnePurchaseAtATime
<1>9. IdsFixed'
  BY DEF IdsFixed, FormInv, Confirm, ChainIs, IdempotencyId
<1> QED
  BY <1>4, <1>8, <1>9 DEF FormInv

LEMMA AttemptKeeps ==
    ASSUME FormInv, NEW n \in Purchases, AttemptEnds(n) \/ Retry(n)
    PROVE  FormInv'
<1>1. chain[n].stage \in Running
  BY DEF AttemptEnds, Take, Succeed, Fail, Retry, Running
<1>2. chain[n] \in [stage : Running, tries : 1..Tries, live : BOOLEAN,
                    qty : Quantities, last : Quantities, confirmed : Quantities]
      /\ chain[n].tries \in 1..Tries
  BY <1>1, RunningChain DEF FormInv
<1>3. \A s \in Over : Ended(n, s) \in Chains /\ Ended(n, s).stage \notin Running
  BY <1>2 DEF Ended, Chains, Running, Over
<1>4. form \in [qty : Quantities, disabled : BOOLEAN, loading : BOOLEAN, faulted : BOOLEAN]
      /\ posts \subseteq Posts /\ \A t \in posts : t.id = IdempotencyId(t.id[1])
  BY DEF FormInv, FormTypeOK, IdsFixed
<1>5. CASE Take(n)
  <2> DEFINE c == [chain[n] EXCEPT !.stage = "taken"]
             t == [id |-> IdempotencyId(n), qty |-> chain[n].qty]
  <2>1. c \in Chains /\ c.live = chain[n].live
    BY <1>2 DEF Chains, Running
  <2>2. t \in Posts /\ t.id = IdempotencyId(t.id[1])
    BY <1>2, FormAssumption DEF Posts, PurchaseIds, IdempotencyId
  <2>3. posts' = posts \cup {t} /\ ChainIs(n, c) /\ form' = form
    BY <1>5 DEF Take
  <2> QED
    BY <1>1, <1>4, <2>1, <2>2, <2>3, ChainKeeps
<1>6. CASE Succeed(n)
  <2>1. ChainIs(n, Ended(n, "answered")) /\ posts' = posts /\ form' = form /\ "answered" \in Over
    BY <1>6 DEF Succeed, Over
  <2> QED
    BY <1>1, <1>3, <1>4, <2>1, ChainKeeps
<1>7. CASE Fail(n) /\ TriesLeft(n) = 0
  <2>1. Alerted \in [qty : Quantities, disabled : BOOLEAN, loading : BOOLEAN, faulted : BOOLEAN]
        /\ Alerted.faulted = form.faulted
    BY <1>4 DEF Alerted
  <2>2. /\ ChainIs(n, Ended(n, "failed")) /\ posts' = posts /\ "failed" \in Over
        /\ form' = IF chain[n].live THEN Alerted ELSE form
    BY <1>7 DEF Fail, Over
  <2> QED
    BY <1>1, <1>3, <1>4, <2>1, <2>2, ChainKeeps
<1>8. CASE Fail(n) /\ TriesLeft(n) # 0
  <2> DEFINE c == [chain[n] EXCEPT !.stage = "wait", !.tries = TriesLeft(n)]
  <2>1. TriesLeft(n) \in 1..Tries
    BY <1>2, <1>8, FormAssumption DEF TriesLeft
  <2>2. c \in Chains /\ c.live = chain[n].live
    BY <1>2, <2>1 DEF Chains, Running
  <2>3. ChainIs(n, c) /\ posts' = posts /\ form' = form
    BY <1>8 DEF Fail
  <2> QED
    BY <1>1, <1>4, <2>2, <2>3, ChainKeeps
<1>9. CASE Retry(n)
  <2> DEFINE q == IF chain[n].live THEN form.qty ELSE chain[n].last
             c == [chain[n] EXCEPT !.stage = "sent", !.qty = q]
  <2>1. q \in Quantities
    BY <1>2, <1>4
  <2>2. c \in Chains /\ c.live = chain[n].live
    BY <1>2, <2>1 DEF Chains, Running
  <2>3. ChainIs(n, c) /\ posts' = posts /\ form' = form
    BY <1>9 DEF Retry
  <2> QED
    BY <1>1, <1>4, <2>2, <2>3, ChainKeeps
<1> QED
  BY <1>5, <1>6, <1>7, <1>8, <1>9 DEF AttemptEnds

\* A request whose id was accepted since Trading started is ignored.
LEMMA AcceptKeeps ==
    ASSUME FormInv, NEW p \in posts, Accept(p)
    PROVE  FormInv'
<1> DEFINE t == [id |-> p.id, qty |-> p.qty, run |-> run]
<1>1. accepted' = accepted \cup {t} /\ \A s \in accepted : ~(s.id = t.id /\ s.run = t.run)
  BY DEF Accept
<1>2. t \in Terms /\ t.id = p.id
  BY DEF FormInv, FormTypeOK, Posts, Terms
<1> HIDE DEF t
<1>3. FormTypeOK'
  BY <1>1, <1>2 DEF Accept, FormInv, FormTypeOK
<1>4. OneOfMine' /\ OnePurchaseAtATime'
  BY DEF Accept, FormInv, OneOfMine, OnePurchaseAtATime, Mine, InProgress
<1>5. IdsFixed'
  <2>1. \A s \in posts' \cup accepted' : s.id = IdempotencyId(s.id[1])
    BY <1>1, <1>2 DEF Accept, FormInv, IdsFixed
  <2>2. \A s, u \in accepted' : s.id = u.id /\ s.run = u.run => s = u
    BY <1>1 DEF FormInv, IdsFixed
  <2> QED
    BY <2>1, <2>2 DEF IdsFixed, IdempotencyId
<1> QED
  BY <1>3, <1>4, <1>5 DEF FormInv

-----------------------------------------------------------------------------
(* What reaches the form.                                                  *)

\* A change of the form that enables the button only by telling of a fault.
LEMMA FormKeeps ==
    ASSUME FormInv, UNCHANGED <<method, row, modal, link, ghosts, chain, posts, accepted, run>>,
           form' \in [qty : Quantities, disabled : BOOLEAN, loading : BOOLEAN, faulted : BOOLEAN],
           form.faulted => form'.faulted,
           form.disabled => form'.disabled \/ form'.faulted,
           pushes' \in 0..MaxPushes, closing' \in Nat, refreshes' \in Nat
    PROVE  FormInv'
<1>1. FormTypeOK'
  BY DEF FormInv, FormTypeOK
<1>2. OneOfMine' /\ OnePurchaseAtATime'
  BY DEF FormInv, OneOfMine, OnePurchaseAtATime, Mine, InProgress
<1>3. IdsFixed'
  BY DEF FormInv, IdsFixed, IdempotencyId
<1> QED
  BY <1>1, <1>2, <1>3 DEF FormInv

LEMMA PushKeeps ==
    ASSUME FormInv, NEW s, Push(s)
    PROVE  FormInv'
<1>1. form \in [qty : Quantities, disabled : BOOLEAN, loading : BOOLEAN, faulted : BOOLEAN]
      /\ closing \in Nat /\ refreshes \in Nat
  BY DEF FormInv, FormTypeOK
<1>2. refreshes' \in Nat /\ pushes' \in 0..MaxPushes
  BY <1>1, FormAssumption DEF Push, FormInv, FormTypeOK
<1>3. CASE method = Handled /\ link = "on" /\ s = "Faulted"
  <2>1. form' = [form EXCEPT !.loading = FALSE, !.disabled = FALSE, !.faulted = TRUE]
        /\ closing' = closing
    BY <1>3 DEF Push, Receive
  <2> QED
    BY <1>1, <1>2, <2>1, FormKeeps DEF Push
<1>4. CASE method = Handled /\ link = "on" /\ s # "Faulted"
  <2>1. form' = [form EXCEPT !.loading = FALSE] /\ closing' = closing + 1
    BY <1>4 DEF Push, Receive
  <2>2. /\ form' \in [qty : Quantities, disabled : BOOLEAN, loading : BOOLEAN, faulted : BOOLEAN]
        /\ form'.faulted = form.faulted /\ form'.disabled = form.disabled
    BY <1>1, <2>1
  <2>3. closing' \in Nat
    BY <1>1, <2>1
  <2> QED
    BY <1>2, <2>2, <2>3, FormKeeps DEF Push
<1>5. CASE ~(method = Handled /\ link = "on")
  BY <1>1, <1>2, <1>5, FormKeeps DEF Push
<1> QED
  BY <1>3, <1>4, <1>5

LEMMA OutsideKeeps ==
    ASSUME FormInv, ChangeQuantity \/ Connect \/ TradingRestart
    PROVE  FormInv'
<1>1. CASE ChangeQuantity
  <2>1. PICK q \in Quantities : form' = [form EXCEPT !.qty = q]
    BY <1>1 DEF ChangeQuantity
  <2>2. /\ UNCHANGED <<method, row, modal, link, ghosts, chain, posts, accepted, run,
                       pushes, closing, refreshes>>
        /\ form \in [qty : Quantities, disabled : BOOLEAN, loading : BOOLEAN, faulted : BOOLEAN]
        /\ pushes \in 0..MaxPushes /\ closing \in Nat /\ refreshes \in Nat
    BY <1>1 DEF ChangeQuantity, FormInv, FormTypeOK
  <2> QED
    BY <2>1, <2>2, FormKeeps
<1>2. CASE Connect
  BY <1>2, RestKeeps DEF Connect, FormInv, FormTypeOK
<1>3. CASE TradingRestart
  <2>1. run' \in 0..MaxRestarts
    BY <1>3, FormAssumption DEF TradingRestart, FormInv, FormTypeOK
  <2> QED
    BY <1>3, <2>1, RestKeeps DEF TradingRestart, FormInv, FormTypeOK
<1> QED
  BY <1>1, <1>2, <1>3

-----------------------------------------------------------------------------
LEMMA InitForm == FormInit => FormInv
<1> SUFFICES ASSUME FormInit PROVE FormInv
  OBVIOUS
<1>1. FormTypeOK
  <2>1. chain \in [Purchases -> Chains]
    BY DEF FormInit, Chains
  <2>2. 0 \in 0..MaxPushes /\ 0 \in 0..MaxRestarts /\ 0 \in Nat
    BY FormAssumption
  <2> QED
    BY <2>1, <2>2, FreshFormType, Zenon DEF FormInit, FormTypeOK
<1>2. \A n \in Purchases : ~Mine(n)
  BY DEF FormInit, Mine, InProgress, NoChain, Running
<1>3. OneOfMine /\ OnePurchaseAtATime
  BY <1>2 DEF OneOfMine, OnePurchaseAtATime, FormInit
<1> QED
  BY <1>1, <1>3 DEF FormInv, IdsFixed, FormInit

LEMMA StepKeepsForm == FormInv /\ [FormNext]_formVars => FormInv'
<1> SUFFICES ASSUME FormInv, [FormNext]_formVars PROVE FormInv'
  OBVIOUS
<1>1. CASE UNCHANGED formVars
  BY <1>1, RestKeeps DEF formVars, FormInv, FormTypeOK
<1>2. CASE FormNext
  BY <1>2, ModalKeeps, OutsideKeeps, ConfirmKeeps, AttemptKeeps, AcceptKeeps, PushKeeps
  DEF FormNext
<1> QED
  BY <1>1, <1>2

LEMMA FormInvHolds == FormSpec => []FormInv
BY InitForm, StepKeepsForm, PTL DEF FormSpec

\* Forms, chains of retries and requests stay well formed: no chain goes below
\* one try, and a modal has its row.
THEOREM FormTypeCorrect == FormSpec => []FormTypeOK
<1>1. FormInv => FormTypeOK
  BY DEF FormInv
<1> QED
  BY <1>1, FormInvHolds, PTL

\* A form sends one purchase at a time, unless a status told it of a fault.
THEOREM OneAtATime == FormSpec => []OnePurchaseAtATime
<1>1. FormInv => OnePurchaseAtATime
  BY DEF FormInv
<1> QED
  BY <1>1, FormInvHolds, PTL

\* What the user confirmed once, Trading accepts at most once as long as it
\* runs, however often it is sent and however late it is consumed.  A restart
\* in between may accept it again: the ids are forgotten with the sagas.
THEOREM BoughtOnce == FormSpec => []ConfirmedBuysOnce
<1>1. FormInv => ConfirmedBuysOnce
  BY DEF FormInv, IdsFixed, ConfirmedBuysOnce
<1> QED
  BY <1>1, FormInvHolds, PTL
=================================================================================
