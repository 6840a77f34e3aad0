--------------------------- MODULE AccountProjections ---------------------------
(***************************************************************************)
(* An account and Trading's copy of it: a user's gil, which Identity       *)
(* keeps, or how many of an item a user has, which Inventory keeps.  One   *)
(* is enough: accounts share no document.                                  *)
(*                                                                         *)
(* Whoever changes an account reads it, stores a new total and then        *)
(* publishes that total, with nothing around the three.  Totals carry      *)
(* nothing to order them by, and what was published may not be what was    *)
(* stored: so Trading's copy may be wrong, until the next change that      *)
(* nothing else overlaps.  A consumer of a purchase that is run again      *)
(* counts as another change; without one, if it had stored its update.     *)
(***************************************************************************)
EXTENDS Integers

CONSTANTS
    Absent,       \* no document
    Amounts,      \* what purchases and grants add
    Balances,     \* what administrators set
    StartingGil,  \* IdentitySettings.StartingGil, and the one that Register announces
    MaxChanges,   \* bound: changes
    Attempts,     \* the retry filter's count
    MaxFaults     \* bound: failed awaits and stops

ASSUME AccountAssumption ==
    /\ Absent \notin Int
    /\ Amounts \subseteq Int /\ Balances \subseteq Nat /\ StartingGil \in Nat
    /\ MaxChanges \in Nat /\ Attempts \in Nat /\ MaxFaults \in Nat

VARIABLES
    side,       \* "gil" or "quantity"
    balance,    \* the total that Identity or Inventory holds
    stamp,      \* the user's concurrency stamp
    changes,    \* by number: what became of each change
    told,       \* totals published so far
    inbox,      \* those not acknowledged yet
    dead,       \* those moved to the error queue
    work,       \* deliveries being handled
    faults,     \* failures so far
    replica,    \* the total that Trading holds
    disturbed   \* whether the copy may be wrong, see CalmCopyIsTrue

Queue == INSTANCE ProjectionHost WITH
    Retries <- Attempts, MaxFailures <- MaxFaults,
    published <- told, queue <- inbox, errors <- dead, tasks <- work, failures <- faults

queueVars == <<told, inbox, dead, work, faults>>
accountVars == <<side, balance, stamp, changes, queueVars, replica, disturbed>>

Numbers == 1..MaxChanges
NotMade == [stage |-> "none"]
Changes == [op : {"register", "seed", "adjust", "set", "delete"}, total : Int,
            found : BOOLEAN, seen : Nat, stage : {"write", "publish", "done", "failed"}]
Pending == {n \in Numbers : changes[n].stage \in {"write", "publish"}}
Totals == [change : Numbers, total : Int]

-----------------------------------------------------------------------------
(* Identity and Inventory.                                                 *)

\* The next change begins: if it overlaps none, its total will put the copy right.
Make(n, op, total, stage) ==
    /\ changes[n] = NotMade /\ \A k \in 1..(n - 1) : changes[k] # NotMade
    /\ changes' = [changes EXCEPT ![n] =
         [op |-> op, total |-> total, found |-> balance # Absent, seen |-> stamp,
          stage |-> stage]]
    /\ disturbed' = (Pending # {} \/ inbox # {})

Reach(n, stage) == changes' = [changes EXCEPT ![n].stage = stage]

ValueOf(b) == IF b = Absent THEN 0 ELSE b

\* A new user, or the first administrator, is stored; the id is new.
Register(n) ==
    /\ side = "gil" /\ n = 1
    /\ Make(n, "register", StartingGil, "publish")
    /\ balance' = StartingGil
    /\ UNCHANGED <<side, stamp, queueVars, replica>>

\* When Identity starts, the administrator's gil is read, to be told once more.
Seed(n) ==
    /\ side = "gil" /\ balance # Absent
    /\ Make(n, "seed", balance, "publish")
    /\ UNCHANGED <<side, balance, stamp, queueVars, replica>>

\* A purchase or an administrator's grant reads the account.  Debits are of
\* users with enough gil; the first grant creates the document.
Adjust(n, amount) ==
    /\ IF side = "gil" THEN balance # Absent /\ amount < 0 /\ balance + amount >= 0
       ELSE balance # Absent \/ amount > 0
    /\ Make(n, "adjust", ValueOf(balance) + amount, "write")
    /\ UNCHANGED <<side, balance, stamp, queueVars, replica>>

\* An administrator's PUT or DELETE finds the user.
Administer(n, op, total) ==
    /\ side = "gil" /\ balance # Absent
    /\ Make(n, op, total, "write")
    /\ UNCHANGED <<side, balance, stamp, queueVars, replica>>

\* UserManager compares the stamp.
UserStored(n) ==
    IF changes[n].seen # stamp THEN UNCHANGED <<balance, stamp>>
    ELSE /\ balance' = IF changes[n].op = "delete" THEN Absent ELSE changes[n].total
         /\ stamp' = stamp + 1

\* Documents have none; a second one of the same user and item is never found.
DocumentStored(n) ==
    /\ balance' = IF changes[n].found \/ balance = Absent THEN changes[n].total ELSE balance
    /\ UNCHANGED stamp

Stored(n) == IF side = "gil" THEN UserStored(n) ELSE DocumentStored(n)

\* Validators may refuse what PUT sets.  Its result is ignored, like a conflict.
Store(n) ==
    /\ changes[n].stage = "write"
    /\ \/ Stored(n) /\ UNCHANGED disturbed
       \/ changes[n].op = "set" /\ disturbed' = TRUE /\ UNCHANGED <<balance, stamp>>
    /\ Reach(n, "publish")
    /\ UNCHANGED <<side, queueVars, replica>>

PublishTotal(n) == Queue!Publish([change |-> n, total |-> changes[n].total])

Tell(n) ==
    /\ changes[n].stage = "publish"
    /\ PublishTotal(n)
    /\ Reach(n, "done")
    /\ UNCHANGED <<side, balance, stamp, dead, work, faults, replica, disturbed>>

\* An await throws or the service stops; what it was at may have happened.  A
\* consumer of a purchase that had stored its update skips it when run again.
ChangeStops(n) ==
    /\ n \in Pending
    /\ \/ UNCHANGED <<balance, stamp, told, inbox>>
       \/ changes[n].stage = "write" /\ Stored(n) /\ UNCHANGED <<told, inbox>>
       \/ changes[n].stage = "publish" /\ PublishTotal(n) /\ UNCHANGED <<balance, stamp>>
    /\ Queue!Failure
    /\ Reach(n, "failed")
    /\ disturbed' = TRUE
    /\ UNCHANGED <<side, dead, work, replica>>

-----------------------------------------------------------------------------
(* Trading's UserUpdated and InventoryItemUpdated consumers.               *)

Receive(m) ==
    /\ Queue!Begin(m)
    /\ UNCHANGED <<side, balance, stamp, changes, replica, disturbed>>

\* Mutant: an account that Trading does not know is ignored.
UpdateOnly == IF replica = Absent THEN "ack" ELSE "update"

NextStage == IF replica = Absent THEN "create" ELSE "update"

ReadReplica(t) ==
    /\ t.stage = "read"
    /\ Queue!Advance(t, NextStage)
    /\ UNCHANGED <<side, balance, stamp, changes, told, inbox, dead, faults, replica, disturbed>>

\* A user's _id is the user's id, a document's is its own.
Twice(t) == side = "gil" /\ t.stage = "create" /\ replica # Absent

\* Mutant: the total is taken for what was added.
TotalAdded(t) == ValueOf(replica) + t.msg.total

\* A second document of the same user and item is never found.
ReplicaWith(t) ==
    IF t.stage = "create" /\ replica # Absent THEN replica ELSE t.msg.total

WriteReplica(t) ==
    /\ t.stage \in {"create", "update"} /\ ~Twice(t)
    /\ replica' = ReplicaWith(t)
    /\ Queue!Advance(t, "ack")
    /\ UNCHANGED <<side, balance, stamp, changes, told, inbox, dead, faults, disturbed>>

ConsumeThrows(t) ==
    /\ Queue!Throw(t)
    /\ disturbed' = (disturbed \/ t.msg \in dead')
    /\ UNCHANGED <<side, balance, stamp, changes, told, inbox>>

WriteThrows(t) == Twice(t) /\ ConsumeThrows(t) /\ UNCHANGED <<faults, replica>>

\* An await throws; a write may have happened.
ConsumerFails(t) ==
    /\ t.stage \in {"read", "create", "update"}
    /\ \/ UNCHANGED replica
       \/ t.stage # "read" /\ ~Twice(t) /\ replica' = ReplicaWith(t)
    /\ Queue!Failure
    /\ ConsumeThrows(t)

SettleTotal(t) ==
    /\ Queue!Settle(t)
    /\ UNCHANGED <<side, balance, stamp, changes, replica, disturbed>>

TradingStops ==
    /\ Queue!Stop
    /\ UNCHANGED <<side, balance, stamp, changes, replica, disturbed>>

Step(t) == ReadReplica(t) \/ WriteReplica(t) \/ WriteThrows(t) \/ ConsumerFails(t) \/ SettleTotal(t)

-----------------------------------------------------------------------------
AccountInit ==
    /\ side \in {"gil", "quantity"}
    /\ balance = Absent /\ stamp = 0
    /\ changes = [n \in Numbers |-> NotMade]
    /\ Queue!HostInit
    /\ replica = Absent
    /\ disturbed = FALSE

AccountNext ==
    \/ \E n \in Numbers :
          \/ Register(n) \/ Seed(n)
          \/ \E v \in Amounts : Adjust(n, v)
          \/ \E v \in Balances : Administer(n, "set", v)
          \/ Administer(n, "delete", 0)
          \/ Store(n) \/ Tell(n) \/ ChangeStops(n)
    \/ \E m \in inbox : Receive(m)
    \/ \E t \in work : Step(t)
    \/ TradingStops

AccountSpec == AccountInit /\ [][AccountNext]_accountVars

\* The broker delivers and an await ends.
AccountFairness ==
    /\ WF_accountVars(\E m \in inbox : Receive(m))
    /\ WF_accountVars(\E t \in work : Step(t))

-----------------------------------------------------------------------------
AccountTypeOK ==
    /\ side \in {"gil", "quantity"}
    /\ balance \in Int \cup {Absent} /\ replica \in Int \cup {Absent}
    /\ stamp \in Nat
    /\ changes \in [Numbers -> Changes \cup {NotMade}]
    /\ told \subseteq Totals /\ inbox \subseteq told /\ dead \subseteq told
    /\ work \subseteq [msg : inbox, stage : {"read", "create", "update", "ack"},
                       tries : 0..Attempts]
    /\ faults \in 0..MaxFaults
    /\ disturbed \in BOOLEAN

\* StoreController: a user it does not know gets no answer, an item that it
\* does not know is not owned.
StoreShows ==
    IF replica # Absent THEN replica ELSE IF side = "quantity" THEN 0 ELSE Absent

Registered == side = "quantity" \/ told # {}

(* With every change answered and every total consumed, the store shows    *)
(* the account as it is (0 gil for a user who is gone): unless something   *)
(* failed, was refused or overlapped another change since the last change  *)
(* that began when all was quiet.  So one undisturbed change, or one start *)
(* of Identity for its administrator, repairs whatever lost, reordered or  *)
(* contradicting totals left behind (UserUpdatedConsumer,                  *)
(* InventoryItemUpdatedConsumer, UsersController, ItemsController).        *)
CalmCopyIsTrue ==
    (~disturbed /\ Pending = {} /\ inbox = {}) =>
        StoreShows = IF Registered THEN ValueOf(balance) ELSE Absent

(* What Identity or Inventory told is dealt with in the end: all totals    *)
(* consumed and the account known to Trading, or given up on.              *)
TotalsArrive ==
    told # {} ~> inbox = {} /\ (replica # Absent \/ dead # {})
=============================================================================
