----------------------------- MODULE DebitConsumer -----------------------------
(***************************************************************************)
(* Play.Identity's side of a purchase: DebitGilConsumer on the users of    *)
(* ASP.NET Identity's MongoDB store.                                       *)
(*                                                                         *)
(* The store replaces a user only if its concurrency stamp is still the    *)
(* one that was read, and reports a conflict in the IdentityResult of      *)
(* UpdateAsync, which DebitGilConsumer does not look at.                   *)
(***************************************************************************)
EXTENDS ConsumerHost, FiniteSetsExt

CONSTANTS
    DebitRetries,  \* the retry interval filter's count
    InitialGil     \* gil of the users that exist

ASSUME DebitAssumption ==
    /\ DebitRetries \in Nat
    /\ DOMAIN InitialGil \subseteq Users
    /\ InitialGil \in [DOMAIN InitialGil -> Nat]

VARIABLES users  \* the user store

\* ApplicationUser; a message stands for its MessageId in MessagesIds.
User(gil, seen, stamp) == [gil |-> gil, seen |-> seen, stamp |-> stamp]

UserUpdated(u, gil) == [type |-> "UserUpdated", user |-> u, gil |-> gil]

UserUpdates == [type : {"UserUpdated"}, user : Users, gil : Nat]

Payer(t) == UserOf[t.msg.p]

-----------------------------------------------------------------------------
(* The awaits of Consume.  t is a task of this service, its copy the user  *)
(* in memory with the stamp it was read with.                              *)

Debiting(t, stage) == t.msg.type = "DebitGil" /\ t.stage = stage

\* UnknownUserException and InsufficientFundsException are not retried.
DebitRefused(t) ==
    /\ Debiting(t, "read")
    /\ \/ Payer(t) \notin DOMAIN users
       \/ /\ Payer(t) \in DOMAIN users
          /\ t.msg \notin users[Payer(t)].seen
          /\ users[Payer(t)].gil < t.msg.total
    /\ Throw(t, {}, 0)
    /\ UNCHANGED <<users, failures>>

DebitRead(t) ==
    /\ Debiting(t, "read")
    /\ Payer(t) \in DOMAIN users
    /\ LET user == users[Payer(t)] IN
       \/ t.msg \in user.seen /\ Advance(t, "republish", <<>>)
       \/ /\ t.msg \notin user.seen /\ user.gil >= t.msg.total
          /\ Advance(t, "write",
                     User(user.gil - t.msg.total, user.seen \cup {t.msg}, user.stamp))
    /\ UNCHANGED <<net, sent, users, failures>>

\* Mutants: the debit is not recorded in MessagesIds; the stamp is not compared.
UpdatedUnrecorded(u, copy) ==
    IF users[u].stamp = copy.stamp
    THEN [users EXCEPT ![u].gil = copy.gil, ![u].stamp = @ + 1]
    ELSE users

UpdatedBlindly(u, copy) == [users EXCEPT ![u] = User(copy.gil, copy.seen, copy.stamp + 1)]

\* userManager.UpdateAsync: nothing is stored under another stamp.
Updated(u, copy) ==
    IF users[u].stamp = copy.stamp
    THEN [users EXCEPT ![u] = User(copy.gil, copy.seen, copy.stamp + 1)]
    ELSE users

DebitWrite(t) ==
    /\ Debiting(t, "write")
    /\ users' = Updated(Payer(t), t.copy)
    /\ Advance(t, "publish", t.copy)
    /\ UNCHANGED <<net, sent, failures>>

DebitOut(t) ==
    {Event("GilDebited", t.msg.p)} \cup
    (IF t.stage = "publish" THEN {UserUpdated(Payer(t), t.copy.gil)} ELSE {})

DebitPublish(t) ==
    /\ Debiting(t, "publish") \/ Debiting(t, "republish")
    /\ Publish(DebitOut(t))
    /\ Advance(t, "ack", <<>>)
    /\ UNCHANGED <<users, failures>>

\* An await throws.  The update may have happened all the same; of the publishes
\* awaited together, some.
DebitFails(t) ==
    /\ t.msg.type = "DebitGil"
    /\ Failure
    /\ \/ t.stage = "read" /\ Throw(t, {}, DebitRetries) /\ UNCHANGED users
       \/ /\ t.stage = "write" /\ Throw(t, {}, DebitRetries)
          /\ users' \in {users, Updated(Payer(t), t.copy)}
       \/ /\ t.stage \in {"publish", "republish"}
          /\ \E out \in SUBSET DebitOut(t) : Throw(t, out, DebitRetries)
          /\ UNCHANGED users

DebitTask(t) ==
    \/ DebitRefused(t) \/ DebitRead(t) \/ DebitWrite(t) \/ DebitPublish(t) \/ DebitFails(t)
    \/ t.msg.type = "DebitGil" /\ Settle(t) /\ UNCHANGED users

-----------------------------------------------------------------------------
DebitBegin(m) == m.type = "DebitGil" /\ Begin(m) /\ UNCHANGED users

IdentityStop == Stop({"DebitGil"}) /\ UNCHANGED users

DebitInit == users = [u \in DOMAIN InitialGil |-> User(InitialGil[u], {}, 0)]

DebitNext ==
    \/ \E m \in net : DebitBegin(m)
    \/ \E t \in tasks : DebitTask(t)
    \/ IdentityStop

-----------------------------------------------------------------------------
(* Properties.                                                             *)

\* A user's gil and the debits recorded in MessagesIds account for the gil the
\* user started with: no debit is taken twice, or without a record of it.
GilAddsUp ==
    \A u \in DOMAIN users :
        users[u].gil = InitialGil[u] + MapThenSumSet(Effect, users[u].seen)

\* A recorded debit stays recorded: the concurrency stamp keeps one handler's
\* update from overwriting another's.
DebitsKept ==
    [][\A u \in DOMAIN users : users[u].seen \subseteq users'[u].seen]_users
================================================================================
