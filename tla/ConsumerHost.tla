------------------------------ MODULE ConsumerHost ------------------------------
(***************************************************************************)
(* How MassTransit hosts the consumers of Play.Inventory and Play.Identity:*)
(* Play.Common registers them with a retry filter and without an outbox.   *)
(*                                                                         *)
(* A delivery is handled by a task whose stages are the awaits of Consume; *)
(* tasks of different messages interleave at every stage.  An exception    *)
(* starts Consume again with the same message, or, the retries used up,    *)
(* publishes Fault<T>.  A service that stops or loses its channel forgets  *)
(* its tasks, and their messages are delivered again.                      *)
(***************************************************************************)
EXTENDS PurchaseBus, Integers

CONSTANTS MaxFailures  \* bound: failed awaits and stops of the two services

ASSUME HostAssumption == MaxFailures \in Nat

VARIABLES
    tasks,     \* deliveries being handled
    failures   \* failures so far

Stages == {"read", "write", "publish", "republish", "ack"}

\* copy is the document Consume read and changed in memory.
NewTask(m) == [msg |-> m, stage |-> "read", copy |-> <<>>, tries |-> 0]

\* Mutant: the message is acknowledged on receipt.
BeginAutoAck(m) ==
    /\ \A t \in tasks : t.msg # m
    /\ tasks' = tasks \cup {NewTask(m)}
    /\ Acknowledge(m, {})
    /\ UNCHANGED failures

Begin(m) ==
    /\ \A t \in tasks : t.msg # m
    /\ tasks' = tasks \cup {NewTask(m)}
    /\ UNCHANGED <<net, sent, failures>>

Replace(t, u) == tasks' = (tasks \ {t}) \cup {u}

\* The awaited call returned: on to the next stage.
Advance(t, stage, copy) == Replace(t, [t EXCEPT !.stage = stage, !.copy = copy])

FaultType == [GrantItems   |-> "GrantItemsFaulted",
              SubtractItems |-> "SubtractItemsFaulted",
              DebitGil     |-> "DebitGilFaulted"]

\* Mutant: no fault is published when the retries are used up.
ThrowSilently(t, out, attempts) ==
    IF t.tries < attempts
    THEN /\ Replace(t, [NewTask(t.msg) EXCEPT !.tries = t.tries + 1])
         /\ Publish(out)
    ELSE Advance(t, "ack", <<>>) /\ Publish(out)

\* Consume threw after publishing out; attempts is how often it may be retried.
Throw(t, out, attempts) ==
    IF t.tries < attempts
    THEN /\ Replace(t, [NewTask(t.msg) EXCEPT !.tries = t.tries + 1])
         /\ Publish(out)
    ELSE /\ Advance(t, "ack", <<>>)
         /\ Publish(out \cup {Event(FaultType[t.msg.type], t.msg.p)})

Failure == failures < MaxFailures /\ failures' = failures + 1

\* Mutant: the handler is not forgotten with its message.
SettleOnly(t) ==
    /\ t.stage = "ack"
    /\ Acknowledge(t.msg, {})
    /\ UNCHANGED <<tasks, failures>>

\* The broker sees the acknowledgement.
Settle(t) ==
    /\ t.stage = "ack"
    /\ tasks' = tasks \ {t}
    /\ Acknowledge(t.msg, {})
    /\ UNCHANGED failures

\* The service that consumes the given types stops, or loses its channel.
Stop(types) ==
    /\ \E t \in tasks : t.msg.type \in types
    /\ Failure
    /\ tasks' = {t \in tasks : t.msg.type \notin types}
    /\ UNCHANGED <<net, sent>>

\* What a command recorded in a document adds to the document's amount.
Effect(m) ==
    CASE m.type = "GrantItems" -> m.qty
      [] m.type = "SubtractItems" -> -m.qty
      [] m.type = "DebitGil" -> -m.total
================================================================================
