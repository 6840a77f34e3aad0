----------------------------- MODULE ProjectionHost -----------------------------
(***************************************************************************)
(* How MassTransit runs the consumers that keep a service's copy of        *)
(* another service's data: each reads its document, then writes it.        *)
(*                                                                         *)
(* There is a queue per message type and messages are handled              *)
(* concurrently, so all of them together are a set.  A consumer that       *)
(* throws is started again; when its retries are used up the message goes  *)
(* to the error queue, which nobody reads.  ConsumerHost is the same for   *)
(* the consumers of a purchase, which also publish and fault.              *)
(***************************************************************************)
EXTENDS Naturals

CONSTANTS
    Retries,      \* the retry filter's count
    MaxFailures   \* bound: failed awaits and stops, of the publisher too

ASSUME HostAssumption == Retries \in Nat /\ MaxFailures \in Nat

VARIABLES
    published,  \* every message published so far
    queue,      \* those not acknowledged yet
    errors,     \* those moved to the error queue
    tasks,      \* deliveries being handled
    failures    \* failures so far

hostVars == <<published, queue, errors, tasks, failures>>

Task(m, tries) == [msg |-> m, stage |-> "read", tries |-> tries]

Publish(m) == published' = published \cup {m} /\ queue' = queue \cup {m}

Failure == failures < MaxFailures /\ failures' = failures + 1

\* Mutant: the message is acknowledged on receipt.
BeginAutoAck(m) ==
    /\ \A t \in tasks : t.msg # m
    /\ tasks' = tasks \cup {Task(m, 0)}
    /\ queue' = queue \ {m}
    /\ UNCHANGED <<published, errors, failures>>

Begin(m) ==
    /\ \A t \in tasks : t.msg # m
    /\ tasks' = tasks \cup {Task(m, 0)}
    /\ UNCHANGED <<published, queue, errors, failures>>

Advance(t, stage) == tasks' = (tasks \ {t}) \cup {[t EXCEPT !.stage = stage]}

Throw(t) ==
    \/ /\ t.tries < Retries
       /\ tasks' = (tasks \ {t}) \cup {Task(t.msg, t.tries + 1)}
       /\ UNCHANGED errors
    \/ /\ t.tries >= Retries
       /\ Advance(t, "ack")
       /\ errors' = errors \cup {t.msg}

\* Mutant: the task outlives its message.
SettleOnly(t) ==
    /\ t.stage = "ack"
    /\ queue' = queue \ {t.msg}
    /\ UNCHANGED <<published, errors, tasks, failures>>

\* The broker sees the acknowledgement.
Settle(t) ==
    /\ t.stage = "ack"
    /\ queue' = queue \ {t.msg}
    /\ tasks' = tasks \ {t}
    /\ UNCHANGED <<published, errors, failures>>

\* The service stops or loses its channel: what it did not acknowledge is
\* delivered again.
Stop ==
    /\ tasks # {}
    /\ Failure
    /\ tasks' = {}
    /\ UNCHANGED <<published, queue, errors>>

HostInit == published = {} /\ queue = {} /\ errors = {} /\ tasks = {} /\ failures = 0
================================================================================
