------------------------ MODULE AccountProjectionsProofs ------------------------
(***************************************************************************)
(* Proofs about AccountProjections, for any amounts, changes, retries and  *)
(* faults: its type invariant, and that an undisturbed change leaves the   *)
(* copy true, whatever came before it.                                     *)
(***************************************************************************)
EXTENDS AccountProjections, TLAPS

Stages == {"read", "create", "update", "ack"}

\* No total is handled by two tasks at a time.
OneTask == \A t, u \in work : t.msg = u.msg => t = u

\* What a pending change is about to store or to tell is still right.
Right(n) ==
    IF changes[n].stage = "write"
    THEN /\ changes[n].seen = stamp /\ (balance # Absent => changes[n].found)
         /\ changes[n].op = "delete" => changes[n].total = 0
    ELSE changes[n].total = ValueOf(balance)

\* How far the consumer of a total is, as the copy shows.
Reached(t) ==
    /\ t.stage = "create" => replica = Absent
    /\ t.stage = "ack" => replica = t.msg.total

\* Nothing was ever told, or the copy has what was told.
Agreed ==
    IF told = {} THEN balance = Absent /\ replica = Absent ELSE replica = ValueOf(balance)

\* One change at most is under way, first at its service, then in the queue.
OneAtATime ==
    /\ \A n, k \in Pending : n = k
    /\ \A m, l \in inbox : m = l
    /\ Pending # {} => inbox = {}

Undisturbed ==
    ~disturbed =>
        /\ OneAtATime
        /\ \A n \in Pending : Right(n)
        /\ \A m \in inbox : m.total = ValueOf(balance)
        /\ \A t \in work : Reached(t)
        /\ Pending = {} /\ inbox = {} => Agreed

AccountInv == AccountTypeOK /\ OneTask /\ Undisturbed

-----------------------------------------------------------------------------
(* Changes.                                                                *)

LEMMA ValueIsTotal == ASSUME NEW b \in Int \cup {Absent} PROVE ValueOf(b) \in Int
BY DEF ValueOf

LEMMA PendingChange ==
    ASSUME AccountTypeOK, NEW n \in Pending
    PROVE  n \in Numbers /\ changes[n] \in Changes
BY DEF AccountTypeOK, Pending, NotMade

LEMMA Reaching ==
    ASSUME AccountTypeOK, NEW n \in Pending, NEW stage \in {"publish", "done", "failed"},
           Reach(n, stage)
    PROVE  /\ changes' \in [Numbers -> Changes \cup {NotMade}]
           /\ changes'[n] = [changes[n] EXCEPT !.stage = stage]
           /\ \A k \in Numbers \ {n} : changes'[k] = changes[k]
           /\ Pending' = IF stage = "publish" THEN Pending ELSE Pending \ {n}
<1>1. n \in Numbers /\ changes[n] \in Changes
  BY PendingChange
<1>2. changes'[n] = [changes[n] EXCEPT !.stage = stage]
      /\ \A k \in Numbers \ {n} : changes'[k] = changes[k]
  BY <1>1 DEF Reach, AccountTypeOK
<1>3. [changes[n] EXCEPT !.stage = stage] \in Changes
  BY <1>1 DEF Changes
<1>4. changes' \in [Numbers -> Changes \cup {NotMade}]
  BY <1>1, <1>3 DEF Reach, AccountTypeOK
<1>5. changes'[n].stage = stage
  BY <1>1, <1>2 DEF Changes
<1>6. Pending' = IF stage = "publish" THEN Pending ELSE Pending \ {n}
  BY <1>1, <1>2, <1>5 DEF Pending
<1> QED
  BY <1>2, <1>4, <1>6

\* A change that begins alone is the only one under way.
LEMMA MakeKeeps ==
    ASSUME AccountInv, NEW n \in Numbers, NEW op \in {"register", "seed", "adjust", "set", "delete"},
           NEW total \in Int, NEW stage \in {"write", "publish"}, Make(n, op, total, stage),
           UNCHANGED <<side, stamp, told, inbox, dead, work, faults, replica>>,
           balance' \in Int \cup {Absent},
           stage = "write" => balance' = balance /\ (op = "delete" => total = 0),
           stage = "publish" => total = ValueOf(balance')
    PROVE  AccountInv'
<1> DEFINE c == [op |-> op, total |-> total, found |-> balance # Absent, seen |-> stamp,
                 stage |-> stage]
<1>1. c \in Changes
  BY DEF Changes, AccountInv, AccountTypeOK
<1>2. changes' \in [Numbers -> Changes \cup {NotMade}] /\ changes'[n] = c
      /\ \A k \in Numbers \ {n} : changes'[k] = changes[k]
  BY <1>1 DEF Make, AccountInv, AccountTypeOK
<1>3. AccountTypeOK'
  <2>1. disturbed' \in BOOLEAN
    BY DEF Make
  <2> QED
    BY <1>2, <2>1 DEF AccountInv, AccountTypeOK
<1>4. OneTask'
  BY DEF AccountInv, OneTask
<1>5. ASSUME ~disturbed' PROVE Undisturbed'
  <2>1. Pending = {} /\ inbox = {} /\ inbox' = {}
    BY <1>5 DEF Make
  <2>2. work' = {}
    BY <2>1 DEF AccountInv, AccountTypeOK
  <2>3. Pending' = {n}
    BY <1>2, <2>1 DEF Pending
  <2>4. changes'[n].stage = stage /\ changes'[n].seen = stamp /\ changes'[n].op = op
        /\ changes'[n].total = total /\ changes'[n].found = (balance # Absent)
    BY <1>2
  <2>5. Right(n)'
    <3>1. CASE stage = "write"
      BY <2>4, <3>1 DEF Right
    <3>2. CASE stage = "publish"
      BY <2>4, <3>2 DEF Right, ValueOf
    <3> QED
      BY <3>1, <3>2
  <2> QED
    BY <2>1, <2>2, <2>3, <2>5 DEF Undisturbed, OneAtATime
<1> QED
  BY <1>3, <1>4, <1>5 DEF AccountInv, Undisturbed

LEMMA BeginKeeps ==
    ASSUME AccountInv, NEW n \in Numbers,
           \/ Register(n) \/ Seed(n)
           \/ \E v \in Amounts : Adjust(n, v)
           \/ \E v \in Balances : Administer(n, "set", v)
           \/ Administer(n, "delete", 0)
    PROVE  AccountInv'
<1> USE AccountAssumption
<1>1. CASE Register(n)
  <2>1. StartingGil \in Int /\ StartingGil # Absent
    OBVIOUS
  <2> QED
    BY <1>1, <2>1, MakeKeeps DEF Register, queueVars, ValueOf
<1>2. CASE Seed(n)
  <2>1. balance \in Int /\ ValueOf(balance) = balance
    BY <1>2 DEF Seed, AccountInv, AccountTypeOK, ValueOf
  <2>2. Make(n, "seed", balance, "publish") /\ balance' = balance
        /\ UNCHANGED <<side, stamp, told, inbox, dead, work, faults, replica>>
    BY <1>2 DEF Seed, queueVars
  <2> QED
    BY <2>1, <2>2, MakeKeeps
<1>3. CASE \E v \in Amounts : Adjust(n, v)
  <2>1. PICK v \in Amounts : Adjust(n, v)
    BY <1>3
  <2>2. balance \in Int \cup {Absent} /\ ValueOf(balance) + v \in Int
    BY ValueIsTotal DEF AccountInv, AccountTypeOK
  <2>3. Make(n, "adjust", ValueOf(balance) + v, "write") /\ balance' = balance
        /\ UNCHANGED <<side, stamp, told, inbox, dead, work, faults, replica>>
    BY <2>1 DEF Adjust, queueVars
  <2> QED
    BY <2>2, <2>3, MakeKeeps
<1>4. ASSUME NEW v \in Int, NEW op \in {"set", "delete"}, op = "delete" => v = 0,
             Administer(n, op, v)
      PROVE  AccountInv'
  <2>1. balance \in Int \cup {Absent}
    BY DEF AccountInv, AccountTypeOK
  <2>2. Make(n, op, v, "write") /\ balance' = balance
        /\ UNCHANGED <<side, stamp, told, inbox, dead, work, faults, replica>>
    BY <1>4 DEF Administer, queueVars
  <2> QED
    BY <1>4, <2>1, <2>2, MakeKeeps
<1>5. \A v \in Balances : v \in Int
  OBVIOUS
<1> QED
  BY <1>1, <1>2, <1>3, <1>4, <1>5

\* What Identity or Inventory holds after storing.
LEMMA StoredType ==
    ASSUME AccountTypeOK, NEW n \in Pending, Stored(n)
    PROVE  balance' \in Int \cup {Absent} /\ stamp' \in Nat
<1>1. changes[n] \in Changes
  BY PendingChange
<1> QED
  BY <1>1 DEF Stored, UserStored, DocumentStored, Changes, AccountTypeOK

\* A change that nothing overlapped is stored as it will be told.
LEMMA StoredAsTold ==
    ASSUME AccountTypeOK, NEW n \in Pending, changes[n].stage = "write", Right(n), Stored(n)
    PROVE  changes[n].total = ValueOf(balance')
<1>1. changes[n] \in Changes
  BY PendingChange
<1>2. changes[n].total # Absent
  BY <1>1, AccountAssumption DEF Changes
<1> QED
  BY <1>2 DEF Right, Stored, UserStored, DocumentStored, ValueOf

LEMMA StoreKeeps ==
    ASSUME AccountInv, NEW n \in Numbers, Store(n)
    PROVE  AccountInv'
<1>1. n \in Pending
  BY DEF Store, Pending
<1>2. /\ changes' \in [Numbers -> Changes \cup {NotMade}]
      /\ changes'[n] = [changes[n] EXCEPT !.stage = "publish"]
      /\ Pending' = Pending
  BY <1>1, Reaching DEF Store, AccountInv
<1>3. balance' \in Int \cup {Absent} /\ stamp' \in Nat /\ disturbed' \in BOOLEAN
  BY <1>1, StoredType DEF Store, AccountInv, AccountTypeOK
<1>4. UNCHANGED <<side, told, inbox, dead, work, faults, replica>>
  BY DEF Store, queueVars
<1>5. AccountTypeOK' /\ OneTask'
  BY <1>2, <1>3, <1>4 DEF AccountInv, AccountTypeOK, OneTask
<1>6. ASSUME ~disturbed' PROVE Undisturbed'
  <2>1. ~disturbed /\ Stored(n) /\ changes[n].stage = "write"
    BY <1>6 DEF Store
  <2>2. OneAtATime /\ Right(n) /\ inbox = {} /\ Pending = {n}
    BY <1>1, <2>1 DEF AccountInv, Undisturbed, OneAtATime
  <2>3. changes[n].total = ValueOf(balance')
    BY <1>1, <2>1, <2>2, StoredAsTold DEF AccountInv
  <2>4. changes'[n].stage = "publish" /\ changes'[n].total = changes[n].total
    BY <1>1, <1>2, PendingChange DEF Changes, AccountInv
  <2>5. Right(n)'
    BY <2>3, <2>4 DEF Right, ValueOf
  <2>6. work = {}
    BY <2>2 DEF AccountInv, AccountTypeOK
  <2> QED
    BY <1>2, <1>4, <2>2, <2>5, <2>6 DEF Undisturbed, OneAtATime
<1> QED
  BY <1>5, <1>6 DEF AccountInv, Undisturbed

\* Telling adds a total.
LEMMA PublishType ==
    ASSUME AccountInv, NEW n \in Pending, PublishTotal(n), UNCHANGED <<dead, work, faults>>
    PROVE  /\ told' \subseteq Totals /\ inbox' \subseteq told' /\ dead' \subseteq told'
           /\ work' \subseteq [msg : inbox', stage : Stages, tries : 0..Attempts]
           /\ OneTask'
<1>1. [change |-> n, total |-> changes[n].total] \in Totals
  BY PendingChange DEF Totals, Changes, AccountInv
<1>2. told' = told \cup {[change |-> n, total |-> changes[n].total]}
      /\ inbox' = inbox \cup {[change |-> n, total |-> changes[n].total]}
  BY DEF PublishTotal, Queue!Publish
<1> QED
  BY <1>1, <1>2 DEF AccountInv, AccountTypeOK, OneTask, Stages

LEMMA TellKeeps ==
    ASSUME AccountInv, NEW n \in Numbers, Tell(n)
    PROVE  AccountInv'
<1>1. n \in Pending
  BY DEF Tell, Pending
<1>2. changes' \in [Numbers -> Changes \cup {NotMade}] /\ Pending' = Pending \ {n}
  BY <1>1, Reaching DEF Tell, AccountInv
<1>3. AccountTypeOK' /\ OneTask'
  BY <1>1, <1>2, PublishType DEF Tell, AccountInv, AccountTypeOK, Stages
<1>4. ASSUME ~disturbed' PROVE Undisturbed'
  <2>1. Pending = {n} /\ inbox = {} /\ Right(n)
    BY <1>1, <1>4 DEF Tell, AccountInv, Undisturbed, OneAtATime
  <2>2. inbox' = {[change |-> n, total |-> changes[n].total]}
    BY <2>1 DEF Tell, PublishTotal, Queue!Publish
  <2>3. changes[n].total = ValueOf(balance')
    BY <2>1 DEF Right, Tell
  <2>4. work' = {}
    BY <2>1 DEF Tell, AccountInv, AccountTypeOK
  <2>5. Pending' = {}
    BY <1>2, <2>1
  <2>6. \A m \in inbox' : m.total = ValueOf(balance')
    BY <2>2, <2>3
  <2> QED
    BY <2>2, <2>4, <2>5, <2>6 DEF Undisturbed, OneAtATime, ValueOf
<1> QED
  BY <1>3, <1>4 DEF AccountInv, Undisturbed

LEMMA StopKeeps ==
    ASSUME AccountInv, NEW n \in Numbers, ChangeStops(n)
    PROVE  AccountInv'
<1>1. n \in Pending /\ disturbed' = TRUE /\ UNCHANGED <<side, dead, work, replica>>
  BY DEF ChangeStops
<1>2. changes' \in [Numbers -> Changes \cup {NotMade}]
  BY <1>1, Reaching DEF ChangeStops, AccountInv
<1>3. faults' \in 0..MaxFaults
  BY AccountAssumption DEF ChangeStops, Queue!Failure, AccountInv, AccountTypeOK
<1>4. balance' \in Int \cup {Absent} /\ stamp' \in Nat
  BY <1>1, StoredType DEF ChangeStops, AccountInv, AccountTypeOK
<1>5. /\ told' \subseteq Totals /\ inbox' \subseteq told' /\ dead' \subseteq told'
      /\ work' \subseteq [msg : inbox', stage : Stages, tries : 0..Attempts]
      /\ OneTask'
  <2>1. CASE UNCHANGED <<told, inbox>>
    BY <1>1, <2>1 DEF AccountInv, AccountTypeOK, OneTask, Stages
  <2>2. CASE PublishTotal(n)
    <3>1. [change |-> n, total |-> changes[n].total] \in Totals
      BY <1>1, PendingChange DEF Totals, Changes, AccountInv
    <3>2. told' = told \cup {[change |-> n, total |-> changes[n].total]}
          /\ inbox' = inbox \cup {[change |-> n, total |-> changes[n].total]}
      BY <2>2 DEF PublishTotal, Queue!Publish
    <3> QED
      BY <1>1, <3>1, <3>2 DEF AccountInv, AccountTypeOK, OneTask, Stages
  <2> QED
    BY <2>1, <2>2 DEF ChangeStops
<1>6. AccountTypeOK'
  BY <1>1, <1>2, <1>3, <1>4, <1>5 DEF AccountTypeOK, AccountInv, Stages
<1> QED
  BY <1>1, <1>5, <1>6 DEF AccountInv, Undisturbed
-----------------------------------------------------------------------------
(* Consumers.  They leave the account and its changes alone.               *)

Source == <<side, balance, stamp, changes>>

LEMMA TaskType ==
    ASSUME AccountTypeOK, NEW t \in work
    PROVE  /\ t \in [msg : inbox, stage : Stages, tries : 0..Attempts]
           /\ t.msg \in inbox /\ t.msg \in Totals /\ t.msg.total \in Int
BY DEF AccountTypeOK, Totals, Stages

\* The delivery t goes on, at stage u.stage.
LEMMA TaskMoves ==
    ASSUME AccountInv, NEW t \in work, NEW u \in [msg : {t.msg}, stage : Stages, tries : 0..Attempts],
           work' = (work \ {t}) \cup {u}, UNCHANGED <<Source, told, inbox>>,
           dead' \subseteq told, faults' \in 0..MaxFaults, replica' \in Int \cup {Absent},
           disturbed' \in BOOLEAN, disturbed => disturbed',
           ~disturbed' => Reached(u)'
    PROVE  AccountInv'
<1>1. t.msg \in inbox
  BY TaskType DEF AccountInv
<1>2. u \in [msg : inbox, stage : Stages, tries : 0..Attempts]
  BY <1>1
<1>3. AccountTypeOK'
  BY <1>2 DEF AccountInv, AccountTypeOK, Source, Stages
<1>4. OneTask'
  BY DEF AccountInv, OneTask
<1>5. ASSUME ~disturbed' PROVE Undisturbed'
  <2>1. OneAtATime /\ inbox # {} /\ Pending' = Pending /\ inbox' = inbox
    BY <1>1, <1>5 DEF AccountInv, Undisturbed, Source, Pending
  <2>2. \A v \in work : v.msg = t.msg
    BY <2>1, <1>1, TaskType DEF AccountInv, OneAtATime
  <2>3. work' = {u}
    BY <2>2 DEF AccountInv, OneTask
  <2>4. \A m \in inbox' : m.total = ValueOf(balance')
    BY <1>5 DEF AccountInv, Undisturbed, Source
  <2>5. Pending' = {}
    BY <2>1 DEF OneAtATime
  <2>6. OneAtATime'
    BY <2>1, <2>5 DEF OneAtATime
  <2>7. \A v \in work' : Reached(v)'
    BY <2>3, <1>5
  <2> QED
    BY <2>1, <2>4, <2>5, <2>6, <2>7 DEF Undisturbed
<1> QED
  BY <1>3, <1>4, <1>5 DEF AccountInv, Undisturbed

LEMMA ReceiveKeeps ==
    ASSUME AccountInv, NEW m \in inbox, Receive(m)
    PROVE  AccountInv'
<1> DEFINE u == [msg |-> m, stage |-> "read", tries |-> 0]
<1>1. work' = work \cup {u} /\ (\A t \in work : t.msg # m)
      /\ UNCHANGED <<Source, told, inbox, dead, faults, replica, disturbed>>
  BY DEF Receive, Queue!Begin, Queue!Task, Source
<1>2. u \in [msg : inbox, stage : Stages, tries : 0..Attempts]
  BY AccountAssumption DEF Stages
<1>3. AccountTypeOK'
  BY <1>1, <1>2 DEF AccountInv, AccountTypeOK, Source, Stages
<1>4. OneTask'
  BY <1>1 DEF AccountInv, OneTask
<1>5. Reached(u)'
  BY DEF Reached
<1>6. ASSUME ~disturbed' PROVE Undisturbed'
  <2>1. ~disturbed /\ Pending' = Pending /\ inbox' = inbox
    BY <1>1, <1>6 DEF Source, Pending
  <2>2. \A t \in work' : Reached(t)'
    BY <1>1, <1>5, <2>1 DEF AccountInv, Undisturbed, Reached
  <2>3. OneAtATime' /\ (\A k \in inbox' : k.total = ValueOf(balance'))
        /\ \A n \in Pending' : Right(n)'
    BY <1>1, <2>1 DEF AccountInv, Undisturbed, OneAtATime, Source, Right, ValueOf
  <2> QED
    BY <2>1, <2>2, <2>3 DEF Undisturbed
<1> QED
  BY <1>3, <1>4, <1>6 DEF AccountInv, Undisturbed

LEMMA ReadKeeps ==
    ASSUME AccountInv, NEW t \in work, ReadReplica(t)
    PROVE  AccountInv'
<1> PICK next \in Stages : next = NextStage
  BY DEF NextStage, Stages
<1> DEFINE u == [t EXCEPT !.stage = next]
<1>1. t \in [msg : inbox, stage : Stages, tries : 0..Attempts]
  BY TaskType DEF AccountInv
<1>2. u \in [msg : {t.msg}, stage : Stages, tries : 0..Attempts] /\ u.stage = next
  BY <1>1 DEF Stages
<1>3. work' = (work \ {t}) \cup {u}
      /\ UNCHANGED <<Source, told, inbox, dead, faults, replica, disturbed>>
  BY DEF ReadReplica, Queue!Advance, Source
<1>4. Reached(u)'
  BY <1>2, <1>3 DEF Reached, NextStage
<1>5. dead' \subseteq told /\ faults' \in 0..MaxFaults /\ replica' \in Int \cup {Absent}
      /\ disturbed' \in BOOLEAN
  BY <1>3 DEF AccountInv, AccountTypeOK
<1> QED
  BY <1>2, <1>3, <1>4, <1>5, TaskMoves

LEMMA ReplicaType ==
    ASSUME AccountTypeOK, NEW t \in work
    PROVE  ReplicaWith(t) \in Int \cup {Absent}
BY TaskType DEF ReplicaWith, AccountTypeOK

\* Undisturbed, a creation still finds no copy: the total is stored.
LEMMA WriteKeeps ==
    ASSUME AccountInv, NEW t \in work, WriteReplica(t)
    PROVE  AccountInv'
<1> DEFINE u == [t EXCEPT !.stage = "ack"]
<1>1. t \in [msg : inbox, stage : Stages, tries : 0..Attempts]
  BY TaskType DEF AccountInv
<1>2. u \in [msg : {t.msg}, stage : Stages, tries : 0..Attempts]
      /\ u.stage = "ack" /\ u.msg = t.msg
  BY <1>1 DEF Stages
<1>3. work' = (work \ {t}) \cup {u} /\ replica' = ReplicaWith(t)
      /\ UNCHANGED <<Source, told, inbox, dead, faults, disturbed>>
  BY DEF WriteReplica, Queue!Advance, Source
<1>4. ASSUME ~disturbed' PROVE Reached(u)'
  <2>1. Reached(t)
    BY <1>3, <1>4 DEF AccountInv, Undisturbed
  <2>2. ReplicaWith(t) = t.msg.total
    BY <2>1 DEF Reached, ReplicaWith
  <2> QED
    BY <1>2, <1>3, <2>2 DEF Reached
<1>5. dead' \subseteq told /\ faults' \in 0..MaxFaults /\ replica' \in Int \cup {Absent}
      /\ disturbed' \in BOOLEAN
  BY <1>3, ReplicaType DEF AccountInv, AccountTypeOK
<1> QED
  BY <1>2, <1>3, <1>4, <1>5, TaskMoves

\* A total given up on disturbs; one tried again begins anew.
LEMMA ThrowKeeps ==
    ASSUME AccountInv, NEW t \in work, ConsumeThrows(t),
           faults' \in 0..MaxFaults, replica' \in Int \cup {Absent}
    PROVE  AccountInv'
<1>1. t \in [msg : inbox, stage : Stages, tries : 0..Attempts] /\ t.msg \in inbox
  BY TaskType DEF AccountInv
<1>2. UNCHANGED <<Source, told, inbox>> /\ disturbed' = (disturbed \/ t.msg \in dead')
  BY DEF ConsumeThrows, Source
<1>3. disturbed' \in BOOLEAN /\ (disturbed => disturbed')
  BY <1>2 DEF AccountInv, AccountTypeOK
<1>4. CASE t.tries < Attempts /\ dead' = dead
           /\ work' = (work \ {t}) \cup {[msg |-> t.msg, stage |-> "read", tries |-> t.tries + 1]}
  <2> DEFINE u == [msg |-> t.msg, stage |-> "read", tries |-> t.tries + 1]
  <2>1. u \in [msg : {t.msg}, stage : Stages, tries : 0..Attempts]
    BY <1>1, <1>4, AccountAssumption DEF Stages
  <2>2. Reached(u)'
    BY DEF Reached
  <2>3. dead' \subseteq told
    BY <1>4 DEF AccountInv, AccountTypeOK
  <2> QED
    BY <1>2, <1>3, <1>4, <2>1, <2>2, <2>3, TaskMoves
<1>5. CASE dead' = dead \cup {t.msg} /\ work' = (work \ {t}) \cup {[t EXCEPT !.stage = "ack"]}
  <2> DEFINE u == [t EXCEPT !.stage = "ack"]
  <2>1. u \in [msg : {t.msg}, stage : Stages, tries : 0..Attempts]
    BY <1>1 DEF Stages
  <2>2. disturbed' = TRUE
    BY <1>2, <1>5
  <2>3. dead' \subseteq told
    BY <1>1, <1>5 DEF AccountInv, AccountTypeOK
  <2> QED
    BY <1>2, <1>3, <1>5, <2>1, <2>2, <2>3, TaskMoves
<1> QED
  BY <1>4, <1>5 DEF ConsumeThrows, Queue!Throw, Queue!Task, Queue!Advance

LEMMA FailKeeps ==
    ASSUME AccountInv, NEW t \in work, WriteThrows(t) \/ ConsumerFails(t)
    PROVE  AccountInv'
<1>1. CASE WriteThrows(t)
  BY <1>1, ThrowKeeps DEF WriteThrows, AccountInv, AccountTypeOK
<1>2. CASE ConsumerFails(t)
  <2>1. replica' \in Int \cup {Absent}
    BY <1>2, ReplicaType DEF ConsumerFails, AccountInv, AccountTypeOK
  <2>2. faults' \in 0..MaxFaults
    BY <1>2, AccountAssumption DEF ConsumerFails, Queue!Failure, AccountInv, AccountTypeOK
  <2> QED
    BY <1>2, <2>1, <2>2, ThrowKeeps DEF ConsumerFails
<1> QED
  BY <1>1, <1>2

\* An acknowledged total is the one the copy shows.
LEMMA SettleKeeps ==
    ASSUME AccountInv, NEW t \in work, SettleTotal(t)
    PROVE  AccountInv'
<1>1. inbox' = inbox \ {t.msg} /\ work' = work \ {t} /\ t.stage = "ack"
      /\ UNCHANGED <<Source, told, dead, faults, replica, disturbed>>
  BY DEF SettleTotal, Queue!Settle, Source
<1>2. t.msg \in inbox
  BY TaskType DEF AccountInv
<1>3. \A u \in work' : u.msg \in inbox'
  BY <1>1, TaskType DEF AccountInv, OneTask
<1>4. work' \subseteq [msg : inbox', stage : Stages, tries : 0..Attempts]
  BY <1>1, <1>3 DEF AccountInv, AccountTypeOK, Stages
<1>5. AccountTypeOK'
  BY <1>1, <1>4 DEF AccountInv, AccountTypeOK, Source, Stages
<1>6. OneTask'
  BY <1>1 DEF AccountInv, OneTask
<1>7. ASSUME ~disturbed' PROVE Undisturbed'
  <2>1. OneAtATime /\ Reached(t) /\ t.msg.total = ValueOf(balance)
    BY <1>1, <1>2, <1>7 DEF AccountInv, Undisturbed
  <2>2. inbox' = {} /\ Pending' = {}
    BY <1>1, <1>2, <2>1 DEF OneAtATime, Pending, Source
  <2>3. work' = {}
    BY <2>2, <1>3
  <2>4. replica = ValueOf(balance) /\ told # {}
    BY <1>1, <1>2, <2>1 DEF Reached, AccountInv, AccountTypeOK
  <2>5. Agreed'
    BY <1>1, <2>4 DEF Agreed, Source, ValueOf
  <2> QED
    BY <2>2, <2>3, <2>5 DEF Undisturbed, OneAtATime
<1> QED
  BY <1>5, <1>6, <1>7 DEF AccountInv, Undisturbed

LEMMA TradingStopKeeps ==
    ASSUME AccountInv, TradingStops
    PROVE  AccountInv'
<1>1. work' = {} /\ UNCHANGED <<Source, told, inbox, dead, replica, disturbed>>
  BY DEF TradingStops, Queue!Stop, Source
<1>2. faults' \in 0..MaxFaults
  BY AccountAssumption DEF TradingStops, Queue!Stop, Queue!Failure, AccountInv, AccountTypeOK
<1>3. AccountTypeOK' /\ OneTask'
  BY <1>1, <1>2 DEF AccountInv, AccountTypeOK, OneTask, Source
<1>4. Undisturbed'
  BY <1>1 DEF AccountInv, Undisturbed, OneAtATime, Pending, Right, Agreed, ValueOf, Source
<1> QED
  BY <1>3, <1>4 DEF AccountInv

-----------------------------------------------------------------------------
(* The specification.                                                      *)

LEMMA InitHolds == AccountInit => AccountInv
<1> SUFFICES ASSUME AccountInit PROVE AccountInv
  OBVIOUS
<1>1. Pending = {}
  BY DEF AccountInit, Pending, NotMade
<1>2. told = {} /\ inbox = {} /\ dead = {} /\ work = {} /\ faults = 0
  BY DEF AccountInit, Queue!HostInit
<1>3. AccountTypeOK
  <2>1. 0 \in 0..MaxFaults
    BY AccountAssumption
  <2>2. changes \in [Numbers -> Changes \cup {NotMade}]
    BY DEF AccountInit
  <2> QED
    BY <1>2, <2>1, <2>2 DEF AccountInit, AccountTypeOK
<1>4. OneTask /\ Undisturbed
  BY <1>1, <1>2 DEF AccountInit, OneTask, Undisturbed, OneAtATime, Agreed
<1> QED
  BY <1>3, <1>4 DEF AccountInv

LEMMA NextKeeps == AccountInv /\ [AccountNext]_accountVars => AccountInv'
<1> SUFFICES ASSUME AccountInv, [AccountNext]_accountVars PROVE AccountInv'
  OBVIOUS
<1>1. ASSUME NEW n \in Numbers,
             \/ Register(n) \/ Seed(n)
             \/ \E v \in Amounts : Adjust(n, v)
             \/ \E v \in Balances : Administer(n, "set", v)
             \/ Administer(n, "delete", 0)
      PROVE  AccountInv'
  BY <1>1, BeginKeeps
<1>2. ASSUME NEW n \in Numbers, Store(n) \/ Tell(n) \/ ChangeStops(n) PROVE AccountInv'
  BY <1>2, StoreKeeps, TellKeeps, StopKeeps
<1>3. ASSUME NEW m \in inbox, Receive(m) PROVE AccountInv'
  BY <1>3, ReceiveKeeps
<1>4. ASSUME NEW t \in work, Step(t) PROVE AccountInv'
  BY <1>4, ReadKeeps, WriteKeeps, FailKeeps, SettleKeeps DEF Step
<1>5. CASE TradingStops
  BY <1>5, TradingStopKeeps
<1>6. CASE UNCHANGED accountVars
  BY <1>6 DEF accountVars, queueVars, AccountInv, AccountTypeOK, OneTask, Undisturbed,
              OneAtATime, Pending, Right, Reached, Agreed, ValueOf
<1> QED
  BY <1>1, <1>2, <1>3, <1>4, <1>5, <1>6 DEF AccountNext

LEMMA Invariance == AccountSpec => []AccountInv
BY InitHolds, NextKeeps, PTL DEF AccountSpec

(* The account, what was told of it and Trading's copy always have their   *)
(* types: no delivery outlives its message.                                *)
THEOREM AccountTypeCorrect == AccountSpec => []AccountTypeOK
<1>1. AccountInv => AccountTypeOK
  BY DEF AccountInv
<1> QED
  BY <1>1, Invariance, PTL

(* One undisturbed change makes the store show the account as it is,       *)
(* whatever was lost, reordered or contradicting before it.                *)
THEOREM CopyIsTrue == AccountSpec => []CalmCopyIsTrue
<1>1. AccountInv => CalmCopyIsTrue
  <2> SUFFICES ASSUME AccountInv, ~disturbed, Pending = {}, inbox = {}
      PROVE StoreShows = IF Registered THEN ValueOf(balance) ELSE Absent
    BY DEF CalmCopyIsTrue
  <2>1. Agreed /\ ValueOf(balance) \in Int /\ side \in {"gil", "quantity"}
    BY ValueIsTotal DEF AccountInv, Undisturbed, AccountTypeOK
  <2> QED
    BY <2>1, AccountAssumption DEF Agreed, StoreShows, Registered, ValueOf
<1> QED
  BY <1>1, Invariance, PTL
=============================================================================
