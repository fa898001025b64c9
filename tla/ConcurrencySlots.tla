-------------------------- MODULE ConcurrencySlots --------------------------
(***************************************************************************)
(* The concurrency limit of one user: the slots, the wait counter and the  *)
(* active index in Redis (concurrency_cache.go), as a request takes and    *)
(* gives them back (gateway_helper.go, concurrency_service.go), with the   *)
(* cleanup at the start of an instance and the background reconciliation.  *)
(* The limit of an account uses the same scripts under other keys.         *)
(*                                                                         *)
(* A request stands for its request id, which no other request shares.     *)
(***************************************************************************)
EXTENDS Integers, FiniteSets

CONSTANTS
    Instances,        \* instances of the program
    Requests,         \* requests of the user
    Nobody,           \* a request that has not come in yet
    MaxConcurrency,   \* slots of the user
    QueueLimit,       \* requests that may wait for one
    MaxTroubles       \* bound: crashes, Redis errors and slots outlived

ASSUME SlotsAssumption ==
    /\ Nobody \notin Instances
    /\ MaxConcurrency \in Nat \ {0} /\ QueueLimit \in Nat \ {0}
    /\ MaxTroubles \in Nat
    /\ IsFiniteSet(Requests)

VARIABLES
    slots,      \* the sorted set of the request ids that have not expired
    waitCount,  \* the wait counter
    index,      \* the user is a member of the active index
    instance,   \* [Instances -> the next step of its startup or its cleanup worker]
    home,       \* [Requests -> the instance it runs on]
    pc,         \* [Requests -> the next call]
    run,        \* [Requests -> what it remembers]
    load,       \* [Instances -> the load its cleanup worker has read is not zero]
    troubles    \* [Trouble -> Nat]

vars == <<slots, waitCount, index, instance, home, pc, run, load, troubles>>

\* An instance died, Redis failed, a slot expired under its request, an instance
\* started beside another one.
Trouble == {"crash", "redis", "expired", "started"}
Troubles == troubles["crash"] + troubles["redis"] + troubles["expired"] + troubles["started"]

Run == [granted : BOOLEAN,   \* it has a slot to give back
        queued  : BOOLEAN,   \* it has a wait count to give back
        load    : BOOLEAN]   \* the load it has read is not zero

NoRun == [granted |-> FALSE, queued |-> FALSE, load |-> FALSE]

TypeOK ==
    /\ slots \subseteq Requests
    /\ waitCount \in 0..QueueLimit
    /\ index \in BOOLEAN
    /\ instance \in [Instances -> {"down", "scan", "sweepSlots", "sweepWait", "sweepIndex",
                                   "serving", "reconcile"}]
    /\ home \in [Requests -> Instances \cup {Nobody}]
    /\ pc \in [Requests -> {"new", "acquire", "touch", "enqueue", "waiting", "decrement",
                            "readLoad", "writeIndex", "running", "ended"}]
    /\ run \in [Requests -> Run]
    /\ load \in [Instances -> BOOLEAN]
    /\ troubles \in [Trouble -> 0..MaxTroubles]

Init ==
    /\ slots = {} /\ waitCount = 0 /\ index = FALSE
    /\ instance = [i \in Instances |-> "down"]
    /\ home = [r \in Requests |-> Nobody]
    /\ pc = [r \in Requests |-> "new"]
    /\ run = [r \in Requests |-> NoRun]
    /\ load = [i \in Instances |-> FALSE]
    /\ troubles = [t \in Trouble |-> 0]

-----------------------------------------------------------------------------
(* Helpers                                                                 *)

GoTo(r, label) == pc' = [pc EXCEPT ![r] = label]
End(r) == GoTo(r, "ended") /\ run' = [run EXCEPT ![r] = NoRun]

Suffer(t) ==
    /\ Troubles < MaxTroubles
    /\ troubles' = [troubles EXCEPT ![t] = @ + 1]

Serving(i) == instance[i] \in {"serving", "reconcile"}
InProgress == {r \in Requests : pc[r] \notin {"new", "ended"}}
Holders == {r \in Requests : run[r].granted}
Waiters == {r \in Requests : run[r].queued}
HasLoad == slots # {} \/ waitCount > 0

\* The handler goes on with its slot, or returns the error.
AfterQueue(r) == IF run[r].granted THEN GoTo(r, "running") /\ UNCHANGED run ELSE End(r)

-----------------------------------------------------------------------------
(* A request                                                               *)

StartRequest(r) ==
    /\ pc[r] = "new"
    /\ \E i \in Instances : Serving(i) /\ home' = [home EXCEPT ![r] = i]
    /\ GoTo(r, "acquire")
    /\ UNCHANGED <<slots, waitCount, index, instance, run, load, troubles>>

\* Variant with a defect: one slot too many.
AcquireOneMore(r) ==
    /\ Cardinality(slots) <= MaxConcurrency
    /\ slots' = slots \cup {r}
    /\ run' = [run EXCEPT ![r].granted = TRUE]
    /\ GoTo(r, "touch")
    /\ UNCHANGED troubles

\* acquireScript: the slot is taken if there is one.
AcquireScript(r) ==
    /\ Cardinality(slots) < MaxConcurrency
    /\ slots' = slots \cup {r}
    /\ run' = [run EXCEPT ![r].granted = TRUE]
    /\ GoTo(r, "touch")
    /\ UNCHANGED troubles

\* Redis fails: the script has not run, or has run and its answer is lost.
AcquireFails(r) ==
    /\ Suffer("redis")
    /\ \/ UNCHANGED slots
       \/ Cardinality(slots) < MaxConcurrency /\ slots' = slots \cup {r}

\* TryAcquireUserSlot, before any waiting.
TryAcquire(r) ==
    /\ pc[r] = "acquire"
    /\ \/ AcquireScript(r)
       \/ /\ Cardinality(slots) >= MaxConcurrency
          /\ GoTo(r, "enqueue")
          /\ UNCHANGED <<slots, run, troubles>>
       \/ AcquireFails(r) /\ End(r)
    /\ UNCHANGED <<waitCount, index, instance, home, load>>

\* The user is put into the active index, after the slot or the wait count was taken.
TouchActiveIndex(r) ==
    /\ pc[r] = "touch"
    /\ \/ index' = TRUE /\ UNCHANGED troubles
       \/ Suffer("redis") /\ UNCHANGED index
    /\ GoTo(r, CASE run[r].granted /\ run[r].queued -> "decrement"
                 [] run[r].granted /\ ~run[r].queued -> "running"
                 [] OTHER -> "waiting")
    /\ UNCHANGED <<slots, waitCount, instance, home, run, load>>

\* Variant with a defect: one waiter too many.
IncrementOneMore(r) ==
    /\ pc[r] = "enqueue"
    /\ IF waitCount <= QueueLimit
       THEN /\ waitCount' = waitCount + 1
            /\ run' = [run EXCEPT ![r].queued = TRUE]
            /\ GoTo(r, "touch")
       ELSE End(r) /\ UNCHANGED waitCount
    /\ UNCHANGED <<slots, index, instance, home, load, troubles>>

\* The wait queue is full, or the request joins it.  When Redis fails the request
\* waits all the same, counted or not.
IncrementWaitCount(r) ==
    LET join == run' = [run EXCEPT ![r].queued = TRUE]
        count == waitCount < QueueLimit /\ waitCount' = waitCount + 1 IN
    /\ pc[r] = "enqueue"
    /\ \/ count /\ join /\ GoTo(r, "touch") /\ UNCHANGED troubles
       \/ waitCount >= QueueLimit /\ End(r) /\ UNCHANGED <<waitCount, troubles>>
       \/ /\ Suffer("redis")
          /\ count \/ UNCHANGED waitCount
          /\ join /\ GoTo(r, "waiting")
    /\ UNCHANGED <<slots, index, instance, home, load>>

\* waitForSlotWithPing: the next try, with a new request id.
Poll(r) ==
    /\ pc[r] = "waiting"
    /\ \/ AcquireScript(r)
       \/ AcquireFails(r) /\ GoTo(r, "decrement") /\ UNCHANGED run
    /\ UNCHANGED <<waitCount, index, instance, home, load>>

\* Variant with a defect: the wait count is given back only with a slot.
GiveUpUncounted(r) ==
    /\ pc[r] = "waiting"
    /\ End(r)
    /\ UNCHANGED <<slots, waitCount, index, instance, home, load, troubles>>

\* The wait times out or the client is gone; the decrement is deferred.
GiveUp(r) ==
    /\ pc[r] = "waiting"
    /\ GoTo(r, "decrement")
    /\ UNCHANGED <<slots, waitCount, index, instance, home, run, load, troubles>>

\* Variant with a defect: the counter may fall below zero.
DecrementBelowZero(r) ==
    /\ pc[r] = "decrement"
    /\ waitCount' = waitCount - 1
    /\ run' = [run EXCEPT ![r].queued = FALSE]
    /\ GoTo(r, "readLoad")
    /\ UNCHANGED <<slots, index, instance, home, load, troubles>>

DecrementWaitCount(r) ==
    /\ pc[r] = "decrement"
    /\ run' = [run EXCEPT ![r].queued = FALSE]
    /\ \/ /\ waitCount' = IF waitCount > 0 THEN waitCount - 1 ELSE 0
          /\ GoTo(r, "readLoad")
          /\ UNCHANGED troubles
       \/ /\ Suffer("redis")
          /\ GoTo(r, IF run[r].granted THEN "running" ELSE "ended")
          /\ UNCHANGED waitCount
    /\ UNCHANGED <<slots, index, instance, home, load>>

\* refreshActiveIndex: the load is read, then the index written.
ReadLoad(r) ==
    /\ pc[r] = "readLoad"
    /\ \/ /\ run' = [run EXCEPT ![r].load = HasLoad]
          /\ GoTo(r, "writeIndex")
          /\ UNCHANGED troubles
       \/ Suffer("redis") /\ AfterQueue(r)
    /\ UNCHANGED <<slots, waitCount, index, instance, home, load>>

WriteIndex(r) ==
    /\ pc[r] = "writeIndex"
    /\ \/ index' = run[r].load /\ UNCHANGED troubles
       \/ Suffer("redis") /\ UNCHANGED index
    /\ IF run[r].granted
       THEN GoTo(r, "running") /\ run' = [run EXCEPT ![r].load = FALSE]
       ELSE End(r)
    /\ UNCHANGED <<slots, waitCount, instance, home, load>>

\* The handler returns, or the client is gone: wrapReleaseOnDone.
ReleaseUserSlot(r) ==
    /\ pc[r] = "running"
    /\ run' = [run EXCEPT ![r].granted = FALSE]
    /\ \/ /\ slots' = slots \ {r}
          /\ GoTo(r, "readLoad")
          /\ UNCHANGED troubles
       \/ /\ Suffer("redis")
          /\ GoTo(r, "ended")
          /\ UNCHANGED slots
    /\ UNCHANGED <<waitCount, index, instance, home, load>>

-----------------------------------------------------------------------------
(* An instance                                                             *)

\* A process starts, alone or beside another one; its prefix is new.
StartInstance(i) ==
    /\ instance[i] = "down"
    /\ IF \E j \in Instances : instance[j] # "down" THEN Suffer("started") ELSE UNCHANGED troubles
    /\ instance' = [instance EXCEPT ![i] = "scan"]
    /\ UNCHANGED <<slots, waitCount, index, home, pc, run, load>>

\* CleanupStaleProcessSlots: a user that is in the index loses the slots of all other
\* processes and its wait counter, and leaves the index.  An error ends the cleanup.
CleanupStaleProcessSlots(i) ==
    /\ \/ /\ instance[i] = "scan"
          /\ instance' = [instance EXCEPT ![i] = IF index THEN "sweepSlots" ELSE "serving"]
          /\ UNCHANGED <<slots, waitCount, index, troubles>>
       \/ /\ instance[i] = "sweepSlots"
          /\ slots' = {}
          /\ instance' = [instance EXCEPT ![i] = "sweepWait"]
          /\ UNCHANGED <<waitCount, index, troubles>>
       \/ /\ instance[i] = "sweepWait"
          /\ waitCount' = 0
          /\ instance' = [instance EXCEPT ![i] = "sweepIndex"]
          /\ UNCHANGED <<slots, index, troubles>>
       \/ /\ instance[i] = "sweepIndex"
          /\ index' = FALSE
          /\ instance' = [instance EXCEPT ![i] = "serving"]
          /\ UNCHANGED <<slots, waitCount, troubles>>
       \/ /\ instance[i] \in {"scan", "sweepSlots", "sweepWait", "sweepIndex"}
          /\ Suffer("redis")
          /\ instance' = [instance EXCEPT ![i] = "serving"]
          /\ UNCHANGED <<slots, waitCount, index>>
    /\ UNCHANGED <<home, pc, run, load>>

\* Variant with a defect: the worker looks at the index of the accounts only.
ReconcileAccountsOnly(i) ==
    /\ instance[i] = "reconcile"
    /\ FALSE
    /\ UNCHANGED vars

\* The worker reads the load of a user whose entry is old, then writes the entry again
\* or removes it.
ReconcileExpiredIndex(i) ==
    /\ \/ /\ instance[i] = "serving" /\ index
          /\ load' = [load EXCEPT ![i] = HasLoad]
          /\ instance' = [instance EXCEPT ![i] = "reconcile"]
          /\ UNCHANGED index
       \/ /\ instance[i] = "reconcile"
          /\ index' = load[i]
          /\ load' = [load EXCEPT ![i] = FALSE]
          /\ instance' = [instance EXCEPT ![i] = "serving"]
    /\ UNCHANGED <<slots, waitCount, home, pc, run, troubles>>

Crash(i) ==
    /\ instance[i] # "down"
    /\ Suffer("crash")
    /\ instance' = [instance EXCEPT ![i] = "down"]
    /\ load' = [load EXCEPT ![i] = FALSE]
    /\ pc' = [r \in Requests |-> IF home[r] = i THEN "ended" ELSE pc[r]]
    /\ run' = [r \in Requests |-> IF home[r] = i THEN NoRun ELSE run[r]]
    /\ UNCHANGED <<slots, waitCount, index, home>>

-----------------------------------------------------------------------------
(* Time                                                                    *)

\* A slot is older than its TTL; the next script that looks at the set removes it.
SlotExpires(r) ==
    /\ r \in slots
    /\ slots' = slots \ {r}
    /\ IF run[r].granted THEN Suffer("expired") ELSE UNCHANGED troubles
    /\ UNCHANGED <<waitCount, index, instance, home, pc, run, load>>

\* Every increment renews the TTL of the counter, which exceeds the longest wait.
WaitCountExpires ==
    /\ waitCount > 0 /\ Waiters = {}
    /\ waitCount' = 0
    /\ UNCHANGED <<slots, index, instance, home, pc, run, load, troubles>>

-----------------------------------------------------------------------------
Request(r) ==
    \/ TryAcquire(r) \/ TouchActiveIndex(r) \/ IncrementWaitCount(r) \/ Poll(r) \/ GiveUp(r)
    \/ DecrementWaitCount(r) \/ ReadLoad(r) \/ WriteIndex(r) \/ ReleaseUserSlot(r)

Instance(i) == StartInstance(i) \/ CleanupStaleProcessSlots(i) \/ ReconcileExpiredIndex(i)

Next ==
    \/ \E r \in Requests : StartRequest(r) \/ Request(r) \/ SlotExpires(r)
    \/ \E i \in Instances : Instance(i) \/ Crash(i)
    \/ WaitCountExpires

Spec == Init /\ [][Next]_vars

\* A request that has begun ends, an instance that died is started again, its worker's
\* ticker ticks, and what has a TTL expires.
FairSpec ==
    /\ Spec
    /\ \A r \in Requests : WF_vars(Request(r)) /\ WF_vars(SlotExpires(r))
    /\ \A i \in Instances : WF_vars(Instance(i))
    /\ WF_vars(WaitCountExpires)

-----------------------------------------------------------------------------
(* Properties                                                              *)

\* No more requests than MaxConcurrency hold a slot, whatever calls to Redis fail or
\* lose their answer and whoever crashes and starts again, unless a request outlives
\* the TTL of its slot or an instance starts beside another one.
SlotLimit ==
    troubles["expired"] + troubles["started"] = 0 => Cardinality(Holders) <= MaxConcurrency

\* No more requests than QueueLimit wait, whoever dies or gives up, unless an increment
\* fails open or an instance starts beside another one: both let the counter fall
\* below the number of those who wait.
QueueBound ==
    troubles["redis"] + troubles["started"] = 0 => Cardinality(Waiters) <= QueueLimit

\* When the requests are over, all slots and wait counts have been given back, if no
\* process died and Redis answered: granted late, timed out, cancelled or turned away.
AllReturned ==
    InProgress = {} /\ troubles["crash"] + troubles["redis"] = 0 =>
        slots = {} /\ waitCount = 0

\* What a crash or a failed call leaves behind goes in the end: the slots, the wait
\* count and the user's entry in the active index.
LeftoversGo == <>[](slots = {} /\ waitCount = 0 /\ ~index)
=============================================================================
