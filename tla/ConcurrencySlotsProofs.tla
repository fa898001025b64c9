----------------------- MODULE ConcurrencySlotsProofs -----------------------
(***************************************************************************)
(* Proofs about ConcurrencySlots for any number of instances and requests, *)
(* any limits and any number of crashes, Redis errors, outlived slots and  *)
(* instances started beside each other.                                    *)
(***************************************************************************)
EXTENDS ConcurrencySlots, FiniteSetTheorems, TLAPS

\* Where a request may have a slot or a wait count to give back, and where it
\* surely has one.
Labelled(r) ==
    /\ run[r].granted => pc[r] \in {"touch", "decrement", "readLoad", "writeIndex", "running"}
    /\ run[r].queued => pc[r] \in {"touch", "waiting", "decrement"}
    /\ pc[r] \in {"waiting", "decrement"} => run[r].queued
    /\ pc[r] = "touch" => run[r].granted \/ run[r].queued

LabelInv == \A r \in Requests : Labelled(r)

\* A request lives on an instance that serves.
HomeInv == \A r \in InProgress : home[r] \in Instances /\ Serving(home[r])

\* Unless one was started beside another there is one instance.
AloneInv ==
    troubles["started"] = 0 =>
        \A i, j \in Instances : instance[i] # "down" /\ instance[j] # "down" => i = j

\* A slot or a wait count that a request means to give back is in Redis.
CoveredInv ==
    /\ Cardinality(slots) <= MaxConcurrency
    /\ troubles["expired"] + troubles["started"] = 0 => Holders \subseteq slots
    /\ troubles["redis"] + troubles["started"] = 0 => Cardinality(Waiters) <= waitCount

\* What is in Redis some request means to give back.
OwnedInv ==
    troubles["crash"] + troubles["redis"] = 0 =>
        slots \subseteq Holders /\ waitCount <= Cardinality(Waiters)

IInv == TypeOK /\ LabelInv /\ HomeInv /\ AloneInv /\ CoveredInv /\ OwnedInv

-----------------------------------------------------------------------------
(* Lemmas about the steps                                                  *)

\* A trouble is counted under its own name.
LEMMA SufferCounts ==
    ASSUME TypeOK, NEW t \in Trouble, Suffer(t)
    PROVE  /\ troubles' \in [Trouble -> 0..MaxTroubles]
           /\ troubles'[t] = troubles[t] + 1
           /\ \A u \in Trouble : u # t => troubles'[u] = troubles[u]
<1>1. troubles \in [Trouble -> 0..MaxTroubles] /\ MaxTroubles \in Nat
    BY SlotsAssumption DEF TypeOK
<1>2. \A u \in Trouble : troubles[u] \in 0..MaxTroubles
    BY <1>1
<1>3. troubles[t] + 1 \in 0..MaxTroubles
    BY <1>1, <1>2 DEF Suffer, Troubles, Trouble
<1>4. QED
    BY <1>1, <1>2, <1>3 DEF Suffer

\* A request remembers that it got a slot, or gives it back.
LEMMA SetGranted ==
    ASSUME TypeOK, NEW r \in Requests, NEW b \in BOOLEAN,
           run' = [run EXCEPT ![r].granted = b]
    PROVE  /\ run' \in [Requests -> Run]
           /\ run'[r].granted = b /\ run'[r].queued = run[r].queued
           /\ \A q \in Requests : q # r => run'[q] = run[q]
<1>1. run \in [Requests -> Run] /\ run[r] \in Run
    BY DEF TypeOK
<1>2. [run[r] EXCEPT !.granted = b] \in Run
    BY <1>1 DEF Run
<1>3. run' = [run EXCEPT ![r] = [run[r] EXCEPT !.granted = b]]
    BY <1>1
<1>4. QED
    BY <1>1, <1>2, <1>3 DEF Run

\* A request remembers that it waits, or no longer waits.
LEMMA SetQueued ==
    ASSUME TypeOK, NEW r \in Requests, NEW b \in BOOLEAN,
           run' = [run EXCEPT ![r].queued = b]
    PROVE  /\ run' \in [Requests -> Run]
           /\ run'[r].granted = run[r].granted /\ run'[r].queued = b
           /\ \A q \in Requests : q # r => run'[q] = run[q]
<1>1. run \in [Requests -> Run] /\ run[r] \in Run
    BY DEF TypeOK
<1>2. [run[r] EXCEPT !.queued = b] \in Run
    BY <1>1 DEF Run
<1>3. run' = [run EXCEPT ![r] = [run[r] EXCEPT !.queued = b]]
    BY <1>1
<1>4. QED
    BY <1>1, <1>2, <1>3 DEF Run

\* A request remembers the load it has read.
LEMMA SetLoad ==
    ASSUME TypeOK, NEW r \in Requests, NEW b \in BOOLEAN,
           run' = [run EXCEPT ![r].load = b]
    PROVE  /\ run' \in [Requests -> Run]
           /\ run'[r].granted = run[r].granted /\ run'[r].queued = run[r].queued
           /\ \A q \in Requests : q # r => run'[q] = run[q]
<1>1. run \in [Requests -> Run] /\ run[r] \in Run
    BY DEF TypeOK
<1>2. [run[r] EXCEPT !.load = b] \in Run
    BY <1>1 DEF Run
<1>3. run' = [run EXCEPT ![r] = [run[r] EXCEPT !.load = b]]
    BY <1>1
<1>4. QED
    BY <1>1, <1>2, <1>3 DEF Run

\* A request that ends forgets everything.
LEMMA EndForgets ==
    ASSUME TypeOK, NEW r \in Requests, End(r)
    PROVE  /\ run' \in [Requests -> Run]
           /\ run'[r].granted = FALSE /\ run'[r].queued = FALSE
           /\ \A q \in Requests : q # r => run'[q] = run[q]
           /\ pc' = [pc EXCEPT ![r] = "ended"]
<1>1. run \in [Requests -> Run] /\ NoRun \in Run
    BY DEF TypeOK, Run, NoRun
<1>2. QED
    BY <1>1 DEF End, GoTo, NoRun

\* Every step keeps the types: among them the wait counter between zero and its limit.
LEMMA TypeStep ==
    ASSUME TypeOK, Next
    PROVE  TypeOK'
<1> USE SlotsAssumption
<1>1. ASSUME NEW r \in Requests, StartRequest(r)
      PROVE  TypeOK'
    BY <1>1 DEF StartRequest, GoTo, TypeOK
<1>2. ASSUME NEW r \in Requests, TryAcquire(r)
      PROVE  TypeOK'
    <2>1. CASE AcquireScript(r)
        BY <1>2, <2>1, SetGranted DEF TryAcquire, AcquireScript, GoTo, TypeOK
    <2>2. CASE GoTo(r, "enqueue") /\ UNCHANGED <<slots, run, troubles>>
        BY <1>2, <2>2 DEF TryAcquire, GoTo, TypeOK
    <2>3. CASE AcquireFails(r) /\ End(r)
        <3>1. slots' \subseteq Requests
            BY <2>3 DEF AcquireFails, TypeOK
        <3>2. QED
            BY <1>2, <2>3, <3>1, EndForgets, SufferCounts
            DEF TryAcquire, AcquireFails, TypeOK, Trouble
    <2>4. QED
        BY <1>2, <2>1, <2>2, <2>3 DEF TryAcquire
<1>3. ASSUME NEW r \in Requests, TouchActiveIndex(r)
      PROVE  TypeOK'
    <2>1. troubles' \in [Trouble -> 0..MaxTroubles] /\ index' \in BOOLEAN
        BY <1>3, SufferCounts DEF TouchActiveIndex, TypeOK, Trouble
    <2>2. pc' \in [Requests -> {"new", "acquire", "touch", "enqueue", "waiting", "decrement",
                                "readLoad", "writeIndex", "running", "ended"}]
        BY <1>3 DEF TouchActiveIndex, GoTo, TypeOK
    <2>3. QED
        BY <1>3, <2>1, <2>2 DEF TouchActiveIndex, TypeOK
<1>4. ASSUME NEW r \in Requests, IncrementWaitCount(r)
      PROVE  TypeOK'
    <2>1. waitCount' \in 0..QueueLimit
        BY <1>4 DEF IncrementWaitCount, TypeOK
    <2>2. troubles' \in [Trouble -> 0..MaxTroubles]
        BY <1>4, SufferCounts DEF IncrementWaitCount, TypeOK, Trouble
    <2>3. run' \in [Requests -> Run]
        BY <1>4, SetQueued, EndForgets DEF IncrementWaitCount
    <2>4. QED
        BY <1>4, <2>1, <2>2, <2>3 DEF IncrementWaitCount, End, GoTo, TypeOK
<1>5. ASSUME NEW r \in Requests, Poll(r)
      PROVE  TypeOK'
    <2>1. CASE AcquireScript(r)
        BY <1>5, <2>1, SetGranted DEF Poll, AcquireScript, GoTo, TypeOK
    <2>2. CASE AcquireFails(r) /\ GoTo(r, "decrement") /\ UNCHANGED run
        <3>1. slots' \subseteq Requests
            BY <2>2 DEF AcquireFails, TypeOK
        <3>2. QED
            BY <1>5, <2>2, <3>1, SufferCounts DEF Poll, AcquireFails, GoTo, TypeOK, Trouble
    <2>3. QED
        BY <1>5, <2>1, <2>2 DEF Poll
<1>6. ASSUME NEW r \in Requests, GiveUp(r)
      PROVE  TypeOK'
    BY <1>6 DEF GiveUp, GoTo, TypeOK
<1>7. ASSUME NEW r \in Requests, DecrementWaitCount(r)
      PROVE  TypeOK'
    <2>1. waitCount' \in 0..QueueLimit
        BY <1>7 DEF DecrementWaitCount, TypeOK
    <2>2. troubles' \in [Trouble -> 0..MaxTroubles]
        BY <1>7, SufferCounts DEF DecrementWaitCount, TypeOK, Trouble
    <2>3. run' \in [Requests -> Run]
        BY <1>7, SetQueued DEF DecrementWaitCount
    <2>4. QED
        BY <1>7, <2>1, <2>2, <2>3 DEF DecrementWaitCount, GoTo, TypeOK
<1>8. ASSUME NEW r \in Requests, ReadLoad(r)
      PROVE  TypeOK'
    <2>1. HasLoad \in BOOLEAN
        BY DEF HasLoad
    <2>2. run' \in [Requests -> Run]
        BY <1>8, <2>1, SetLoad, EndForgets DEF ReadLoad, AfterQueue, TypeOK
    <2>3. troubles' \in [Trouble -> 0..MaxTroubles]
        BY <1>8, SufferCounts DEF ReadLoad, TypeOK, Trouble
    <2>4. QED
        BY <1>8, <2>2, <2>3 DEF ReadLoad, AfterQueue, End, GoTo, TypeOK
<1>9. ASSUME NEW r \in Requests, WriteIndex(r)
      PROVE  TypeOK'
    <2>1. run[r].load \in BOOLEAN
        BY DEF TypeOK, Run
    <2>2. index' \in BOOLEAN
        BY <1>9, <2>1 DEF WriteIndex, TypeOK
    <2>3. run' \in [Requests -> Run]
        BY <1>9, SetLoad, EndForgets DEF WriteIndex
    <2>4. troubles' \in [Trouble -> 0..MaxTroubles]
        BY <1>9, SufferCounts DEF WriteIndex, TypeOK, Trouble
    <2>5. QED
        BY <1>9, <2>2, <2>3, <2>4 DEF WriteIndex, End, GoTo, TypeOK
<1>10. ASSUME NEW r \in Requests, ReleaseUserSlot(r)
       PROVE  TypeOK'
    <2>1. run' \in [Requests -> Run]
        BY <1>10, SetGranted DEF ReleaseUserSlot
    <2>2. troubles' \in [Trouble -> 0..MaxTroubles]
        BY <1>10, SufferCounts DEF ReleaseUserSlot, TypeOK, Trouble
    <2>3. QED
        BY <1>10, <2>1, <2>2 DEF ReleaseUserSlot, GoTo, TypeOK
<1>11. ASSUME NEW r \in Requests, SlotExpires(r)
       PROVE  TypeOK'
    BY <1>11, SufferCounts DEF SlotExpires, TypeOK, Trouble
<1>12. ASSUME NEW i \in Instances, StartInstance(i)
       PROVE  TypeOK'
    BY <1>12, SufferCounts DEF StartInstance, TypeOK, Trouble
<1>13. ASSUME NEW i \in Instances, CleanupStaleProcessSlots(i)
       PROVE  TypeOK'
    <2>1. troubles' \in [Trouble -> 0..MaxTroubles]
        BY <1>13, SufferCounts DEF CleanupStaleProcessSlots, TypeOK, Trouble
    <2>2. slots' \subseteq Requests /\ waitCount' \in 0..QueueLimit
        <3>1. slots' \in {slots, {}} /\ waitCount' \in {waitCount, 0}
            BY <1>13 DEF CleanupStaleProcessSlots
        <3>2. QED
            BY <3>1 DEF TypeOK
    <2>3. index' \in BOOLEAN
        BY <1>13 DEF CleanupStaleProcessSlots, TypeOK
    <2>4. instance' \in [Instances -> {"down", "scan", "sweepSlots", "sweepWait", "sweepIndex",
                                       "serving", "reconcile"}]
        BY <1>13 DEF CleanupStaleProcessSlots, TypeOK
    <2>5. QED
        BY <1>13, <2>1, <2>2, <2>3, <2>4 DEF CleanupStaleProcessSlots, TypeOK
<1>14. ASSUME NEW i \in Instances, ReconcileExpiredIndex(i)
       PROVE  TypeOK'
    <2>1. HasLoad \in BOOLEAN /\ load[i] \in BOOLEAN
        BY DEF HasLoad, TypeOK
    <2>2. load' \in [Instances -> BOOLEAN] /\ index' \in BOOLEAN
        BY <1>14, <2>1 DEF ReconcileExpiredIndex, TypeOK
    <2>3. QED
        BY <1>14, <2>2 DEF ReconcileExpiredIndex, TypeOK
<1>15. ASSUME NEW i \in Instances, Crash(i)
       PROVE  TypeOK'
    <2>1. troubles' \in [Trouble -> 0..MaxTroubles]
        BY <1>15, SufferCounts DEF Crash, Trouble
    <2>2. run' \in [Requests -> Run]
        BY <1>15 DEF Crash, TypeOK, Run, NoRun
    <2>3. QED
        BY <1>15, <2>1, <2>2 DEF Crash, TypeOK
<1>16. CASE WaitCountExpires
    BY <1>16 DEF WaitCountExpires, TypeOK
<1>17. QED
    BY <1>1, <1>2, <1>3, <1>4, <1>5, <1>6, <1>7, <1>8, <1>9, <1>10, <1>11, <1>12, <1>13, <1>14,
       <1>15, <1>16 DEF Next, Request, Instance

\* A step of one request leaves the others where they are.
LEMMA OthersLabelled ==
    ASSUME LabelInv, NEW r \in Requests,
           \A q \in Requests : q # r => run'[q] = run[q] /\ pc'[q] = pc[q],
           Labelled(r)'
    PROVE  LabelInv'
BY DEF LabelInv, Labelled

\* A step of a request keeps the labels and what it remembers in agreement.
LEMMA LabelStep ==
    ASSUME TypeOK, LabelInv, Next
    PROVE  LabelInv'
<1> USE DEF GoTo
<1>a. \A r \in Requests : /\ Labelled(r) /\ run[r].granted \in BOOLEAN /\ run[r].queued \in BOOLEAN
                          /\ pc \in [Requests -> {"new", "acquire", "touch", "enqueue", "waiting",
                                 "decrement", "readLoad", "writeIndex", "running", "ended"}]
    BY DEF LabelInv, TypeOK, Run
<1>b. ASSUME NEW r \in Requests, End(r)
      PROVE  LabelInv'
    BY <1>b, <1>a, EndForgets, OthersLabelled DEF Labelled
<1>1. ASSUME NEW r \in Requests, StartRequest(r)
      PROVE  LabelInv'
    BY <1>1, <1>a, OthersLabelled DEF StartRequest, Labelled
<1>c. ASSUME NEW r \in Requests, AcquireScript(r), pc[r] \in {"acquire", "waiting"}
      PROVE  LabelInv'
    BY <1>c, <1>a, SetGranted, OthersLabelled DEF AcquireScript, Labelled
<1>2. ASSUME NEW r \in Requests, TryAcquire(r)
      PROVE  LabelInv'
    <2>1. CASE GoTo(r, "enqueue") /\ UNCHANGED <<slots, run, troubles>>
        BY <1>2, <2>1, <1>a, OthersLabelled DEF TryAcquire, Labelled
    <2>2. QED
        BY <1>2, <1>b, <1>c, <2>1 DEF TryAcquire
<1>3. ASSUME NEW r \in Requests, TouchActiveIndex(r)
      PROVE  LabelInv'
    <2>1. CASE run[r].granted /\ run[r].queued
        BY <1>3, <1>a, <2>1, OthersLabelled DEF TouchActiveIndex, Labelled
    <2>2. CASE run[r].granted /\ ~run[r].queued
        BY <1>3, <1>a, <2>2, OthersLabelled DEF TouchActiveIndex, Labelled
    <2>3. CASE ~run[r].granted
        BY <1>3, <1>a, <2>3, OthersLabelled DEF TouchActiveIndex, Labelled
    <2>4. QED
        BY <1>a, <2>1, <2>2, <2>3
<1>4. ASSUME NEW r \in Requests, IncrementWaitCount(r)
      PROVE  LabelInv'
    <2>1. ASSUME run' = [run EXCEPT ![r].queued = TRUE], GoTo(r, "touch") \/ GoTo(r, "waiting")
          PROVE  LabelInv'
        BY <1>4, <2>1, <1>a, SetQueued, OthersLabelled DEF IncrementWaitCount, Labelled
    <2>2. QED
        BY <1>4, <1>b, <2>1 DEF IncrementWaitCount
<1>5. ASSUME NEW r \in Requests, Poll(r)
      PROVE  LabelInv'
    <2>1. CASE GoTo(r, "decrement") /\ UNCHANGED run
        BY <1>5, <1>a, <2>1, OthersLabelled DEF Poll, Labelled
    <2>2. QED
        BY <1>5, <1>c, <2>1 DEF Poll
<1>6. ASSUME NEW r \in Requests, GiveUp(r)
      PROVE  LabelInv'
    BY <1>6, <1>a, OthersLabelled DEF GiveUp, Labelled
<1>7. ASSUME NEW r \in Requests, DecrementWaitCount(r)
      PROVE  LabelInv'
    <2>1. run' = [run EXCEPT ![r].queued = FALSE]
        BY <1>7 DEF DecrementWaitCount
    <2>2. \/ pc' = [pc EXCEPT ![r] = "readLoad"]
          \/ run[r].granted /\ pc' = [pc EXCEPT ![r] = "running"]
          \/ ~run[r].granted /\ pc' = [pc EXCEPT ![r] = "ended"]
        BY <1>7 DEF DecrementWaitCount
    <2>3. /\ run'[r].granted = run[r].granted /\ run'[r].queued = FALSE
          /\ \A q \in Requests : q # r => run'[q] = run[q] /\ pc'[q] = pc[q]
        BY <2>1, <2>2, <1>a, SetQueued
    <2>4. Labelled(r)'
        BY <1>a, <2>2, <2>3 DEF Labelled
    <2>5. QED
        BY <2>3, <2>4, OthersLabelled
<1>8. ASSUME NEW r \in Requests, ReadLoad(r)
      PROVE  LabelInv'
    <2>1. CASE run' = [run EXCEPT ![r].load = HasLoad] /\ GoTo(r, "writeIndex")
        <3>1. HasLoad \in BOOLEAN
            BY DEF HasLoad
        <3>2. QED
            BY <1>8, <1>a, <2>1, <3>1, SetLoad, OthersLabelled DEF ReadLoad, Labelled
    <2>2. CASE run[r].granted /\ GoTo(r, "running") /\ UNCHANGED run
        BY <1>8, <1>a, <2>2, OthersLabelled DEF ReadLoad, Labelled
    <2>3. QED
        BY <1>8, <1>b, <2>1, <2>2 DEF ReadLoad, AfterQueue
<1>9. ASSUME NEW r \in Requests, WriteIndex(r)
      PROVE  LabelInv'
    <2>1. CASE run[r].granted
        BY <1>9, <1>a, <2>1, SetLoad, OthersLabelled DEF WriteIndex, Labelled
    <2>2. QED
        BY <1>9, <1>b, <2>1 DEF WriteIndex
<1>10. ASSUME NEW r \in Requests, ReleaseUserSlot(r)
       PROVE  LabelInv'
    <2>1. /\ run'[r].granted = FALSE /\ run'[r].queued = run[r].queued
          /\ \A q \in Requests : q # r => run'[q] = run[q] /\ pc'[q] = pc[q]
        BY <1>10, <1>a, SetGranted DEF ReleaseUserSlot
    <2>2. pc'[r] \in {"readLoad", "ended"} /\ ~run[r].queued
        BY <1>10, <1>a DEF ReleaseUserSlot, Labelled
    <2>3. QED
        BY <2>1, <2>2, OthersLabelled DEF Labelled
<1>11. ASSUME NEW i \in Instances, Crash(i)
       PROVE  LabelInv'
    BY <1>11, <1>a DEF Crash, LabelInv, Labelled, NoRun
<1>12. ASSUME UNCHANGED <<pc, run>>
       PROVE  LabelInv'
    BY <1>12 DEF LabelInv, Labelled
<1>13. QED
    BY <1>1, <1>2, <1>3, <1>4, <1>5, <1>6, <1>7, <1>8, <1>9, <1>10, <1>11, <1>12
    DEF Next, Request, Instance, SlotExpires, StartInstance, CleanupStaleProcessSlots,
        ReconcileExpiredIndex, WaitCountExpires

\* What no step of a request does: begin a request, move one, or touch an instance.
LEMMA RequestStep ==
    ASSUME TypeOK, NEW r \in Requests, Request(r)
    PROVE  /\ pc[r] \notin {"new", "ended"}
           /\ \A q \in Requests : q # r => pc'[q] = pc[q]
           /\ UNCHANGED <<home, instance>>
           /\ troubles'["started"] = troubles["started"]
           /\ troubles'["crash"] = troubles["crash"]
           /\ troubles'["expired"] = troubles["expired"]
<1>1. /\ pc[r] \notin {"new", "ended"}
      /\ UNCHANGED <<home, instance>>
      /\ UNCHANGED troubles \/ Suffer("redis")
    BY DEF Request, TryAcquire, AcquireScript, AcquireFails, TouchActiveIndex, IncrementWaitCount,
           Poll, GiveUp, DecrementWaitCount, ReadLoad, WriteIndex, ReleaseUserSlot
<1>2. \E label : GoTo(r, label)
    BY DEF Request, TryAcquire, AcquireScript, AcquireFails, TouchActiveIndex, IncrementWaitCount,
           Poll, GiveUp, DecrementWaitCount, ReadLoad, AfterQueue, WriteIndex, ReleaseUserSlot, End
<1>3. \A q \in Requests : q # r => pc'[q] = pc[q]
    BY <1>2 DEF GoTo, TypeOK
<1>4. QED
    BY <1>1, <1>3, SufferCounts DEF Trouble

\* The requests of an instance end with it, and begin only when it serves.
LEMMA HomeStep ==
    ASSUME TypeOK, HomeInv, Next
    PROVE  HomeInv'
<1>1. ASSUME NEW r \in Requests, StartRequest(r)
      PROVE  HomeInv'
    BY <1>1 DEF StartRequest, GoTo, HomeInv, InProgress, Serving, TypeOK
<1>2. ASSUME NEW r \in Requests, Request(r)
      PROVE  HomeInv'
    BY <1>2, RequestStep DEF HomeInv, InProgress, Serving
<1>3. ASSUME NEW i \in Instances, Instance(i)
      PROVE  HomeInv'
    <2>1. UNCHANGED <<home, pc>>
        BY <1>3 DEF Instance, StartInstance, CleanupStaleProcessSlots, ReconcileExpiredIndex
    <2>2. \A j \in Instances : j # i => instance'[j] = instance[j]
        BY <1>3 DEF Instance, StartInstance, CleanupStaleProcessSlots, ReconcileExpiredIndex, TypeOK
    <2>3. Serving(i) => Serving(i)'
        BY <1>3 DEF Instance, StartInstance, CleanupStaleProcessSlots, ReconcileExpiredIndex,
                    Serving, TypeOK
    <2>4. QED
        BY <2>1, <2>2, <2>3 DEF HomeInv, InProgress, Serving
<1>4. ASSUME NEW i \in Instances, Crash(i)
      PROVE  HomeInv'
    BY <1>4 DEF Crash, HomeInv, InProgress, Serving, TypeOK
<1>5. ASSUME UNCHANGED <<home, pc, instance>>
      PROVE  HomeInv'
    BY <1>5 DEF HomeInv, InProgress, Serving
<1>6. QED
    BY <1>1, <1>2, <1>3, <1>4, <1>5 DEF Next, SlotExpires, WaitCountExpires

\* A second instance does not start unnoticed.
LEMMA AloneStep ==
    ASSUME TypeOK, AloneInv, Next
    PROVE  AloneInv'
<1>a. \A t \in Trouble : troubles[t] \in Nat
    BY SlotsAssumption DEF TypeOK
<1>1. ASSUME NEW i \in Instances, StartInstance(i)
      PROVE  AloneInv'
    <2>1. CASE \E j \in Instances : instance[j] # "down"
        <3>1. troubles'["started"] # 0
            BY <1>1, <1>a, <2>1, SufferCounts DEF StartInstance, Trouble
        <3>2. QED
            BY <3>1 DEF AloneInv
    <2>2. CASE ~ \E j \in Instances : instance[j] # "down"
        BY <1>1, <2>2 DEF StartInstance, AloneInv, TypeOK
    <2>3. QED
        BY <2>1, <2>2
<1>2. ASSUME \A j \in Instances : instance[j] = "down" => instance'[j] = "down",
             troubles'["started"] = troubles["started"]
      PROVE  AloneInv'
    BY <1>2 DEF AloneInv
<1>3. ASSUME NEW r \in Requests, StartRequest(r)
      PROVE  AloneInv'
    BY <1>2, <1>3 DEF StartRequest
<1>4. ASSUME NEW r \in Requests, Request(r)
      PROVE  AloneInv'
    BY <1>2, <1>4, RequestStep
<1>5. ASSUME NEW r \in Requests, SlotExpires(r)
      PROVE  AloneInv'
    BY <1>2, <1>5, SufferCounts DEF SlotExpires, Trouble
<1>6. ASSUME NEW i \in Instances, CleanupStaleProcessSlots(i)
      PROVE  AloneInv'
    <2>1. troubles'["started"] = troubles["started"]
        BY <1>6, SufferCounts DEF CleanupStaleProcessSlots, Trouble
    <2>2. \A j \in Instances : instance[j] = "down" => instance'[j] = "down"
        BY <1>6 DEF CleanupStaleProcessSlots, TypeOK
    <2>3. QED
        BY <1>2, <2>1, <2>2
<1>7. ASSUME NEW i \in Instances, ReconcileExpiredIndex(i)
      PROVE  AloneInv'
    BY <1>2, <1>7 DEF ReconcileExpiredIndex, TypeOK
<1>8. ASSUME NEW i \in Instances, Crash(i)
      PROVE  AloneInv'
    BY <1>2, <1>8, SufferCounts DEF Crash, TypeOK, Trouble
<1>9. CASE WaitCountExpires
    BY <1>2, <1>9 DEF WaitCountExpires
<1>10. QED
    BY <1>1, <1>3, <1>4, <1>5, <1>6, <1>7, <1>8, <1>9 DEF Next, Instance

\* An instance that is alone and cleans up finds no request under way.
LEMMA CleaningIsAlone ==
    ASSUME TypeOK, LabelInv, HomeInv, AloneInv, troubles["started"] = 0,
           NEW i \in Instances, instance[i] \in {"sweepSlots", "sweepWait"}
    PROVE  Holders = {} /\ Waiters = {}
<1>1. \A j \in Instances : ~Serving(j)
    BY DEF AloneInv, Serving
<1>2. InProgress = {}
    BY <1>1 DEF HomeInv, InProgress
<1>3. QED
    BY <1>2 DEF LabelInv, Labelled, InProgress, Holders, Waiters

\* All sets here are finite, all counters are natural numbers.
LEMMA FiniteFacts ==
    ASSUME TypeOK
    PROVE  /\ IsFiniteSet(slots) /\ Cardinality(slots) \in Nat
           /\ IsFiniteSet(Holders) /\ Cardinality(Holders) \in Nat
           /\ IsFiniteSet(Waiters) /\ Cardinality(Waiters) \in Nat
           /\ waitCount \in Nat /\ QueueLimit \in Nat /\ MaxConcurrency \in Nat \ {0}
           /\ \A t \in Trouble : troubles[t] \in Nat
<1>1. slots \in SUBSET Requests /\ Holders \in SUBSET Requests /\ Waiters \in SUBSET Requests
    BY DEF TypeOK, Holders, Waiters
<1>2. IsFiniteSet(slots) /\ IsFiniteSet(Holders) /\ IsFiniteSet(Waiters)
    BY <1>1, SlotsAssumption, FS_Subset
<1>3. /\ waitCount \in Nat /\ QueueLimit \in Nat /\ MaxConcurrency \in Nat \ {0}
      /\ \A t \in Trouble : troubles[t] \in Nat
    BY SlotsAssumption DEF TypeOK
<1>4. QED
    BY <1>2, <1>3, FS_CardinalityType

\* Who holds a slot and who waits, after a step of one request.
LEMMA HolderSets ==
    ASSUME NEW r \in Requests, \A q \in Requests : q # r => run'[q] = run[q]
    PROVE  /\ run'[r].granted => Holders' = Holders \cup {r}
           /\ ~run'[r].granted => Holders' = Holders \ {r}
           /\ run'[r].queued => Waiters' = Waiters \cup {r}
           /\ ~run'[r].queued => Waiters' = Waiters \ {r}
           /\ (run'[r].granted <=> run[r].granted) => Holders' = Holders
           /\ (run'[r].queued <=> run[r].queued) => Waiters' = Waiters
BY DEF Holders, Waiters

\* A slot that is granted makes the set no larger than its limit.
LEMMA OneMoreSlot ==
    ASSUME TypeOK, NEW r, Cardinality(slots) < MaxConcurrency
    PROVE  Cardinality(slots \cup {r}) <= MaxConcurrency
<1>1. Cardinality(slots \cup {r}) \in {Cardinality(slots), Cardinality(slots) + 1}
    BY FiniteFacts, FS_AddElement
<1>2. QED
    BY <1>1, FiniteFacts

\* Giving slots back keeps the set within its limit.
LEMMA FewerSlots ==
    ASSUME TypeOK, Cardinality(slots) <= MaxConcurrency, slots' \subseteq slots
    PROVE  Cardinality(slots') <= MaxConcurrency
<1>1. Cardinality(slots') <= Cardinality(slots) /\ Cardinality(slots') \in Nat
    BY FiniteFacts, FS_Subset, FS_CardinalityType
<1>2. QED
    BY <1>1, FiniteFacts

-----------------------------------------------------------------------------
(* What the steps of a request do to the slots and to the wait counter     *)

RedisFailed == troubles'["redis"] = troubles["redis"] + 1

\* The script granted a slot; the answer may be lost.
GrantEffect(r) ==
    /\ Cardinality(slots) < MaxConcurrency /\ slots' = slots \cup {r}
    /\ Holders' = Holders \cup {r} \/ (RedisFailed /\ Holders' = Holders)
    /\ UNCHANGED <<waitCount, Waiters>>

\* The request joined the queue, counted or not.
JoinEffect(r) ==
    /\ r \notin Waiters /\ Waiters' = Waiters \cup {r}
    /\ waitCount' = waitCount + 1 \/ (RedisFailed /\ UNCHANGED waitCount)
    /\ UNCHANGED <<slots, Holders>>

\* The request left the queue; the decrement may fail.
LeaveEffect(r) ==
    /\ r \in Waiters /\ Waiters' = Waiters \ {r}
    /\ \/ waitCount' = IF waitCount > 0 THEN waitCount - 1 ELSE 0
       \/ RedisFailed /\ UNCHANGED waitCount
    /\ UNCHANGED <<slots, Holders>>

\* The request gave its slot back; the removal may fail.
ReleaseEffect(r) ==
    /\ Holders' = Holders \ {r}
    /\ slots' = slots \ {r} \/ (RedisFailed /\ UNCHANGED slots)
    /\ UNCHANGED <<waitCount, Waiters>>

NoEffect == UNCHANGED <<slots, Holders, waitCount, Waiters>>

\* Every call a request makes does one of these five things, and no request drops a slot
\* or a wait count it should give back.
LEMMA RequestEffect ==
    ASSUME TypeOK, LabelInv, NEW r \in Requests, Request(r)
    PROVE  /\ troubles' = troubles \/ RedisFailed
           /\ GrantEffect(r) \/ JoinEffect(r) \/ LeaveEffect(r) \/ ReleaseEffect(r) \/ NoEffect
<1>a. Labelled(r) /\ run[r].granted \in BOOLEAN /\ run[r].queued \in BOOLEAN
    BY DEF LabelInv, TypeOK, Run
<1>b. Suffer("redis") => RedisFailed
    BY SufferCounts DEF RedisFailed, Trouble
<1>c. troubles' = troubles \/ RedisFailed
    BY <1>b DEF Request, TryAcquire, AcquireScript, AcquireFails, TouchActiveIndex,
                IncrementWaitCount, Poll, GiveUp, DecrementWaitCount, ReadLoad, WriteIndex,
                ReleaseUserSlot
<1>d. UNCHANGED run => UNCHANGED <<Holders, Waiters>>
    BY DEF Holders, Waiters
<1>e. ASSUME End(r), ~run[r].granted, ~run[r].queued
      PROVE  UNCHANGED <<Holders, Waiters>>
    BY <1>e, EndForgets, HolderSets
<1>f. (r \in Waiters <=> run[r].queued) /\ (r \in Holders <=> run[r].granted)
    BY DEF Waiters, Holders
<1>g. ASSUME AcquireScript(r), UNCHANGED waitCount
      PROVE  GrantEffect(r)
    <2>1. Holders' = Holders \cup {r} /\ Waiters' = Waiters
        BY <1>g, SetGranted, HolderSets DEF AcquireScript
    <2>2. QED
        BY <1>g, <2>1 DEF AcquireScript, GrantEffect
<1>h. ASSUME AcquireFails(r), UNCHANGED <<waitCount, Holders, Waiters>>
      PROVE  GrantEffect(r) \/ NoEffect
    BY <1>h, <1>b DEF AcquireFails, GrantEffect, NoEffect
<1>1. CASE TryAcquire(r)
    <2>1. ~run[r].granted /\ ~run[r].queued /\ UNCHANGED waitCount
        BY <1>1, <1>a DEF TryAcquire, Labelled
    <2>2. CASE UNCHANGED <<slots, run, troubles>>
        BY <2>1, <2>2, <1>d DEF NoEffect
    <2>3. QED
        BY <1>1, <1>c, <1>e, <1>g, <1>h, <2>1, <2>2 DEF TryAcquire
<1>2. CASE TouchActiveIndex(r)
    BY <1>2, <1>c, <1>d DEF TouchActiveIndex, NoEffect
<1>3. CASE IncrementWaitCount(r)
    <2>1. ~run[r].granted /\ ~run[r].queued /\ UNCHANGED slots
        BY <1>3, <1>a DEF IncrementWaitCount, Labelled
    <2>2. CASE run' = [run EXCEPT ![r].queued = TRUE]
        <3>1. Waiters' = Waiters \cup {r} /\ Holders' = Holders
            BY <2>2, SetQueued, HolderSets
        <3>2. \/ waitCount' = waitCount + 1
              \/ RedisFailed /\ UNCHANGED waitCount
              \/ waitCount >= QueueLimit /\ End(r) /\ UNCHANGED waitCount
            BY <1>3, <1>b DEF IncrementWaitCount
        <3>3. ~End(r)
            BY <2>2, SetQueued, EndForgets
        <3>4. QED
            BY <1>c, <1>f, <2>1, <3>1, <3>2, <3>3 DEF JoinEffect
    <2>3. CASE End(r) /\ UNCHANGED waitCount
        BY <1>c, <1>e, <2>1, <2>3 DEF NoEffect
    <2>4. QED
        BY <1>3, <2>2, <2>3 DEF IncrementWaitCount
<1>4. CASE Poll(r)
    <2>1. UNCHANGED waitCount
        BY <1>4 DEF Poll
    <2>2. QED
        BY <1>4, <1>c, <1>d, <1>g, <1>h, <2>1 DEF Poll
<1>5. CASE GiveUp(r)
    BY <1>5, <1>c, <1>d DEF GiveUp, NoEffect
<1>6. CASE DecrementWaitCount(r)
    <2>1. r \in Waiters /\ UNCHANGED slots
        BY <1>6, <1>a, <1>f DEF DecrementWaitCount, Labelled
    <2>2. Waiters' = Waiters \ {r} /\ Holders' = Holders
        BY <1>6, SetQueued, HolderSets DEF DecrementWaitCount
    <2>3. \/ waitCount' = IF waitCount > 0 THEN waitCount - 1 ELSE 0
          \/ RedisFailed /\ UNCHANGED waitCount
        BY <1>6, <1>b DEF DecrementWaitCount
    <2>4. QED
        BY <1>c, <2>1, <2>2, <2>3 DEF LeaveEffect
<1>7. CASE ReadLoad(r)
    <2>1. ~run[r].queued /\ UNCHANGED <<slots, waitCount>>
        BY <1>7, <1>a DEF ReadLoad, Labelled
    <2>2. CASE run' = [run EXCEPT ![r].load = HasLoad]
        <3>1. HasLoad \in BOOLEAN
            BY DEF HasLoad
        <3>2. UNCHANGED <<Holders, Waiters>>
            BY <2>2, <3>1, SetLoad, HolderSets
        <3>3. QED
            BY <1>c, <2>1, <3>2 DEF NoEffect
    <2>3. QED
        BY <1>7, <1>c, <1>d, <1>e, <2>1, <2>2 DEF ReadLoad, AfterQueue, NoEffect
<1>8. CASE WriteIndex(r)
    <2>1. ~run[r].queued /\ UNCHANGED <<slots, waitCount>>
        BY <1>8, <1>a DEF WriteIndex, Labelled
    <2>2. CASE run[r].granted
        <3>1. UNCHANGED <<Holders, Waiters>>
            BY <1>8, <2>2, SetLoad, HolderSets DEF WriteIndex
        <3>2. QED
            BY <1>c, <2>1, <3>1 DEF NoEffect
    <2>3. QED
        BY <1>8, <1>c, <1>e, <2>1, <2>2 DEF WriteIndex, NoEffect
<1>9. CASE ReleaseUserSlot(r)
    <2>1. Holders' = Holders \ {r} /\ Waiters' = Waiters
        BY <1>9, SetGranted, HolderSets DEF ReleaseUserSlot
    <2>2. QED
        BY <1>9, <1>b, <1>c, <2>1 DEF ReleaseUserSlot, ReleaseEffect
<1>10. QED
    BY <1>1, <1>2, <1>3, <1>4, <1>5, <1>6, <1>7, <1>8, <1>9 DEF Request

-----------------------------------------------------------------------------
(* Slots and waiters against Redis                                         *)

\* Whoever crashes, fails or expires, Redis covers what the requests hold.
LEMMA CoveredStep ==
    ASSUME IInv, Next
    PROVE  CoveredInv'
<1> USE DEF IInv
<1>a. TypeOK /\ TypeOK'
    BY TypeStep
<1>b. /\ \A t \in Trouble : troubles[t] \in Nat /\ troubles'[t] \in Nat
      /\ IsFiniteSet(Waiters) /\ Cardinality(Waiters) \in Nat /\ Cardinality(Waiters') \in Nat
      /\ waitCount \in Nat /\ waitCount' \in Nat
    <2>1. \A t \in Trouble : troubles'[t] \in Nat
        BY <1>a, SlotsAssumption DEF TypeOK
    <2>2. waitCount' \in Nat
        BY <1>a, SlotsAssumption DEF TypeOK
    <2>3. Waiters' \in SUBSET Requests
        BY DEF Waiters
    <2>4. Cardinality(Waiters') \in Nat
        BY <2>3, SlotsAssumption, FS_Subset, FS_CardinalityType
    <2>5. QED
        BY <1>a, <2>1, <2>2, <2>4, FiniteFacts
<1>c. /\ Cardinality(slots) <= MaxConcurrency
      /\ troubles["expired"] + troubles["started"] = 0 => Holders \subseteq slots
      /\ troubles["redis"] + troubles["started"] = 0 => Cardinality(Waiters) <= waitCount
    BY DEF CoveredInv
<1>d. \A t, u \in Trouble :
          /\ troubles'[t] + troubles'[u] = 0 <=> troubles'[t] = 0 /\ troubles'[u] = 0
          /\ troubles[t] + troubles[u] = 0 <=> troubles[t] = 0 /\ troubles[u] = 0
    BY <1>b
<1>e. ASSUME UNCHANGED <<slots, waitCount, run>>,
             troubles'["expired"] = 0 => troubles["expired"] = 0,
             troubles'["started"] = 0 => troubles["started"] = 0,
             troubles'["redis"] = 0 => troubles["redis"] = 0
      PROVE  CoveredInv'
    BY <1>e, <1>c, <1>d DEF CoveredInv, Holders, Waiters, Trouble
<1>1. ASSUME NEW r \in Requests, StartRequest(r)
      PROVE  CoveredInv'
    BY <1>1, <1>e DEF StartRequest
<1>2. ASSUME NEW r \in Requests, Request(r)
      PROVE  CoveredInv'
    <2>1. troubles'["started"] = troubles["started"] /\ troubles'["expired"] = troubles["expired"]
        BY <1>2, RequestStep
    <2>2. troubles'["redis"] = 0 => troubles["redis"] = 0 /\ ~RedisFailed
        BY <1>2, <1>b, RequestEffect DEF RedisFailed, Trouble
    <2>a. troubles'["redis"] + troubles'["started"] = 0 =>
              Cardinality(Waiters) <= waitCount /\ ~RedisFailed
        BY <1>c, <1>d, <2>1, <2>2 DEF Trouble
    <2>3. CASE GrantEffect(r)
        BY <1>c, <1>d, <2>1, <2>2, <2>3, OneMoreSlot DEF GrantEffect, CoveredInv, Trouble
    <2>4. CASE JoinEffect(r)
        <3>1. Cardinality(Waiters') = Cardinality(Waiters) + 1
            BY <1>b, <2>4, FS_AddElement DEF JoinEffect
        <3>2. troubles'["redis"] + troubles'["started"] = 0 => Cardinality(Waiters') <= waitCount'
            BY <1>b, <2>a, <2>4, <3>1 DEF JoinEffect
        <3>3. QED
            BY <1>c, <1>d, <2>1, <2>4, <3>2 DEF JoinEffect, CoveredInv, Trouble
    <2>5. CASE LeaveEffect(r)
        <3>1. Cardinality(Waiters') = Cardinality(Waiters) - 1
            BY <1>b, <2>5, FS_RemoveElement DEF LeaveEffect
        <3>2. troubles'["redis"] + troubles'["started"] = 0 => Cardinality(Waiters') <= waitCount'
            BY <1>b, <2>a, <2>5, <3>1 DEF LeaveEffect
        <3>3. QED
            BY <1>c, <1>d, <2>1, <2>5, <3>2 DEF LeaveEffect, CoveredInv, Trouble
    <2>6. CASE ReleaseEffect(r)
        <3>1. Cardinality(slots') <= MaxConcurrency
            BY <1>c, <2>6, FewerSlots DEF ReleaseEffect
        <3>2. QED
            BY <1>c, <1>d, <2>1, <2>2, <2>6, <3>1 DEF ReleaseEffect, CoveredInv, Trouble
    <2>7. CASE NoEffect
        BY <1>c, <1>d, <2>1, <2>2, <2>7 DEF NoEffect, CoveredInv, Trouble
    <2>8. QED
        BY <1>2, <2>3, <2>4, <2>5, <2>6, <2>7, RequestEffect
<1>3. ASSUME NEW r \in Requests, SlotExpires(r)
      PROVE  CoveredInv'
    <2>1. Cardinality(slots') <= MaxConcurrency
        BY <1>3, <1>c, FewerSlots DEF SlotExpires
    <2>2. UNCHANGED <<Holders, Waiters, waitCount>>
        BY <1>3 DEF SlotExpires, Holders, Waiters
    <2>3. CASE run[r].granted
        <3>1. Suffer("expired")
            BY <1>3, <2>3 DEF SlotExpires
        <3>2. /\ troubles'["expired"] # 0
              /\ troubles'["started"] = troubles["started"] /\ troubles'["redis"] = troubles["redis"]
            BY <3>1, <1>b, SufferCounts DEF Trouble
        <3>3. QED
            BY <1>c, <1>d, <2>1, <2>2, <3>2 DEF CoveredInv, Trouble
    <2>4. CASE ~run[r].granted
        <3>1. r \notin Holders /\ slots' = slots \ {r} /\ UNCHANGED troubles
            BY <1>3, <2>4 DEF SlotExpires, Holders
        <3>2. QED
            BY <1>c, <2>1, <2>2, <3>1 DEF CoveredInv
    <2>5. QED
        BY <2>3, <2>4
<1>4. ASSUME NEW i \in Instances, StartInstance(i)
      PROVE  CoveredInv'
    <2>1. troubles' = troubles \/ Suffer("started")
        BY <1>4 DEF StartInstance
    <2>2. QED
        BY <1>4, <1>b, <1>e, <2>1, SufferCounts DEF StartInstance, Trouble
<1>5. ASSUME NEW i \in Instances, CleanupStaleProcessSlots(i)
      PROVE  CoveredInv'
    <2>a. UNCHANGED <<Holders, Waiters>>
        BY <1>5 DEF CleanupStaleProcessSlots, Holders, Waiters
    <2>1. CASE UNCHANGED <<slots, waitCount>>
        <3>1. troubles' = troubles \/ Suffer("redis")
            BY <1>5 DEF CleanupStaleProcessSlots
        <3>2. QED
            BY <1>5, <1>b, <1>e, <2>1, <3>1, SufferCounts DEF CleanupStaleProcessSlots, Trouble
    <2>2. CASE instance[i] = "sweepSlots" /\ slots' = {} /\ UNCHANGED <<waitCount, troubles>>
        <3>1. troubles["started"] = 0 => Holders = {}
            BY <2>2, CleaningIsAlone
        <3>2. Cardinality(slots') <= MaxConcurrency
            BY <1>c, <2>2, FewerSlots
        <3>3. QED
            BY <1>c, <1>d, <2>2, <2>a, <3>1, <3>2 DEF CoveredInv, Trouble
    <2>3. CASE instance[i] = "sweepWait" /\ waitCount' = 0 /\ UNCHANGED <<slots, troubles>>
        <3>1. troubles["started"] = 0 => Waiters = {}
            BY <2>3, CleaningIsAlone
        <3>2. troubles["started"] = 0 => Cardinality(Waiters') <= waitCount'
            BY <2>3, <2>a, <3>1, FS_EmptySet
        <3>3. QED
            BY <1>c, <1>d, <2>3, <2>a, <3>2 DEF CoveredInv, Trouble
    <2>4. QED
        BY <1>5, <2>1, <2>2, <2>3 DEF CleanupStaleProcessSlots
<1>6. ASSUME NEW i \in Instances, ReconcileExpiredIndex(i)
      PROVE  CoveredInv'
    BY <1>6, <1>e DEF ReconcileExpiredIndex
<1>7. ASSUME NEW i \in Instances, Crash(i)
      PROVE  CoveredInv'
    <2>1. /\ Holders' \subseteq Holders /\ Waiters' \subseteq Waiters
          /\ UNCHANGED <<slots, waitCount>>
        BY <1>7 DEF Crash, Holders, Waiters, NoRun
    <2>2. Cardinality(Waiters') <= Cardinality(Waiters)
        BY <1>b, <2>1, FS_Subset
    <2>3. /\ troubles'["expired"] = troubles["expired"] /\ troubles'["started"] = troubles["started"]
          /\ troubles'["redis"] = troubles["redis"]
        BY <1>7, SufferCounts DEF Crash, Trouble
    <2>4. QED
        BY <1>b, <1>c, <2>1, <2>2, <2>3 DEF CoveredInv, Trouble
<1>8. CASE WaitCountExpires
    <2>1. Waiters' = {} /\ Holders' = Holders /\ waitCount' = 0 /\ UNCHANGED <<slots, troubles>>
        BY <1>8 DEF WaitCountExpires, Waiters, Holders
    <2>2. QED
        BY <1>c, <2>1, FS_EmptySet DEF CoveredInv
<1>9. QED
    BY <1>1, <1>2, <1>3, <1>4, <1>5, <1>6, <1>7, <1>8 DEF Next, Instance

\* Without a crash or an error no slot and no wait count is left without its request.
LEMMA OwnedStep ==
    ASSUME IInv, Next
    PROVE  OwnedInv'
<1> USE DEF IInv
<1>a. TypeOK /\ TypeOK'
    BY TypeStep
<1>b. /\ \A t \in Trouble : troubles[t] \in Nat /\ troubles'[t] \in Nat
      /\ IsFiniteSet(Waiters) /\ Cardinality(Waiters) \in Nat
      /\ waitCount \in Nat
    <2>1. \A t \in Trouble : troubles'[t] \in Nat
        BY <1>a, SlotsAssumption DEF TypeOK
    <2>2. QED
        BY <1>a, <2>1, FiniteFacts
<1>c. \A t, u \in Trouble :
          /\ troubles'[t] + troubles'[u] = 0 <=> troubles'[t] = 0 /\ troubles'[u] = 0
          /\ troubles[t] + troubles[u] = 0 <=> troubles[t] = 0 /\ troubles[u] = 0
    BY <1>b
<1>d. SUFFICES ASSUME troubles'["crash"] = 0, troubles'["redis"] = 0
               PROVE  slots' \subseteq Holders' /\ waitCount' <= Cardinality(Waiters')
    BY <1>c DEF OwnedInv, Trouble
<1>e. troubles["crash"] = 0 /\ troubles["redis"] = 0 =>
          slots \subseteq Holders /\ waitCount <= Cardinality(Waiters)
    BY <1>c DEF OwnedInv, Trouble
<1>f. ~Suffer("redis") /\ ~Suffer("crash")
    BY <1>b, <1>d, SufferCounts DEF Trouble
<1>1. ASSUME NEW r \in Requests, Request(r)
      PROVE  slots' \subseteq Holders' /\ waitCount' <= Cardinality(Waiters')
    <2>1. ~RedisFailed
        BY <1>b, <1>d DEF RedisFailed, Trouble
    <2>2. troubles' = troubles /\ slots \subseteq Holders /\ waitCount <= Cardinality(Waiters)
        BY <1>1, <1>d, <1>e, <2>1, RequestEffect
    <2>3. CASE GrantEffect(r)
        BY <2>1, <2>2, <2>3 DEF GrantEffect
    <2>4. CASE JoinEffect(r)
        <3>1. Cardinality(Waiters') = Cardinality(Waiters) + 1
            BY <1>b, <2>4, FS_AddElement DEF JoinEffect
        <3>2. waitCount' = waitCount + 1 /\ UNCHANGED <<slots, Holders>>
            BY <2>1, <2>4 DEF JoinEffect
        <3>3. QED
            BY <1>b, <2>2, <3>1, <3>2
    <2>5. CASE LeaveEffect(r)
        <3>1. Cardinality(Waiters') = Cardinality(Waiters) - 1 /\ Cardinality(Waiters') \in Nat
            BY <1>b, <2>5, FS_RemoveElement, FS_CardinalityType DEF LeaveEffect
        <3>2. /\ waitCount' = IF waitCount > 0 THEN waitCount - 1 ELSE 0
              /\ UNCHANGED <<slots, Holders>>
            BY <2>1, <2>5 DEF LeaveEffect
        <3>3. QED
            BY <1>b, <2>2, <3>1, <3>2
    <2>6. CASE ReleaseEffect(r)
        BY <2>1, <2>2, <2>6 DEF ReleaseEffect
    <2>7. CASE NoEffect
        BY <2>2, <2>7 DEF NoEffect
    <2>8. QED
        BY <1>1, <2>3, <2>4, <2>5, <2>6, <2>7, RequestEffect
<1>2. ASSUME UNCHANGED run, slots' \subseteq slots, waitCount' \in {0, waitCount},
             troubles'["crash"] = troubles["crash"], troubles'["redis"] = troubles["redis"]
      PROVE  slots' \subseteq Holders' /\ waitCount' <= Cardinality(Waiters')
    <2>1. UNCHANGED <<Holders, Waiters>>
        BY <1>2 DEF Holders, Waiters
    <2>2. QED
        BY <1>2, <1>b, <1>d, <1>e, <2>1
<1>3. ASSUME NEW r \in Requests, StartRequest(r)
      PROVE  slots' \subseteq Holders' /\ waitCount' <= Cardinality(Waiters')
    BY <1>2, <1>3 DEF StartRequest
<1>4. ASSUME NEW r \in Requests, SlotExpires(r)
      PROVE  slots' \subseteq Holders' /\ waitCount' <= Cardinality(Waiters')
    <2>1. troubles'["crash"] = troubles["crash"] /\ troubles'["redis"] = troubles["redis"]
        BY <1>4, SufferCounts DEF SlotExpires, Trouble
    <2>2. QED
        BY <1>2, <1>4, <2>1 DEF SlotExpires
<1>5. ASSUME NEW i \in Instances, StartInstance(i)
      PROVE  slots' \subseteq Holders' /\ waitCount' <= Cardinality(Waiters')
    <2>1. troubles'["crash"] = troubles["crash"] /\ troubles'["redis"] = troubles["redis"]
        BY <1>5, SufferCounts DEF StartInstance, Trouble
    <2>2. QED
        BY <1>2, <1>5, <2>1 DEF StartInstance
<1>6. ASSUME NEW i \in Instances, CleanupStaleProcessSlots(i)
      PROVE  slots' \subseteq Holders' /\ waitCount' <= Cardinality(Waiters')
    BY <1>2, <1>6, <1>f DEF CleanupStaleProcessSlots
<1>7. ASSUME NEW i \in Instances, ReconcileExpiredIndex(i)
      PROVE  slots' \subseteq Holders' /\ waitCount' <= Cardinality(Waiters')
    BY <1>2, <1>7 DEF ReconcileExpiredIndex
<1>8. CASE WaitCountExpires
    BY <1>2, <1>8 DEF WaitCountExpires
<1>9. QED
    BY <1>f, <1>1, <1>3, <1>4, <1>5, <1>6, <1>7, <1>8 DEF Next, Instance, Crash

-----------------------------------------------------------------------------

\* The inductive invariant holds in every reachable state.
LEMMA Invariant == Spec => []IInv
<1>1. Init => IInv
    <2> SUFFICES ASSUME Init
                 PROVE  IInv
        OBVIOUS
    <2>1. TypeOK
        <3>1. run \in [Requests -> Run] /\ waitCount \in 0..QueueLimit
            BY SlotsAssumption DEF Init, Run, NoRun
        <3>2. troubles \in [Trouble -> 0..MaxTroubles]
            BY SlotsAssumption DEF Init
        <3>3. QED
            BY <3>1, <3>2 DEF Init, TypeOK
    <2>2. Holders = {} /\ Waiters = {}
        BY DEF Init, Holders, Waiters, NoRun
    <2>3. LabelInv
        BY DEF Init, LabelInv, Labelled, NoRun
    <2>4. HomeInv /\ AloneInv
        BY DEF Init, HomeInv, AloneInv, InProgress
    <2>5. CoveredInv /\ OwnedInv
        <3>1. /\ Cardinality(slots) = 0 /\ Cardinality(Waiters) = 0
              /\ Cardinality(slots) <= MaxConcurrency
            BY <2>2, FS_EmptySet, SlotsAssumption DEF Init
        <3>2. slots = {} /\ waitCount = 0
            BY DEF Init
        <3>3. QED
            BY <2>2, <3>1, <3>2 DEF CoveredInv, OwnedInv
    <2>6. QED
        BY <2>1, <2>3, <2>4, <2>5 DEF IInv
<1>2. IInv /\ [Next]_vars => IInv'
    <2> SUFFICES ASSUME IInv, [Next]_vars
                 PROVE  IInv'
        OBVIOUS
    <2>1. CASE Next
        BY <2>1, TypeStep, LabelStep, HomeStep, AloneStep, CoveredStep, OwnedStep DEF IInv
    <2>2. CASE UNCHANGED vars
        BY <2>2 DEF vars, IInv, TypeOK, LabelInv, Labelled, HomeInv, AloneInv, CoveredInv, OwnedInv,
                    InProgress, Serving, Holders, Waiters
    <2>3. QED
        BY <2>1, <2>2
<1>3. QED
    BY <1>1, <1>2, PTL DEF Spec

\* The types, among them the wait counter that never leaves 0..QueueLimit.
THEOREM TypeCorrect == Spec => []TypeOK
<1>1. IInv => TypeOK
    BY DEF IInv
<1>2. QED
    BY <1>1, Invariant, PTL

\* No more requests than MaxConcurrency hold a slot of the user (acquireScript), whatever
\* fails and whoever dies, unless a slot expires under its request or an instance starts
\* beside another one.
THEOREM SlotLimitHolds == Spec => []SlotLimit
<1>1. IInv => SlotLimit
    <2> SUFFICES ASSUME IInv, troubles["expired"] + troubles["started"] = 0
                 PROVE  Cardinality(Holders) <= MaxConcurrency
        BY DEF SlotLimit
    <2>1. TypeOK /\ Holders \subseteq slots /\ Cardinality(slots) <= MaxConcurrency
        BY DEF IInv, CoveredInv
    <2>2. Cardinality(Holders) <= Cardinality(slots)
        BY <2>1, FiniteFacts, FS_Subset
    <2>3. QED
        BY <2>1, <2>2, FiniteFacts
<1>2. QED
    BY <1>1, Invariant, PTL

\* No more requests than QueueLimit wait (incrementWaitScript), whoever dies or gives up,
\* unless Redis fails or an instance starts beside another one.
THEOREM QueueBoundHolds == Spec => []QueueBound
<1>1. IInv => QueueBound
    <2> SUFFICES ASSUME IInv, troubles["redis"] + troubles["started"] = 0
                 PROVE  Cardinality(Waiters) <= QueueLimit
        BY DEF QueueBound
    <2>1. TypeOK /\ Cardinality(Waiters) <= waitCount
        BY DEF IInv, CoveredInv
    <2>2. waitCount <= QueueLimit
        BY <2>1, SlotsAssumption DEF TypeOK
    <2>3. QED
        BY <2>1, <2>2, FiniteFacts
<1>2. QED
    BY <1>1, Invariant, PTL

\* When all requests are over every slot and wait count has been given back, if no process
\* died and Redis answered.
THEOREM AllReturnedHolds == Spec => []AllReturned
<1>1. IInv => AllReturned
    <2> SUFFICES ASSUME IInv, InProgress = {}, troubles["crash"] + troubles["redis"] = 0
                 PROVE  slots = {} /\ waitCount = 0
        BY DEF AllReturned
    <2>1. Holders = {} /\ Waiters = {}
        BY DEF IInv, LabelInv, Labelled, InProgress, Holders, Waiters
    <2>2. slots \subseteq {} /\ waitCount <= 0
        BY <2>1, FS_EmptySet DEF IInv, OwnedInv
    <2>3. QED
        BY <2>2, FiniteFacts DEF IInv
<1>2. QED
    BY <1>1, Invariant, PTL
=============================================================================
