---------------------- MODULE SystemOperationLockProofs ----------------------
(***************************************************************************)
(* Proofs about SystemOperationLock for any number of operations, any      *)
(* operation ids and any times.  A reclaimed record keeps the operation id *)
(* of its creator and the renewal compares it with the holder's, so there  *)
(* are two kinds of holders: one whose record has its own id is renewed,   *)
(* and one that borrows another's record has a single lease.  Until a      *)
(* lease lapses the lock is exclusive for both.                            *)
(***************************************************************************)
EXTENDS SystemOperationLock, TLAPS

\* Acquire uses a time that has just been read, and reclaims a record that exists.
AcquireInv ==
    \A o \in Operations :
        /\ pc[o] \in Acquiring => /\ op[o].now <= clock /\ clock <= op[o].now + MaxAcquire
        /\ pc[o] # "idle" => op[o].operationID \in Fingerprints
        /\ pc[o] = "reclaim" => op[o].id # 0

\* The record of the table has the id of an operation.
RecordInv == row.id # 0 => row.fingerprint \in Fingerprints

\* A holder owns the record, and the lease lasts as long as it was set for.
HolderInv ==
    \A o \in Operations : pc[o] = "held" =>
        /\ row.id = op[o].id /\ row.id # 0 /\ row.status = "processing"
        /\ row.lockedUntil < row.expiresAt
        /\ op[o].heldAt <= clock
        /\ op[o].heldAt + Lease <= row.lockedUntil + MaxAcquire

\* A borrowed record is given up before its lease has passed.
BorrowInv ==
    \A o \in Operations : Borrows(o) => clock + MaxAcquire < op[o].heldAt + Lease

\* The renew loop of a record with the holder's id does not end, and a failed
\* renewal costs one interval.
RenewInv ==
    \A o \in Operations : pc[o] = "held" /\ ~Borrows(o) =>
        /\ op[o].renewing
        /\ op[o].missed <= Tolerated
        /\ op[o].renewedAt <= clock /\ clock <= op[o].renewedAt + RenewInterval
        /\ op[o].renewedAt + Lease
              <= row.lockedUntil + MaxAcquire + op[o].missed * RenewInterval

BasicInv == TypeOK /\ AcquireInv /\ RecordInv
LeaseInv == HolderInv /\ BorrowInv /\ RenewInv /\ MutualExclusion
IInv == BasicInv /\ (~lapsed => LeaseInv)

-----------------------------------------------------------------------------
(* Lemmas about the operators                                              *)

\* What the types say of a request and of the record.
LEMMA Fields ==
    ASSUME TypeOK
    PROVE  /\ clock \in Nat /\ clock <= MaxTime /\ lapsed \in BOOLEAN
           /\ row.id \in Nat /\ row.lockedUntil \in Nat /\ row.expiresAt \in Nat /\ lastId \in Nat
           /\ \A o \in Operations :
                 /\ op[o].now \in Nat /\ op[o].id \in Nat /\ op[o].heldAt \in Nat
                 /\ op[o].renewedAt \in Nat /\ op[o].renewing \in BOOLEAN
                 /\ op[o].missed \in Nat /\ op[o].missed <= MaxMissed
BY StoreAssumption, LockAssumption DEF TypeOK, Row, Op

\* The durations are natural numbers.
LEMMA Durations ==
    /\ MaxTime \in Nat /\ Lease \in Nat /\ LockTTL \in Nat /\ Lease < LockTTL
    /\ RenewInterval \in Nat /\ 0 < RenewInterval
    /\ MaxAcquire \in Nat /\ MaxHold \in Nat /\ Tolerated \in Nat /\ MaxMissed \in Nat
    /\ Tolerated * RenewInterval \in Nat
    /\ MaxAcquire + RenewInterval + Tolerated * RenewInterval < Lease
BY StoreAssumption, LockAssumption

\* A request that has returned has forgotten everything.
LEMMA ReturnFacts ==
    ASSUME TypeOK, NEW o \in Operations, Return(o)
    PROVE  /\ pc' \in [Operations -> Label] /\ op' \in [Operations -> Op]
           /\ pc'[o] = "idle"
           /\ \A q \in Operations : q # o => pc'[q] = pc[q] /\ op'[q] = op[q]
<1>1. NoOp \in Op
    BY Durations DEF NoOp, Op
<1>2. QED
    BY <1>1 DEF Return, TypeOK, Label

\* A request that holds the lock remembers its record and since when.
LEMMA HoldFacts ==
    ASSUME TypeOK, NEW o \in Operations, NEW id \in Nat, Hold(o, id)
    PROVE  /\ pc' \in [Operations -> Label] /\ op' \in [Operations -> Op]
           /\ pc'[o] = "held"
           /\ op'[o].id = id /\ op'[o].heldAt = clock /\ op'[o].renewedAt = clock
           /\ op'[o].renewing /\ op'[o].missed = 0 /\ op'[o].operationID = op[o].operationID
           /\ \A q \in Operations : q # o => pc'[q] = pc[q] /\ op'[q] = op[q]
<1>0. 0 \in 0..MaxMissed
    BY Durations
<1>1. op[o] \in Op /\ clock \in Nat
    BY Fields DEF TypeOK
<1>2. [op[o] EXCEPT !.id = id, !.heldAt = clock, !.renewedAt = clock, !.renewing = TRUE,
                    !.missed = 0] \in Op
    BY <1>0, <1>1 DEF Op
<1>3. QED
    BY <1>1, <1>2 DEF Hold, TypeOK, Label, Op

\* A tick of the renew loop that goes on ...
LEMMA LoopFacts ==
    ASSUME TypeOK, NEW o \in Operations, NEW m \in 0..MaxMissed,
           op' = [op EXCEPT ![o] = [@ EXCEPT !.renewedAt = clock, !.missed = m]]
    PROVE  /\ op' \in [Operations -> Op]
           /\ \A q \in Operations : q # o => op'[q] = op[q]
           /\ op'[o].id = op[o].id /\ op'[o].heldAt = op[o].heldAt
           /\ op'[o].operationID = op[o].operationID
           /\ op'[o].renewedAt = clock /\ op'[o].renewing = op[o].renewing
           /\ op'[o].missed = m
<1>1. op[o] \in Op /\ clock \in Nat /\ op \in [Operations -> Op]
    BY Fields DEF TypeOK
<1>2. [op[o] EXCEPT !.renewedAt = clock, !.missed = m] \in Op
    BY <1>1 DEF Op
<1>3. QED
    BY <1>1, <1>2 DEF Op

\* ... and one that ends it.
LEMMA EndFacts ==
    ASSUME TypeOK, NEW o \in Operations, op' = [op EXCEPT ![o].renewing = FALSE]
    PROVE  /\ op' \in [Operations -> Op]
           /\ \A q \in Operations : q # o => op'[q] = op[q]
           /\ op'[o].id = op[o].id /\ op'[o].heldAt = op[o].heldAt
           /\ op'[o].operationID = op[o].operationID
<1>1. op[o] \in Op /\ op \in [Operations -> Op]
    BY DEF TypeOK
<1>2. [op[o] EXCEPT !.renewing = FALSE] \in Op
    BY <1>1 DEF Op
<1>3. op' = [op EXCEPT ![o] = [op[o] EXCEPT !.renewing = FALSE]]
    BY <1>1
<1>4. QED
    BY <1>1, <1>2, <1>3 DEF Op

\* TryReclaim and ExtendProcessingLock keep the id and the fingerprint of the record.
LEMMA ReclaimFacts ==
    ASSUME row \in Row, NEW until \in Nat, NEW expires \in Nat,
           Reclaim(until, expires) \/ Extend(until, expires)
    PROVE  /\ row' \in Row /\ row'.id = row.id /\ row'.fingerprint = row.fingerprint
           /\ row'.lockedUntil = until /\ row'.expiresAt = expires /\ UNCHANGED lastId
           /\ Reclaim(until, expires) => row'.status = "processing"
           /\ Extend(until, expires) => row'.status = row.status
<1>1. CASE Reclaim(until, expires)
    BY <1>1 DEF Reclaim, Extend, Row, RecordStatus
<1>2. CASE Extend(until, expires)
    BY <1>2 DEF Reclaim, Extend, Row, RecordStatus
<1>3. QED
    BY <1>1, <1>2

\* So do MarkSucceeded and MarkFailedRetryable.
LEMMA MarkFacts ==
    ASSUME row \in Row, NEW id \in Nat, NEW body \in Fingerprints \cup {NoFingerprint},
           NEW until \in Nat, NEW expires \in Nat,
           MarkSucceeded(id, body, expires) \/ MarkFailedRetryable(id, until, expires)
    PROVE  /\ row' \in Row /\ row'.id = row.id /\ row'.fingerprint = row.fingerprint
           /\ row'.lockedUntil \in {0, until, row.lockedUntil}
<1>1. CASE row' = row
    BY <1>1
<1>2. CASE row' = [row EXCEPT !.status = "succeeded", !.lockedUntil = 0,
                              !.expiresAt = expires, !.body = body]
    BY <1>2 DEF Row, RecordStatus
<1>3. CASE row' = [row EXCEPT !.status = "failed_retryable", !.lockedUntil = until,
                              !.expiresAt = expires]
    BY <1>3 DEF Row, RecordStatus
<1>4. QED
    BY <1>1, <1>2, <1>3 DEF MarkSucceeded, MarkFailedRetryable

-----------------------------------------------------------------------------
(* What the steps do to the lock                                           *)

\* Nothing.
Waits(o) ==
    /\ pc[o] # "held" \/ pc'[o] = "idle"
    /\ pc'[o] # "held"
    /\ UNCHANGED <<clock, row, lastId, lapsed>>

\* The record is created, or reclaimed because the lease had run out.
Acquires(o) ==
    /\ pc[o] \in Acquiring /\ pc'[o] = "held"
    /\ Missing \/ row.lockedUntil <= op[o].now
    /\ row' \in Row /\ row'.id = op'[o].id /\ row'.id # 0 /\ row'.status = "processing"
    /\ row'.fingerprint \in Fingerprints
    /\ row'.lockedUntil = op[o].now + Lease /\ row'.expiresAt = op[o].now + LockTTL
    /\ op'[o].heldAt = clock /\ op'[o].renewedAt = clock /\ op'[o].renewing
    /\ op'[o].missed = 0
    /\ UNCHANGED <<clock, lapsed>>

\* The renewal fails.
Misses(o) ==
    /\ pc[o] = "held" /\ pc'[o] = "held" /\ RenewDue(o)
    /\ op'[o].missed = op[o].missed + 1
    /\ op'[o].renewedAt = clock /\ op'[o].renewing = op[o].renewing
    /\ op'[o].id = op[o].id /\ op'[o].heldAt = op[o].heldAt
    /\ op'[o].operationID = op[o].operationID
    /\ lapsed' = (lapsed \/ op[o].missed >= Tolerated)
    /\ UNCHANGED <<clock, row, lastId>>

\* The lease is renewed.
Extends(o) ==
    /\ pc[o] = "held" /\ pc'[o] = "held" /\ RenewDue(o)
    /\ row' \in Row /\ row'.id = row.id /\ row'.status = row.status
    /\ row'.fingerprint = row.fingerprint
    /\ row'.lockedUntil = clock + Lease /\ row'.expiresAt = clock + LockTTL
    /\ op'[o].renewedAt = clock /\ op'[o].renewing = op[o].renewing
    /\ op'[o].id = op[o].id /\ op'[o].heldAt = op[o].heldAt /\ op'[o].missed = 0
    /\ op'[o].operationID = op[o].operationID
    /\ UNCHANGED <<clock, lastId, lapsed>>

\* The renew loop ends because the record has another operation id or owner.
Ends(o) ==
    /\ pc[o] = "held" /\ pc'[o] = "held"
    /\ ~Extendable(op[o].id, op[o].operationID)
    /\ op'[o].id = op[o].id /\ op'[o].heldAt = op[o].heldAt
    /\ op'[o].operationID = op[o].operationID
    /\ UNCHANGED <<clock, row, lastId, lapsed>>

\* The holder gives the lock up.
Releases(o) ==
    /\ pc[o] = "held" /\ pc'[o] = "idle"
    /\ row' \in Row /\ row'.id = row.id /\ row'.fingerprint = row.fingerprint
    /\ row'.lockedUntil <= MaxTime + Lease
    /\ UNCHANGED <<clock, lastId, lapsed>>

Effect(o) ==
    Waits(o) \/ Acquires(o) \/ Misses(o) \/ Extends(o) \/ Ends(o) \/ Releases(o)

\* The requests keep their types, and what Acquire relies on.
Orderly(o) ==
    /\ pc' \in [Operations -> Label] /\ op' \in [Operations -> Op]
    /\ \A q \in Operations : q # o => pc'[q] = pc[q] /\ op'[q] = op[q]
    /\ lastId' \in Nat
    /\ pc'[o] \in Acquiring => /\ op'[o].now <= clock /\ clock <= op'[o].now + MaxAcquire
    /\ pc'[o] # "idle" => op'[o].operationID \in Fingerprints
    /\ pc'[o] = "reclaim" => op'[o].id # 0

\* Every step of a request has one of these effects.
LEMMA StepEffect ==
    ASSUME BasicInv, NEW o \in Operations, Step(o)
    PROVE  Effect(o) /\ Orderly(o)
<1> USE DEF BasicInv
<1>a. /\ clock \in Nat /\ clock <= MaxTime /\ lapsed \in BOOLEAN
      /\ op[o].missed \in Nat
      /\ row.id \in Nat /\ lastId \in Nat /\ op[o].now \in Nat /\ op[o].id \in Nat
    BY Fields
<1>b. /\ op[o] \in Op /\ row \in Row /\ pc \in [Operations -> Label] /\ op \in [Operations -> Op]
      /\ pc[o] \in Label
    BY DEF TypeOK
<1>c. /\ pc[o] \in Acquiring => /\ op[o].now <= clock /\ clock <= op[o].now + MaxAcquire
      /\ pc[o] # "idle" => op[o].operationID \in Fingerprints
      /\ pc[o] = "reclaim" => op[o].id # 0
    BY DEF AcquireInv
<1>1. CASE Start(o)
    <2>1. PICK f \in Fingerprints :
              op' = [op EXCEPT ![o] = [NoOp EXCEPT !.operationID = f, !.now = clock]]
        BY <1>1 DEF Start
    <2>2. [NoOp EXCEPT !.operationID = f, !.now = clock] \in Op
        <3>1. 0 \in 0..MaxMissed
            BY Durations
        <3>2. QED
            BY <1>a, <3>1 DEF NoOp, Op
    <2>3. /\ op' \in [Operations -> Op] /\ op'[o].operationID = f /\ op'[o].now = clock
          /\ \A q \in Operations : q # o => op'[q] = op[q]
        BY <1>b, <2>1, <2>2 DEF NoOp
    <2>4. /\ pc[o] = "idle" /\ pc'[o] = "create" /\ pc' \in [Operations -> Label]
          /\ \A q \in Operations : q # o => pc'[q] = pc[q]
          /\ UNCHANGED <<clock, row, lastId, lapsed>>
        BY <1>1, <1>b DEF Start, Label, Acquiring, storeVars
    <2>5. QED
        BY <1>a, <2>3, <2>4, Durations DEF Effect, Waits, Orderly
<1>2. CASE Create(o)
    <2>1. CASE Missing
        <3>1. /\ CreateProcessing(op[o].operationID, op[o].now + Lease, op[o].now + LockTTL)
              /\ Hold(o, lastId') /\ pc[o] = "create" /\ UNCHANGED <<clock, lapsed>>
            BY <1>2, <2>1 DEF Create
        <3>2. lastId' = lastId + 1 /\ lastId' \in Nat /\ lastId' # 0
            BY <1>a, <3>1 DEF CreateProcessing
        <3>3. /\ row' \in Row /\ row'.id = lastId' /\ row'.status = "processing"
              /\ row'.fingerprint \in Fingerprints
              /\ row'.lockedUntil = op[o].now + Lease /\ row'.expiresAt = op[o].now + LockTTL
            BY <1>a, <1>c, <3>1, <3>2, Durations
            DEF CreateProcessing, Row, RecordStatus
        <3>4. /\ pc' \in [Operations -> Label] /\ op' \in [Operations -> Op]
              /\ pc'[o] = "held"
              /\ op'[o].id = lastId' /\ op'[o].heldAt = clock /\ op'[o].renewedAt = clock
              /\ op'[o].renewing /\ op'[o].missed = 0
              /\ op'[o].operationID = op[o].operationID
              /\ \A q \in Operations : q # o => pc'[q] = pc[q] /\ op'[q] = op[q]
            BY <3>1, <3>2, HoldFacts
        <3>5. Orderly(o)
            BY <1>c, <3>1, <3>2, <3>4 DEF Orderly, Acquiring
        <3>6. Acquires(o)
            BY <2>1, <3>1, <3>2, <3>3, <3>4 DEF Acquires, Acquiring
        <3>7. QED
            BY <3>5, <3>6 DEF Effect
    <2>2. CASE ~Missing
        <3>1. /\ pc[o] = "create" /\ pc' = [pc EXCEPT ![o] = "get"]
              /\ UNCHANGED <<row, lastId, op, clock, lapsed>>
            BY <1>2, <2>2 DEF Create
        <3>2. Orderly(o)
            BY <1>a, <1>b, <1>c, <3>1 DEF Orderly, Label, Acquiring
        <3>3. Waits(o)
            BY <1>b, <3>1 DEF Waits
        <3>4. QED
            BY <3>2, <3>3 DEF Effect
    <2>3. QED
        BY <2>1, <2>2
<1>3. ASSUME Return(o), UNCHANGED <<clock, row, lastId, lapsed>>
      PROVE  Effect(o) /\ Orderly(o)
    <2>1. /\ pc' \in [Operations -> Label] /\ op' \in [Operations -> Op]
          /\ pc'[o] = "idle"
          /\ \A q \in Operations : q # o => pc'[q] = pc[q] /\ op'[q] = op[q]
        BY <1>3, ReturnFacts
    <2>2. QED
        BY <1>3, <1>a, <2>1 DEF Effect, Waits, Orderly, Acquiring
<1>4. CASE Get(o)
    <2>1. CASE Return(o)
        BY <1>3, <1>4, <2>1 DEF Get, storeVars
    <2>2. CASE ~Return(o)
        <3>1. /\ pc[o] = "get" /\ ~Missing /\ pc' = [pc EXCEPT ![o] = "reclaim"]
              /\ op' = [op EXCEPT ![o].id = row.id, ![o].from = row.status]
              /\ UNCHANGED <<clock, row, lastId, lapsed>>
            BY <1>4, <2>2 DEF Get, storeVars
        <3>2. op' = [op EXCEPT ![o] = [op[o] EXCEPT !.id = row.id, !.from = row.status]]
            BY <1>b, <3>1
        <3>3. [op[o] EXCEPT !.id = row.id, !.from = row.status] \in Op
            BY <1>b DEF Op, Row
        <3>4. /\ op' \in [Operations -> Op] /\ op'[o].id = row.id /\ op'[o].now = op[o].now
              /\ op'[o].operationID = op[o].operationID
              /\ \A q \in Operations : q # o => op'[q] = op[q]
            BY <1>b, <3>2, <3>3 DEF Op
        <3>5. Orderly(o)
            BY <1>a, <1>b, <1>c, <3>1, <3>4 DEF Orderly, Label, Acquiring, Missing
        <3>6. Waits(o)
            BY <1>b, <3>1 DEF Waits
        <3>7. QED
            BY <3>5, <3>6 DEF Effect
    <2>3. QED
        BY <2>1, <2>2
<1>5. CASE TryReclaim(o)
    <2>1. CASE Reclaimable(op[o].id, op[o].from, op[o].now)
        <3>1. /\ Reclaim(op[o].now + Lease, op[o].now + LockTTL)
              /\ Hold(o, op[o].id) /\ pc[o] = "reclaim" /\ UNCHANGED <<clock, lapsed>>
            BY <1>5, <2>1 DEF TryReclaim
        <3>2. /\ row.id = op[o].id /\ row.id # 0 /\ row.lockedUntil <= op[o].now
              /\ row.fingerprint \in Fingerprints
            BY <1>c, <2>1, <3>1 DEF Reclaimable, RecordInv
        <3>3. /\ row' \in Row /\ row'.id = row.id /\ row'.status = "processing"
              /\ row'.fingerprint = row.fingerprint /\ UNCHANGED lastId
              /\ row'.lockedUntil = op[o].now + Lease /\ row'.expiresAt = op[o].now + LockTTL
            BY <1>a, <1>b, <3>1, Durations, ReclaimFacts
        <3>4. /\ pc' \in [Operations -> Label] /\ op' \in [Operations -> Op]
              /\ pc'[o] = "held"
              /\ op'[o].id = op[o].id /\ op'[o].heldAt = clock /\ op'[o].renewedAt = clock
              /\ op'[o].renewing /\ op'[o].missed = 0
              /\ op'[o].operationID = op[o].operationID
              /\ \A q \in Operations : q # o => pc'[q] = pc[q] /\ op'[q] = op[q]
            BY <1>a, <3>1, HoldFacts
        <3>5. Orderly(o)
            BY <1>a, <1>c, <3>1, <3>3, <3>4 DEF Orderly, Acquiring
        <3>6. Acquires(o)
            BY <3>1, <3>2, <3>3, <3>4 DEF Acquires, Acquiring
        <3>7. QED
            BY <3>5, <3>6 DEF Effect
    <2>2. CASE ~Reclaimable(op[o].id, op[o].from, op[o].now)
        BY <1>3, <1>5, <2>2 DEF TryReclaim
    <2>3. QED
        BY <2>1, <2>2
<1>6. ASSUME RenewDue(o), UNCHANGED <<pc, lastId>>, op' \in [Operations -> Op],
             \A q \in Operations : q # o => op'[q] = op[q],
             op'[o].operationID = op[o].operationID
      PROVE  Orderly(o) /\ pc[o] = "held" /\ pc'[o] = "held"
    BY <1>6, <1>a, <1>b, <1>c DEF Orderly, RenewDue, Acquiring
<1>7. CASE RenewFails(o)
    <2>1. /\ op' = [op EXCEPT ![o] = [@ EXCEPT !.renewedAt = clock, !.missed = op[o].missed + 1]]
          /\ RenewDue(o) /\ UNCHANGED <<clock, row, lastId, pc>>
          /\ op[o].missed < MaxMissed
          /\ lapsed' = (lapsed \/ op[o].missed >= Tolerated)
        BY <1>7 DEF RenewFails, storeVars
    <2>2. op[o].missed + 1 \in 0..MaxMissed
        BY <1>a, <2>1, Durations
    <2>4. /\ op' \in [Operations -> Op]
          /\ \A q \in Operations : q # o => op'[q] = op[q]
          /\ op'[o].id = op[o].id /\ op'[o].heldAt = op[o].heldAt
          /\ op'[o].operationID = op[o].operationID
          /\ op'[o].renewedAt = clock /\ op'[o].renewing = op[o].renewing
          /\ op'[o].missed = op[o].missed + 1
        BY <2>1, <2>2, LoopFacts
    <2>5. Orderly(o) /\ pc[o] = "held" /\ pc'[o] = "held"
        BY <1>6, <2>1, <2>4
    <2>6. Misses(o)
        BY <2>1, <2>4, <2>5 DEF Misses
    <2>7. QED
        BY <2>5, <2>6 DEF Effect
<1>8. CASE Renew(o)
    <2>1. CASE Extendable(op[o].id, op[o].operationID)
        <3>1. /\ op' = [op EXCEPT ![o] = [@ EXCEPT !.renewedAt = clock, !.missed = 0]]
              /\ RenewDue(o) /\ UNCHANGED <<clock, lastId, pc, lapsed>>
              /\ Extend(clock + Lease, clock + LockTTL)
            BY <1>8, <2>1 DEF Renew, Extend
        <3>2. 0 \in 0..MaxMissed
            BY Durations
        <3>3. /\ op' \in [Operations -> Op]
              /\ \A q \in Operations : q # o => op'[q] = op[q]
              /\ op'[o].id = op[o].id /\ op'[o].heldAt = op[o].heldAt
              /\ op'[o].operationID = op[o].operationID
              /\ op'[o].renewedAt = clock /\ op'[o].renewing = op[o].renewing
              /\ op'[o].missed = 0
            BY <3>1, <3>2, LoopFacts
        <3>4. /\ row' \in Row /\ row'.id = row.id /\ row'.status = row.status
              /\ row'.fingerprint = row.fingerprint
              /\ row'.lockedUntil = clock + Lease /\ row'.expiresAt = clock + LockTTL
            <4>1. clock + Lease \in Nat /\ clock + LockTTL \in Nat
                BY <1>a, Durations
            <4>2. QED
                BY <1>b, <3>1, <4>1, ReclaimFacts
        <3>5. Orderly(o) /\ pc[o] = "held" /\ pc'[o] = "held"
            BY <1>6, <3>1, <3>3
        <3>6. Extends(o)
            BY <3>1, <3>3, <3>4, <3>5 DEF Extends
        <3>7. QED
            BY <3>5, <3>6 DEF Effect
    <2>2. CASE ~Extendable(op[o].id, op[o].operationID)
        <3>1. /\ op' = [op EXCEPT ![o].renewing = FALSE] /\ RenewDue(o)
              /\ UNCHANGED <<clock, row, lastId, pc, lapsed>>
            BY <1>8, <2>2 DEF Renew
        <3>2. /\ op' \in [Operations -> Op]
              /\ \A q \in Operations : q # o => op'[q] = op[q]
              /\ op'[o].id = op[o].id /\ op'[o].heldAt = op[o].heldAt
              /\ op'[o].operationID = op[o].operationID
            BY <3>1, EndFacts
        <3>3. Orderly(o) /\ pc[o] = "held" /\ pc'[o] = "held"
            BY <1>6, <3>1, <3>2
        <3>4. Ends(o)
            BY <2>2, <3>1, <3>2, <3>3 DEF Ends
        <3>5. QED
            BY <3>3, <3>4 DEF Effect
    <2>3. QED
        BY <2>1, <2>2
<1>9. CASE Release(o)
    <2>1. /\ pc[o] = "held" /\ Return(o) /\ UNCHANGED <<clock, lapsed, lastId>>
          /\ \/ MarkSucceeded(op[o].id, op[o].operationID, clock + LockTTL)
             \/ MarkFailedRetryable(op[o].id, clock, clock + LockTTL)
        BY <1>9 DEF Release, MarkSucceeded, MarkFailedRetryable
    <2>2. /\ pc' \in [Operations -> Label] /\ op' \in [Operations -> Op]
          /\ pc'[o] = "idle"
          /\ \A q \in Operations : q # o => pc'[q] = pc[q] /\ op'[q] = op[q]
        BY <2>1, ReturnFacts
    <2>3. clock + LockTTL \in Nat /\ clock <= MaxTime + Lease /\ 0 <= MaxTime + Lease
        BY <1>a, Durations
    <2>4. /\ row' \in Row /\ row'.id = row.id /\ row'.fingerprint = row.fingerprint
          /\ row'.lockedUntil \in {0, clock, row.lockedUntil}
        BY <1>a, <1>b, <2>1, <2>3, MarkFacts DEF Op
    <2>5. row'.lockedUntil <= MaxTime + Lease
        BY <2>3, <2>4 DEF TypeOK
    <2>6. Releases(o)
        BY <2>1, <2>2, <2>4, <2>5 DEF Releases
    <2>7. QED
        BY <1>a, <2>1, <2>2, <2>6 DEF Effect, Orderly, Acquiring
<1>10. CASE Abort(o)
    BY <1>3, <1>10 DEF Abort, storeVars
<1>11. QED
    BY <1>1, <1>2, <1>4, <1>5, <1>7, <1>8, <1>9, <1>10 DEF Step

-----------------------------------------------------------------------------
(* The invariant                                                           *)

\* The types, and what Acquire relies on, do not depend on who holds the lock.
LEMMA BasicStep ==
    ASSUME BasicInv, Next
    PROVE  BasicInv'
<1> USE DEF BasicInv
<1>a. /\ clock \in Nat /\ clock <= MaxTime /\ row.lockedUntil \in Nat /\ lastId \in Nat
      /\ \A o \in Operations : op[o].now \in Nat
    BY Fields
<1>1. CASE Tick
    <2>1. /\ clock' = clock + 1 /\ clock < MaxTime /\ UNCHANGED <<row, lastId, pc, op>>
          /\ lapsed' \in BOOLEAN
        BY <1>1 DEF Tick
    <2>2. TypeOK'
        BY <1>a, <2>1, Durations DEF TypeOK
    <2>3. \A o \in Operations : pc[o] \in Acquiring => clock < op[o].now + MaxAcquire
        BY <1>1 DEF Tick
    <2>4. AcquireInv'
        BY <1>a, <2>1, <2>3, Durations DEF AcquireInv
    <2>5. QED
        BY <2>1, <2>2, <2>4 DEF RecordInv
<1>2. CASE Cleanup
    <2>1. row' = NoRow /\ UNCHANGED <<clock, lastId, pc, op, lapsed>>
        BY <1>2 DEF Cleanup, DeleteExpired
    <2>2. NoRow \in Row /\ NoRow.id = 0 /\ NoRow.lockedUntil <= MaxTime + Lease
        BY Durations DEF NoRow, Row
    <2>3. QED
        BY <2>1, <2>2 DEF TypeOK, AcquireInv, RecordInv
<1>3. ASSUME NEW o \in Operations, Step(o)
      PROVE  BasicInv'
    <2>1. Effect(o) /\ Orderly(o)
        BY <1>3, StepEffect
    <2>2. /\ UNCHANGED clock /\ row' \in Row /\ lapsed' \in BOOLEAN
          /\ row'.id = 0 \/ row'.fingerprint \in Fingerprints
        BY <2>1
        DEF Effect, Waits, Acquires, Misses, Extends, Ends, Releases, TypeOK, RecordInv
    <2>3. row'.lockedUntil <= MaxTime + Lease
        <3>1. CASE Acquires(o)
            <4>1. row'.lockedUntil = op[o].now + Lease /\ op[o].now <= clock
                BY <3>1 DEF Acquires, AcquireInv
            <4>2. QED
                BY <1>a, <4>1, Durations
        <3>2. CASE Extends(o)
            <4>1. row'.lockedUntil = clock + Lease
                BY <3>2 DEF Extends
            <4>2. QED
                BY <1>a, <4>1, Durations
        <3>3. CASE Waits(o) \/ Misses(o) \/ Ends(o) \/ Releases(o)
            BY <3>3 DEF Waits, Misses, Ends, Releases, TypeOK
        <3>4. QED
            BY <2>1, <3>1, <3>2, <3>3 DEF Effect
    <2>4. TypeOK'
        BY <2>1, <2>2, <2>3 DEF TypeOK, Orderly
    <2>5. AcquireInv'
        BY <2>1, <2>2 DEF AcquireInv, Orderly
    <2>6. QED
        BY <2>2, <2>4, <2>5 DEF RecordInv
<1>4. QED
    BY <1>1, <1>2, <1>3 DEF Next

\* The lease of a holder runs.
LEMMA Locked ==
    ASSUME BasicInv, HolderInv, BorrowInv, RenewInv, NEW o \in Operations, pc[o] = "held"
    PROVE  row.lockedUntil > clock /\ row.id # 0 /\ row.expiresAt > clock
<1>a. /\ clock \in Nat /\ op[o].missed \in Nat
      /\ row.lockedUntil \in Nat /\ row.expiresAt \in Nat
      /\ op[o].heldAt \in Nat /\ op[o].renewedAt \in Nat
    BY Fields DEF BasicInv
<1>b. /\ op[o].heldAt + Lease <= row.lockedUntil + MaxAcquire
      /\ row.id # 0 /\ row.lockedUntil < row.expiresAt
    BY DEF HolderInv
<1>1. CASE Borrows(o)
    <2>1. clock + MaxAcquire < op[o].heldAt + Lease
        BY <1>1 DEF BorrowInv
    <2>2. QED
        BY <1>a, <1>b, <2>1, Durations
<1>2. CASE ~Borrows(o)
    <2>1. /\ clock <= op[o].renewedAt + RenewInterval /\ op[o].missed <= Tolerated
          /\ op[o].renewedAt + Lease
                <= row.lockedUntil + MaxAcquire + op[o].missed * RenewInterval
        BY <1>2 DEF RenewInv
    <2>2. /\ op[o].missed * RenewInterval \in Nat
          /\ op[o].missed * RenewInterval <= Tolerated * RenewInterval
        <3>1. \A m, n, r \in Nat : m <= n => m * r <= n * r /\ m * r \in Nat /\ n * r \in Nat
            <4> SUFFICES ASSUME NEW m \in Nat, NEW n \in Nat, NEW r \in Nat, m <= n
                         PROVE  m * r <= n * r /\ m * r \in Nat /\ n * r \in Nat
                OBVIOUS
            <4>1. n - m \in Nat /\ (n - m) * r \in Nat /\ m * r \in Nat /\ n * r \in Nat
                OBVIOUS
            <4>2. n * r = m * r + (n - m) * r
                OBVIOUS
            <4>3. QED
                BY <4>1, <4>2
        <3>2. QED
            BY <1>a, <2>1, <3>1, Durations
    <2>3. row.lockedUntil > clock
        BY <1>a, <2>1, <2>2, Durations
    <2>4. QED
        BY <1>a, <1>b, <2>3
<1>3. QED
    BY <1>1, <1>2

\* Nobody acquires a lock that is held.
LEMMA AcquiredWasFree ==
    ASSUME BasicInv, HolderInv, BorrowInv, RenewInv,
           NEW o \in Operations, Acquires(o), NEW q \in Operations
    PROVE  pc[q] # "held"
<1> SUFFICES ASSUME pc[q] = "held" PROVE FALSE
    OBVIOUS
<1>1. row.lockedUntil > clock /\ row.id # 0
    BY Locked
<1>2. row.lockedUntil <= op[o].now /\ op[o].now <= clock
    BY <1>1 DEF Acquires, Missing, BasicInv, AcquireInv
<1>3. row.lockedUntil \in Nat /\ op[o].now \in Nat /\ clock \in Nat
    BY Fields DEF BasicInv
<1>4. QED
    BY <1>1, <1>2, <1>3

\* One step of the lock, unless a lease may lapse by it.
LEMMA LeaseStep ==
    ASSUME BasicInv, LeaseInv, Next, ~lapsed'
    PROVE  LeaseInv'
<1>a. /\ clock \in Nat /\ row.lockedUntil \in Nat /\ row.expiresAt \in Nat
      /\ \A o \in Operations :
            /\ op[o].now \in Nat /\ op[o].heldAt \in Nat /\ op[o].renewedAt \in Nat
            /\ op[o].missed \in Nat
    BY Fields DEF BasicInv
<1>b. HolderInv /\ BorrowInv /\ RenewInv /\ MutualExclusion
    BY DEF LeaseInv
<1>1. CASE Tick
    <2>1. /\ clock' = clock + 1 /\ UNCHANGED <<row, pc, op>>
          /\ \A o \in Operations : ~RenewDue(o)
          /\ \A o \in Operations : ~(Borrows(o) /\ clock' + MaxAcquire >= op[o].heldAt + Lease)
        BY <1>1 DEF Tick
    <2>2. HolderInv' /\ MutualExclusion'
        BY <1>a, <1>b, <2>1 DEF HolderInv, MutualExclusion
    <2>3. BorrowInv'
        BY <1>a, <2>1, Durations DEF BorrowInv, Borrows
    <2>4. ASSUME NEW o \in Operations, pc[o] = "held", ~Borrows(o)
          PROVE  clock + 1 <= op[o].renewedAt + RenewInterval
        <3>1. op[o].renewing
            BY <1>b, <2>4 DEF RenewInv
        <3>2. QED
            BY <1>a, <2>1, <2>4, <3>1, Durations DEF RenewDue
    <2>5. RenewInv'
        <3> SUFFICES ASSUME NEW o \in Operations, pc'[o] = "held", ~Borrows(o)'
                     PROVE  /\ op'[o].renewing
                            /\ op'[o].missed <= Tolerated
                            /\ op'[o].renewedAt <= clock'
                            /\ clock' <= op'[o].renewedAt + RenewInterval
                            /\ op'[o].renewedAt + Lease
                                  <= row'.lockedUntil + MaxAcquire + op'[o].missed * RenewInterval
            BY DEF RenewInv
        <3>1. pc[o] = "held" /\ ~Borrows(o) /\ op'[o] = op[o] /\ row' = row
            BY <2>1 DEF Borrows
        <3>2. /\ op[o].renewing /\ op[o].missed <= Tolerated
              /\ op[o].renewedAt <= clock
              /\ op[o].renewedAt + Lease
                    <= row.lockedUntil + MaxAcquire + op[o].missed * RenewInterval
            BY <1>b, <3>1 DEF RenewInv
        <3>3. op[o].renewedAt <= clock' /\ clock' <= op[o].renewedAt + RenewInterval
            BY <1>a, <2>1, <2>4, <3>1, <3>2
        <3>4. QED
            BY <3>1, <3>2, <3>3
    <2>6. QED
        BY <2>2, <2>3, <2>5 DEF LeaseInv
<1>2. CASE Cleanup
    <2>1. row.expiresAt <= clock /\ UNCHANGED pc
        BY <1>2 DEF Cleanup, DeleteExpired
    <2>2. \A o \in Operations : pc'[o] # "held"
        BY <1>a, <1>b, <2>1, Locked
    <2>3. QED
        BY <2>2 DEF LeaseInv, HolderInv, BorrowInv, RenewInv, MutualExclusion, Borrows
<1>3. ASSUME NEW o \in Operations, Step(o)
      PROVE  LeaseInv'
    <2>1. Effect(o) /\ Orderly(o)
        BY <1>3, StepEffect
    <2>2. /\ \A q \in Operations : q # o => pc'[q] = pc[q] /\ op'[q] = op[q]
          /\ UNCHANGED clock
        BY <2>1 DEF Orderly, Effect, Waits, Acquires, Misses, Extends, Ends, Releases
    <2>3. CASE Waits(o)
        <3>1. pc'[o] # "held" /\ UNCHANGED row
            BY <2>3 DEF Waits
        <3>2. \A q \in Operations : pc'[q] = "held" => q # o /\ pc[q] = "held" /\ op'[q] = op[q]
            BY <2>2, <3>1
        <3>3. \A q \in Operations : pc'[q] = "held" => (Borrows(q)' <=> Borrows(q))
            BY <3>1, <3>2 DEF Borrows
        <3>4. HolderInv' /\ MutualExclusion'
            BY <1>b, <2>2, <3>1, <3>2 DEF HolderInv, MutualExclusion
        <3>5. BorrowInv'
            BY <1>b, <2>2, <3>2, <3>3 DEF BorrowInv, Borrows
        <3>6. RenewInv'
            BY <1>b, <2>2, <3>1, <3>2, <3>3 DEF RenewInv
        <3>7. QED
            BY <3>4, <3>5, <3>6 DEF LeaseInv
    <2>4. ASSUME \A q \in Operations : q # o => pc'[q] # "held",
                 row'.id = op'[o].id, row'.id # 0, row'.status = "processing",
                 row'.lockedUntil < row'.expiresAt, op'[o].heldAt <= clock,
                 op'[o].heldAt + Lease <= row'.lockedUntil + MaxAcquire,
                 Borrows(o)' => clock + MaxAcquire < op'[o].heldAt + Lease,
                 ~Borrows(o)' =>
                    /\ op'[o].renewing /\ op'[o].missed <= Tolerated
                    /\ op'[o].renewedAt <= clock /\ clock <= op'[o].renewedAt + RenewInterval
                    /\ op'[o].renewedAt + Lease
                          <= row'.lockedUntil + MaxAcquire + op'[o].missed * RenewInterval
          PROVE  LeaseInv'
        BY <2>2, <2>4 DEF LeaseInv, HolderInv, BorrowInv, RenewInv, MutualExclusion, Borrows
    <2>5. CASE Acquires(o)
        <3>1. \A q \in Operations : q # o => pc'[q] # "held"
            BY <1>b, <2>2, <2>5, AcquiredWasFree
        <3>2. op[o].now <= clock /\ clock <= op[o].now + MaxAcquire
            BY <2>5 DEF Acquires, BasicInv, AcquireInv
        <3>3. /\ row'.id = op'[o].id /\ row'.id # 0 /\ row'.status = "processing"
              /\ row'.lockedUntil = op[o].now + Lease /\ row'.expiresAt = op[o].now + LockTTL
              /\ op'[o].heldAt = clock /\ op'[o].renewedAt = clock /\ op'[o].renewing
              /\ op'[o].missed = 0
            BY <2>5 DEF Acquires
        <3>4. /\ row'.lockedUntil < row'.expiresAt /\ op'[o].heldAt <= clock
              /\ op'[o].heldAt + Lease <= row'.lockedUntil + MaxAcquire
              /\ clock + MaxAcquire < op'[o].heldAt + Lease
            BY <1>a, <3>2, <3>3, Durations
        <3>5. /\ op'[o].missed <= Tolerated
              /\ op'[o].renewedAt <= clock /\ clock <= op'[o].renewedAt + RenewInterval
              /\ op'[o].renewedAt + Lease
                    <= row'.lockedUntil + MaxAcquire + op'[o].missed * RenewInterval
            <4>1. op'[o].missed * RenewInterval = 0
                BY <3>3, Durations
            <4>2. QED
                BY <1>a, <3>2, <3>3, <4>1, Durations
        <3>6. QED
            BY <2>4, <3>1, <3>3, <3>4, <3>5
    <2>6. ASSUME pc[o] = "held"
          PROVE  /\ \A q \in Operations : q # o => pc'[q] # "held"
                 /\ row.id = op[o].id /\ row.id # 0 /\ row.status = "processing"
                 /\ row.lockedUntil < row.expiresAt /\ op[o].heldAt <= clock
                 /\ op[o].heldAt + Lease <= row.lockedUntil + MaxAcquire
                 /\ Borrows(o) => clock + MaxAcquire < op[o].heldAt + Lease
                 /\ ~Borrows(o) =>
                      /\ op[o].renewing /\ op[o].missed <= Tolerated
                      /\ op[o].renewedAt <= clock /\ clock <= op[o].renewedAt + RenewInterval
                      /\ op[o].renewedAt + Lease
                            <= row.lockedUntil + MaxAcquire + op[o].missed * RenewInterval
        <3>1. \A q \in Operations : q # o => pc'[q] # "held"
            BY <1>b, <2>2, <2>6 DEF MutualExclusion
        <3>2. QED
            BY <1>b, <2>6, <3>1 DEF HolderInv, BorrowInv, RenewInv
    <2>7. CASE Misses(o)
        <3>0. ~(op[o].missed >= Tolerated)
            BY <2>7 DEF Misses
        <3>1. /\ pc[o] = "held" /\ pc'[o] = "held" /\ UNCHANGED row
              /\ op'[o].id = op[o].id /\ op'[o].heldAt = op[o].heldAt
              /\ op'[o].operationID = op[o].operationID
              /\ op'[o].missed = op[o].missed + 1 /\ op[o].missed < Tolerated
              /\ op'[o].renewedAt = clock /\ op'[o].renewing = op[o].renewing
            BY <1>a, <2>7, <3>0, Durations DEF Misses
        <3>2. Borrows(o)' <=> Borrows(o)
            BY <3>1 DEF Borrows
        <3>3. /\ op'[o].missed * RenewInterval = op[o].missed * RenewInterval + RenewInterval
              /\ op[o].missed * RenewInterval \in Nat
            BY <1>a, <3>1, Durations
        <3>4. ~Borrows(o) =>
                /\ op'[o].renewing /\ op'[o].missed <= Tolerated
                /\ op'[o].renewedAt <= clock /\ clock <= op'[o].renewedAt + RenewInterval
                /\ op'[o].renewedAt + Lease
                      <= row'.lockedUntil + MaxAcquire + op'[o].missed * RenewInterval
            BY <1>a, <2>6, <3>1, <3>3, Durations
        <3>5. QED
            BY <2>4, <2>6, <3>1, <3>2, <3>4
    <2>8. CASE Extends(o)
        <3>1. /\ pc[o] = "held" /\ pc'[o] = "held"
              /\ row'.id = row.id /\ row'.status = row.status
              /\ row'.fingerprint = row.fingerprint
              /\ row'.lockedUntil = clock + Lease /\ row'.expiresAt = clock + LockTTL
              /\ op'[o].id = op[o].id /\ op'[o].heldAt = op[o].heldAt
              /\ op'[o].operationID = op[o].operationID
              /\ op'[o].missed = 0
              /\ op'[o].renewedAt = clock /\ op'[o].renewing = op[o].renewing
            BY <2>8 DEF Extends
        <3>2. Borrows(o)' <=> Borrows(o)
            BY <3>1 DEF Borrows
        <3>3. op'[o].missed * RenewInterval = 0
            BY <3>1, Durations
        <3>4. /\ row'.lockedUntil < row'.expiresAt
              /\ op'[o].heldAt + Lease <= row'.lockedUntil + MaxAcquire
              /\ op'[o].missed <= Tolerated
              /\ op'[o].renewedAt <= clock /\ clock <= op'[o].renewedAt + RenewInterval
              /\ op'[o].renewedAt + Lease
                    <= row'.lockedUntil + MaxAcquire + op'[o].missed * RenewInterval
            BY <1>a, <2>6, <3>1, <3>3, Durations
        <3>5. QED
            BY <2>4, <2>6, <3>1, <3>2, <3>4
    <2>9. CASE Ends(o)
        <3>1. /\ pc[o] = "held" /\ pc'[o] = "held" /\ UNCHANGED row
              /\ ~Extendable(op[o].id, op[o].operationID)
              /\ op'[o].id = op[o].id /\ op'[o].heldAt = op[o].heldAt
              /\ op'[o].operationID = op[o].operationID
            BY <2>9 DEF Ends
        <3>2. Borrows(o) /\ Borrows(o)'
            BY <2>6, <3>1 DEF Extendable, Borrows
        <3>3. QED
            BY <2>4, <2>6, <3>1, <3>2
    <2>10. CASE Releases(o)
        <3>1. \A q \in Operations : pc'[q] # "held"
            BY <2>6, <2>10 DEF Releases
        <3>2. QED
            BY <3>1 DEF LeaseInv, HolderInv, BorrowInv, RenewInv, MutualExclusion, Borrows
    <2>11. QED
        BY <2>1, <2>3, <2>5, <2>7, <2>8, <2>9, <2>10 DEF Effect
<1>4. QED
    BY <1>1, <1>2, <1>3 DEF Next

\* A lapse is remembered.
LEMMA LapsedStays ==
    ASSUME BasicInv, Next, lapsed
    PROVE  lapsed'
<1>1. CASE Tick
    BY <1>1 DEF Tick
<1>2. CASE Cleanup
    BY <1>2 DEF Cleanup
<1>3. ASSUME NEW o \in Operations, Step(o) PROVE lapsed'
    BY <1>3, StepEffect DEF Effect, Waits, Acquires, Misses, Extends, Ends, Releases
<1>4. QED
    BY <1>1, <1>2, <1>3 DEF Next

\* The initial states.
LEMMA InitIInv == Init => IInv
<1> SUFFICES ASSUME Init PROVE IInv
    OBVIOUS
<1>1. NoRow \in Row /\ NoOp \in Op /\ NoRow.id = 0 /\ NoRow.lockedUntil = 0
    BY Durations DEF NoRow, NoOp, Row, Op
<1>2. \A o \in Operations : pc[o] = "idle"
    BY DEF Init
<1>3. TypeOK
    <2>1. 0 \in 0..MaxTime /\ 0 <= MaxTime + Lease /\ 0 \in Nat
        BY Durations
    <2>2. row \in Row /\ row.lockedUntil <= MaxTime + Lease
        BY <1>1, <2>1 DEF Init, StoreInit
    <2>3. pc \in [Operations -> Label] /\ op \in [Operations -> Op] /\ lapsed \in BOOLEAN
        BY <1>1 DEF Init, Label
    <2>4. QED
        BY <2>1, <2>2, <2>3 DEF Init, StoreInit, TypeOK
<1>4. BasicInv
    BY <1>1, <1>2, <1>3 DEF Init, StoreInit, BasicInv, AcquireInv, RecordInv, Acquiring
<1>5. LeaseInv
    BY <1>2 DEF LeaseInv, HolderInv, BorrowInv, RenewInv, MutualExclusion, Borrows
<1>6. QED
    BY <1>4, <1>5 DEF IInv

-----------------------------------------------------------------------------
(* The theorems                                                            *)

\* The invariant is inductive: until a lease lapses every holder owns the record,
\* and its lease runs because it is renewed or has not lasted long.
THEOREM Invariance == Spec => []IInv
<1>1. IInv /\ [Next]_vars => IInv'
    <2>1. ASSUME IInv, Next PROVE IInv'
        <3>1. BasicInv'
            BY <2>1, BasicStep DEF IInv
        <3>2. ASSUME ~lapsed' PROVE LeaseInv'
            <4>1. ~lapsed
                BY <2>1, <3>2, LapsedStays DEF IInv
            <4>2. BasicInv /\ LeaseInv
                BY <2>1, <4>1 DEF IInv
            <4>3. QED
                BY <2>1, <3>2, <4>2, LeaseStep
        <3>3. QED
            BY <3>1, <3>2 DEF IInv
    <2>2. ASSUME IInv, UNCHANGED vars PROVE IInv'
        BY <2>2 DEF IInv, LeaseInv, BasicInv, TypeOK, AcquireInv, RecordInv, HolderInv, BorrowInv,
                    RenewInv, MutualExclusion, Borrows, vars, storeVars
    <2>3. QED
        BY <2>1, <2>2
<1>2. QED
    BY <1>1, InitIInv, PTL DEF Spec

\* Every variable keeps its type, and no lease is set beyond the last tick and one lease.
THEOREM TypeCorrect == Spec => []TypeOK
<1>1. IInv => TypeOK
    BY DEF IInv, BasicInv
<1>2. QED
    BY <1>1, Invariance, PTL

\* At most one system operation runs (Acquire, renewLoop, Release), whatever the ids of the
\* operations, however long they last, whoever dies and however often the lock is reclaimed,
\* until an operation with a borrowed record has run for a lease or too many renewals fail.
THEOREM ExclusiveUntilLapseHolds == Spec => []ExclusiveUntilLapse
<1>1. IInv => ExclusiveUntilLapse
    BY DEF IInv, LeaseInv, ExclusiveUntilLapse
<1>2. QED
    BY <1>1, Invariance, PTL

\* Until then the record belongs to the operation that holds the lock, and its lease runs:
\* nobody who looks at it can reclaim it, and the cleanup of expired records does not
\* delete it.
THEOREM LockedUntilLapseHolds == Spec => []LockedUntilLapse
<1>1. ASSUME IInv, ~lapsed PROVE HeldIsLocked
    BY <1>1, Locked DEF IInv, LeaseInv, HeldIsLocked, HolderInv
<1>2. IInv => LockedUntilLapse
    BY <1>1 DEF LockedUntilLapse
<1>3. QED
    BY <1>2, Invariance, PTL
=============================================================================
