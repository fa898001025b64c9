------------------------- MODULE SystemOperationLock -------------------------
(***************************************************************************)
(* The global lock of system operations (update, rollback, restart):       *)
(* SystemOperationLockService in system_operation_lock_service.go, used by *)
(* admin/system_handler.go.  The lock is one record of the idempotency     *)
(* store; locked_until is a lease, which a goroutine of the holder renews. *)
(*                                                                         *)
(* The passing of time is restricted to what the service relies on: a      *)
(* renewal is tried whenever it is due, and acquiring the lock takes at    *)
(* most MaxAcquire ticks.                                                  *)
(***************************************************************************)
EXTENDS IdempotencyStore

CONSTANTS
    Operations,     \* requests for a system operation
    Lease,          \* s.lease
    RenewInterval,  \* s.renewInterval, a third of the lease
    LockTTL,        \* s.ttl
    MaxAcquire,     \* bound: ticks from reading the time to holding the lock
    MaxHold,        \* bound: ticks an operation lasts
    Tolerated,      \* failed renewals in a row that a lease survives
    MaxMissed       \* bound: renewals in a row that the store fails

ASSUME LockAssumption ==
    /\ RenewInterval \in Nat \ {0}
    /\ Lease \in Nat /\ Lease >= 3 * RenewInterval
    /\ LockTTL \in Nat /\ LockTTL > Lease
    /\ {MaxAcquire, MaxHold, Tolerated, MaxMissed} \subseteq Nat
    /\ MaxAcquire + RenewInterval + Tolerated * RenewInterval < Lease

VARIABLES
    pc,        \* [Operations -> Label], the next call of the request
    op,        \* [Operations -> Op]
    lapsed     \* history: a lease may have run out under its holder

storeVars == <<clock, row, lastId>>
vars == <<storeVars, pc, op, lapsed>>

Acquiring == {"create", "get", "reclaim"}
Label == Acquiring \cup {"idle", "held"}

Op == [operationID : Fingerprints \cup {NoFingerprint},
       now         : Nat,                          \* when Acquire read the time
       id          : Nat,                          \* existing.ID, lock.recordID
       from        : RecordStatus \cup {"none"},   \* existing.Status
       heldAt      : Nat,
       renewedAt   : Nat,                          \* the last tick of the renew loop
       renewing    : BOOLEAN,                      \* the renew loop runs
       missed      : 0..MaxMissed]                 \* renewals that failed since one succeeded

NoOp == [operationID |-> NoFingerprint, now |-> 0, id |-> 0, from |-> "none",
         heldAt |-> 0, renewedAt |-> 0, renewing |-> FALSE, missed |-> 0]

TypeOK ==
    /\ clock \in 0..MaxTime
    /\ row \in Row
    /\ row.lockedUntil <= MaxTime + Lease
    /\ lastId \in Nat
    /\ pc \in [Operations -> Label]
    /\ op \in [Operations -> Op]
    /\ lapsed \in BOOLEAN

Init ==
    /\ StoreInit
    /\ pc = [o \in Operations |-> "idle"]
    /\ op = [o \in Operations |-> NoOp]
    /\ lapsed = FALSE

-----------------------------------------------------------------------------

Return(o) ==
    /\ pc' = [pc EXCEPT ![o] = "idle"]
    /\ op' = [op EXCEPT ![o] = NoOp]

\* The lock is held, and the renew loop started.
Hold(o, id) ==
    /\ pc' = [pc EXCEPT ![o] = "held"]
    /\ op' = [op EXCEPT ![o] = [@ EXCEPT !.id = id, !.heldAt = clock, !.renewedAt = clock,
                                         !.renewing = TRUE, !.missed = 0]]

RenewDue(o) == pc[o] = "held" /\ op[o].renewing /\ clock >= op[o].renewedAt + RenewInterval

\* The operation reclaimed the record of another one and keeps its fingerprint.
Borrows(o) == pc[o] = "held" /\ row.fingerprint # op[o].operationID

Tick ==
    /\ clock < MaxTime
    /\ \A o \in Operations :
          /\ pc[o] \in Acquiring => clock < op[o].now + MaxAcquire
          /\ pc[o] = "held" => clock < op[o].heldAt + MaxHold
          /\ ~RenewDue(o)
    /\ clock' = clock + 1
    /\ lapsed' = (lapsed \/ \E o \in Operations :
                                Borrows(o) /\ clock' + MaxAcquire >= op[o].heldAt + Lease)
    /\ UNCHANGED <<row, lastId, pc, op>>

Cleanup ==
    /\ DeleteExpired
    /\ UNCHANGED <<pc, op, lapsed>>

-----------------------------------------------------------------------------
(* Acquire                                                                 *)

\* buildSystemOperationID derives the id from the idempotency key of the request;
\* without one, or with another key, actor or operation, it is a new id.
Start(o) ==
    /\ pc[o] = "idle"
    /\ \E f \in Fingerprints :
          op' = [op EXCEPT ![o] = [NoOp EXCEPT !.operationID = f, !.now = clock]]
    /\ pc' = [pc EXCEPT ![o] = "create"]
    /\ UNCHANGED <<storeVars, lapsed>>

Create(o) ==
    /\ pc[o] = "create"
    /\ IF Missing
       THEN /\ CreateProcessing(op[o].operationID, op[o].now + Lease, op[o].now + LockTTL)
            /\ Hold(o, lastId')
       ELSE /\ pc' = [pc EXCEPT ![o] = "get"]
            /\ UNCHANGED <<row, lastId, op>>
    /\ UNCHANGED <<clock, lapsed>>

\* Variant with a defect: the lease of the holder is not looked at.
TakesLockedRecord(o) ==
    /\ pc[o] = "get"
    /\ ~Missing
    /\ pc' = [pc EXCEPT ![o] = "held"]
    /\ op' = [op EXCEPT ![o].id = row.id, ![o].heldAt = clock]
    /\ UNCHANGED <<storeVars, lapsed>>

\* Acquire gives up when the record is gone or its lease runs.
Get(o) ==
    /\ pc[o] = "get"
    /\ IF Missing \/ (row.status = "processing" /\ row.lockedUntil > op[o].now)
       THEN Return(o)
       ELSE /\ op' = [op EXCEPT ![o].id = row.id, ![o].from = row.status]
            /\ pc' = [pc EXCEPT ![o] = "reclaim"]
    /\ UNCHANGED <<storeVars, lapsed>>

TryReclaim(o) ==
    /\ pc[o] = "reclaim"
    /\ IF Reclaimable(op[o].id, op[o].from, op[o].now)
       THEN /\ Reclaim(op[o].now + Lease, op[o].now + LockTTL)
            /\ Hold(o, op[o].id)
       ELSE /\ Return(o)
            /\ UNCHANGED <<row, lastId>>
    /\ UNCHANGED <<clock, lapsed>>

-----------------------------------------------------------------------------
(* The holder                                                              *)

\* Variant with a defect: the renew loop ends with its first failure.
RenewFailureEndsLoop(o) ==
    /\ RenewDue(o)
    /\ op[o].missed < MaxMissed
    /\ op' = [op EXCEPT ![o].renewing = FALSE]
    /\ UNCHANGED <<storeVars, pc, lapsed>>

\* The store fails: the loop tries again at its next tick.
RenewFails(o) ==
    /\ RenewDue(o)
    /\ op[o].missed < MaxMissed
    /\ op' = [op EXCEPT ![o] = [@ EXCEPT !.renewedAt = clock, !.missed = op[o].missed + 1]]
    /\ lapsed' = (lapsed \/ op[o].missed >= Tolerated)
    /\ UNCHANGED <<storeVars, pc>>

\* Variant with a defect: the lease is renewed from its own end.
RenewFromLease(o) ==
    /\ RenewDue(o)
    /\ Extendable(op[o].id, op[o].operationID)
    /\ Extend(row.lockedUntil + Lease, clock + LockTTL)
    /\ op' = [op EXCEPT ![o].renewedAt = clock]
    /\ UNCHANGED <<clock, pc, lapsed>>

\* The loop ends when the record is not the holder's.
Renew(o) ==
    /\ RenewDue(o)
    /\ IF Extendable(op[o].id, op[o].operationID)
       THEN /\ Extend(clock + Lease, clock + LockTTL)
            /\ op' = [op EXCEPT ![o] = [@ EXCEPT !.renewedAt = clock, !.missed = 0]]
       ELSE /\ op' = [op EXCEPT ![o].renewing = FALSE]
            /\ UNCHANGED <<row, lastId>>
    /\ UNCHANGED <<clock, pc, lapsed>>

Release(o) ==
    /\ pc[o] = "held"
    /\ \/ MarkSucceeded(op[o].id, op[o].operationID, clock + LockTTL)
       \/ MarkFailedRetryable(op[o].id, clock, clock + LockTTL)
    /\ Return(o)
    /\ UNCHANGED <<clock, lapsed>>

\* The process dies, or a call of the store fails in Acquire or Release.
Abort(o) ==
    /\ pc[o] # "idle"
    /\ Return(o)
    /\ UNCHANGED <<storeVars, lapsed>>

Step(o) ==
    \/ Start(o)
    \/ Create(o)
    \/ Get(o)
    \/ TryReclaim(o)
    \/ RenewFails(o)
    \/ Renew(o)
    \/ Release(o)
    \/ Abort(o)

Next == Tick \/ Cleanup \/ \E o \in Operations : Step(o)

Spec == Init /\ [][Next]_vars

-----------------------------------------------------------------------------
(* Properties                                                              *)

\* At most one system operation runs: what the lock is for.
MutualExclusion ==
    \A o, q \in Operations : pc[o] = "held" /\ pc[q] = "held" => o = q

\* While an operation holds the lock the record is its own and the lease runs,
\* so nobody who looks can reclaim it: locked_until is "renewed while lock is
\* held", which the renew loop is tested for.
HeldIsLocked ==
    \A o \in Operations : pc[o] = "held" =>
        row.id = op[o].id /\ row.status = "processing" /\ row.lockedUntil > clock

\* Acquire, the renew loop and Release together give mutual exclusion to any
\* operations, with operations that die and renewals that fail, until one that
\* reclaimed the record of another runs for a lease, or more renewals in a row
\* fail than a lease survives.
ExclusiveUntilLapse == ~lapsed => MutualExclusion

\* Until then the lock of an operation stays its own however long it runs when
\* it created the record, and for a lease when it reclaimed another's (renewLoop).
LockedUntilLapse == ~lapsed => HeldIsLocked
=============================================================================
