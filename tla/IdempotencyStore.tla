--------------------------- MODULE IdempotencyStore ---------------------------
(***************************************************************************)
(* The record of one (scope, key) in the table idempotency_records, as     *)
(* idempotency_repo.go reads and writes it: every operator is one SQL      *)
(* statement.  Two components keep their state here, the idempotency       *)
(* coordinator and the system operation lock.                              *)
(*                                                                         *)
(* Time is counted in ticks of `clock`.  A locked_until that is NULL is 0: *)
(* everybody who compares it treats NULL like a time that has passed.      *)
(***************************************************************************)
EXTENDS Naturals

CONSTANTS
    Fingerprints,   \* request fingerprints
    NoFingerprint,  \* no response body
    MaxTime         \* bound: the last tick

ASSUME StoreAssumption ==
    /\ NoFingerprint \notin Fingerprints
    /\ MaxTime \in Nat

VARIABLES
    clock,   \* the time
    row,     \* the record, or NoRow
    lastId   \* the last id the table gave to a record

RecordStatus == {"processing", "succeeded", "failed_retryable"}

\* response_body is abstracted to the fingerprint of the request whose
\* execution produced it.
Row == [id          : Nat,
        fingerprint : Fingerprints \cup {NoFingerprint},
        status      : RecordStatus \cup {"none"},
        lockedUntil : Nat,
        expiresAt   : Nat,
        body        : Fingerprints \cup {NoFingerprint}]

NoRow == [id |-> 0, fingerprint |-> NoFingerprint, status |-> "none",
          lockedUntil |-> 0, expiresAt |-> 0, body |-> NoFingerprint]

StoreInit ==
    /\ clock = 0
    /\ row = NoRow
    /\ lastId = 0

Missing == row.id = 0

\* INSERT ... ON CONFLICT DO NOTHING, when there is no conflict.
CreateProcessing(fingerprint, lockedUntil, expiresAt) ==
    /\ Missing
    /\ lastId' = lastId + 1
    /\ row' = [id |-> lastId + 1, fingerprint |-> fingerprint, status |-> "processing",
               lockedUntil |-> lockedUntil, expiresAt |-> expiresAt, body |-> NoFingerprint]

\* Variant with a defect: the status is not part of the condition.
ReclaimableInAnyStatus(id, from, now) == row.id = id /\ row.lockedUntil <= now

\* The WHERE clause of TryReclaim.
Reclaimable(id, from, now) ==
    /\ row.id = id
    /\ row.status = from
    /\ row.lockedUntil <= now

\* Variant with a defect: the expiry is moved on instead of set.
ReclaimExtends(lockedUntil, expiresAt) ==
    /\ row' = [row EXCEPT !.status = "processing", !.lockedUntil = lockedUntil,
                          !.expiresAt = row.expiresAt + expiresAt]
    /\ UNCHANGED lastId

\* The SET clause of TryReclaim.  The fingerprint stays.
Reclaim(lockedUntil, expiresAt) ==
    /\ row' = [row EXCEPT !.status = "processing", !.lockedUntil = lockedUntil,
                          !.expiresAt = expiresAt]
    /\ UNCHANGED lastId

\* The WHERE and SET clauses of ExtendProcessingLock.
Extendable(id, fingerprint) ==
    /\ row.id = id
    /\ row.status = "processing"
    /\ row.fingerprint = fingerprint

Extend(lockedUntil, expiresAt) ==
    /\ row' = [row EXCEPT !.lockedUntil = lockedUntil, !.expiresAt = expiresAt]
    /\ UNCHANGED lastId

\* Variant with a defect: the record is found by its key.
MarkSucceededByKey(id, body, expiresAt) ==
    /\ row' = IF ~Missing
              THEN [row EXCEPT !.status = "succeeded", !.lockedUntil = 0,
                               !.expiresAt = expiresAt, !.body = body]
              ELSE row
    /\ UNCHANGED lastId

MarkSucceeded(id, body, expiresAt) ==
    /\ row' = IF row.id = id
              THEN [row EXCEPT !.status = "succeeded", !.lockedUntil = 0,
                               !.expiresAt = expiresAt, !.body = body]
              ELSE row
    /\ UNCHANGED lastId

MarkFailedRetryable(id, lockedUntil, expiresAt) ==
    /\ row' = IF row.id = id
              THEN [row EXCEPT !.status = "failed_retryable", !.lockedUntil = lockedUntil,
                               !.expiresAt = expiresAt]
              ELSE row
    /\ UNCHANGED lastId

\* The cleanup service deletes an expired record whatever its status.
DeleteExpired ==
    /\ ~Missing
    /\ row.expiresAt <= clock
    /\ row' = NoRow
    /\ UNCHANGED <<clock, lastId>>
=============================================================================
