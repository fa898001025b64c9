-------------------------- MODULE BatchImageQueue --------------------------
(***************************************************************************)
(* The Redis queue of batch image jobs (batch_image_queue.go), as one job  *)
(* sees it: how often it is in the ready list, whether it is in the        *)
(* delayed and the active set, its inflight key and the lock of the job.   *)
(* Every operation is one script or one MULTI/EXEC.                        *)
(***************************************************************************)
EXTENDS Integers

CONSTANTS
    Workers,   \* worker processes, one for each instance of the program
    NoWorker   \* the lock is free

VARIABLES
    ready,      \* occurrences of the job in the ready list
    delayed,    \* the job is in the delayed zset
    active,     \* the job is in the active zset
    inflight,   \* the key that keeps the job from being queued twice
    lock        \* who holds the job's lock

queueVars == <<ready, delayed, active, inflight, lock>>

QueueTypeOK ==
    /\ ready \in Nat
    /\ {delayed, active, inflight} \subseteq BOOLEAN
    /\ lock \in Workers \cup {NoWorker}

QueueInit ==
    /\ ready = 0
    /\ delayed = FALSE
    /\ active = FALSE
    /\ inflight = FALSE
    /\ lock = NoWorker

Queued == ready > 0 \/ delayed \/ active

\* A job whose inflight key is set is not pushed: ErrBatchImageAlreadyQueued.
Enqueue ==
    /\ inflight' = TRUE
    /\ ready' = IF inflight THEN ready ELSE ready + 1
    /\ UNCHANGED <<delayed, active, lock>>

\* Variant with a defect: the pop and the write of the active set are two
\* commands, and the second is lost.
ReserveJobWithoutActive ==
    /\ ready > 0
    /\ ready' = ready - 1
    /\ UNCHANGED <<delayed, active, inflight, lock>>

ReserveJob ==
    /\ ready > 0
    /\ ready' = ready - 1
    /\ active' = TRUE
    /\ UNCHANGED <<delayed, inflight, lock>>

RequeueAfter ==
    /\ active' = FALSE
    /\ delayed' = TRUE
    /\ UNCHANGED <<ready, inflight, lock>>

Ack ==
    /\ active' = FALSE
    /\ delayed' = FALSE
    /\ inflight' = FALSE
    /\ UNCHANGED <<ready, lock>>

MoveDueDelayed ==
    /\ delayed
    /\ delayed' = FALSE
    /\ ready' = ready + 1
    /\ UNCHANGED <<active, inflight, lock>>

RecoverStaleActive ==
    /\ active
    /\ active' = FALSE
    /\ ready' = ready + 1
    /\ UNCHANGED <<delayed, inflight, lock>>

TryAcquireJobLock(w) ==
    /\ lock = NoWorker
    /\ lock' = w
    /\ UNCHANGED <<ready, delayed, active, inflight>>

ReleaseJobLock(w) ==
    /\ lock' = IF lock = w THEN NoWorker ELSE lock
    /\ UNCHANGED <<ready, delayed, active, inflight>>

JobLockExpires ==
    /\ lock # NoWorker
    /\ lock' = NoWorker
    /\ UNCHANGED <<ready, delayed, active, inflight>>
=============================================================================
