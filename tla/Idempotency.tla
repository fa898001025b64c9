----------------------------- MODULE Idempotency -----------------------------
(***************************************************************************)
(* The idempotency coordinator: IdempotencyCoordinator.Execute in          *)
(* idempotency.go, for the requests that carry one key in one scope.  A    *)
(* request executes its write only after it created or reclaimed the       *)
(* record; another request with the key is answered from the record.       *)
(*                                                                         *)
(* Every statement of the store is one step, and a request reads the time  *)
(* once, when it starts.                                                   *)
(***************************************************************************)
EXTENDS IdempotencyStore

CONSTANTS
    Requests,            \* requests with the same key
    TTL,                 \* ticks a record is kept
    ProcessingTimeout,   \* ticks locked_until is ahead of a claim
    FailedRetryBackoff,  \* ticks locked_until is ahead of a failure
    MaxDuration          \* bound: ticks a request may last

ASSUME CoordinatorAssumption ==
    /\ TTL \in Nat \ {0}
    /\ ProcessingTimeout \in Nat \ {0}
    /\ FailedRetryBackoff \in Nat
    /\ MaxDuration \in Nat

VARIABLES
    pc,          \* [Requests -> Label], the next call of the request
    req,         \* [Requests -> Req]
    answer,      \* [Requests -> Answer], of the last request
    effects,     \* history: executions that took effect
    lastEffect,  \* history: when the request of the last one started
    expired      \* history: some record outlived its expires_at

storeVars == <<clock, row, lastId>>
history   == <<effects, lastEffect>>
vars      == <<storeVars, pc, req, answer, history, expired>>

ExecuteLabel == {"execute", "markSucceeded", "markFailed"}
Label == ExecuteLabel \cup
         {"idle", "create", "get", "reclaimExpired", "getLatest", "reclaimFailed"}

Answer == {"none", "executed", "replayed", "failed", "unavailable", "conflict",
           "in_progress", "backoff"}

Req == [fingerprint : Fingerprints \cup {NoFingerprint},
        now         : Nat,
        id          : Nat,                         \* existing.ID, record.ID
        from        : RecordStatus \cup {"none"}]  \* existing.Status

NoReq == [fingerprint |-> NoFingerprint, now |-> 0, id |-> 0, from |-> "none"]

StoreTypeOK ==
    /\ clock \in 0..MaxTime
    /\ row \in Row
    /\ row.expiresAt <= MaxTime + TTL
    /\ lastId \in Nat

RequestTypeOK ==
    /\ pc \in [Requests -> Label]
    /\ req \in [Requests -> Req]
    /\ answer \in [Requests -> Answer]

HistoryTypeOK ==
    /\ effects \in Nat
    /\ lastEffect \in Nat
    /\ expired \in BOOLEAN

TypeOK == StoreTypeOK /\ RequestTypeOK /\ HistoryTypeOK

Init ==
    /\ StoreInit
    /\ pc = [r \in Requests |-> "idle"]
    /\ req = [r \in Requests |-> NoReq]
    /\ answer = [r \in Requests |-> "none"]
    /\ effects = 0
    /\ lastEffect = 0
    /\ expired = FALSE

-----------------------------------------------------------------------------

ExpiresAt(r)   == req[r].now + TTL
LockedUntil(r) == req[r].now + ProcessingTimeout

Goto(r, label) ==
    /\ pc' = [pc EXCEPT ![r] = label]
    /\ UNCHANGED answer

Return(r, a) ==
    /\ pc' = [pc EXCEPT ![r] = "idle"]
    /\ req' = [req EXCEPT ![r] = NoReq]
    /\ answer' = [answer EXCEPT ![r] = a]

Tick ==
    /\ clock < MaxTime
    /\ \A r \in Requests : pc[r] # "idle" => clock < req[r].now + MaxDuration
    /\ clock' = clock + 1
    /\ UNCHANGED <<row, lastId, pc, req, answer, history>>

\* cleanupOnce.
Cleanup ==
    /\ DeleteExpired
    /\ UNCHANGED <<pc, req, answer, history>>

Start(r) ==
    /\ pc[r] = "idle"
    /\ \E f \in Fingerprints :
          req' = [req EXCEPT ![r] = [NoReq EXCEPT !.fingerprint = f, !.now = clock]]
    /\ pc' = [pc EXCEPT ![r] = "create"]
    /\ answer' = [answer EXCEPT ![r] = "none"]
    /\ UNCHANGED <<storeVars, history>>

Create(r) ==
    /\ pc[r] = "create"
    /\ IF Missing
       THEN /\ CreateProcessing(req[r].fingerprint, LockedUntil(r), ExpiresAt(r))
            /\ req' = [req EXCEPT ![r].id = lastId']
            /\ Goto(r, "execute")
       ELSE /\ Goto(r, "get")
            /\ UNCHANGED <<row, lastId, req>>
    /\ UNCHANGED <<clock, history>>

\* The answer to a request that found the record and may not reclaim it as
\* expired: what the switch over existing.Status decides.
Decide(r) ==
    \/ /\ row.status = "succeeded"
       /\ Return(r, "replayed")
    \/ /\ row.status = "processing"
       /\ Return(r, "in_progress")
    \/ /\ row.status = "failed_retryable"
       /\ row.lockedUntil > req[r].now
       /\ Return(r, "backoff")
    \/ /\ row.status = "failed_retryable"
       /\ row.lockedUntil <= req[r].now
       /\ req' = [req EXCEPT ![r].id = row.id, ![r].from = row.status]
       /\ Goto(r, "reclaimFailed")

\* GetByScopeAndKeyHash, at first and after a reclaim of the expired record
\* failed.
Get(r) ==
    /\ pc[r] \in {"get", "getLatest"}
    /\ \/ /\ Missing
          /\ Return(r, "unavailable")
       \/ /\ ~Missing
          /\ row.fingerprint # req[r].fingerprint
          /\ Return(r, "conflict")
       \/ /\ ~Missing
          /\ row.fingerprint = req[r].fingerprint
          /\ pc[r] = "get"
          /\ row.expiresAt <= req[r].now
          /\ req' = [req EXCEPT ![r].id = row.id, ![r].from = row.status]
          /\ Goto(r, "reclaimExpired")
       \/ /\ ~Missing
          /\ row.fingerprint = req[r].fingerprint
          /\ pc[r] = "getLatest" \/ row.expiresAt > req[r].now
          /\ Decide(r)
    /\ UNCHANGED <<storeVars, history>>

\* A reclaim that comes too late ends the request, or lets it look again if
\* it meant to take over an expired record.
TryReclaim(r) ==
    /\ pc[r] \in {"reclaimExpired", "reclaimFailed"}
    /\ IF Reclaimable(req[r].id, req[r].from, req[r].now)
       THEN /\ Reclaim(LockedUntil(r), ExpiresAt(r))
            /\ Goto(r, "execute")
            /\ UNCHANGED req
       ELSE /\ IF pc[r] = "reclaimExpired"
               THEN Goto(r, "getLatest") /\ UNCHANGED req
               ELSE Return(r, "in_progress")
            /\ UNCHANGED <<row, lastId>>
    /\ UNCHANGED <<clock, history>>

\* execute(ctx), the write the key protects.  One that fails has no effect.
Execute(r) ==
    /\ pc[r] = "execute"
    /\ \/ /\ Goto(r, "markSucceeded")
          /\ effects' = effects + 1
          /\ lastEffect' = req[r].now
       \/ /\ Goto(r, "markFailed")
          /\ UNCHANGED history
    /\ UNCHANGED <<storeVars, req>>

Succeed(r) ==
    /\ pc[r] = "markSucceeded"
    /\ MarkSucceeded(req[r].id, req[r].fingerprint, ExpiresAt(r))
    /\ Return(r, "executed")
    /\ UNCHANGED <<clock, history>>

Fail(r) ==
    /\ pc[r] = "markFailed"
    /\ MarkFailedRetryable(req[r].id, clock + FailedRetryBackoff, ExpiresAt(r))
    /\ Return(r, "failed")
    /\ UNCHANGED <<clock, history>>

\* The store fails, the stored response cannot be decoded, or the process dies.
Abort(r) ==
    /\ pc[r] # "idle"
    /\ Return(r, "unavailable")
    /\ UNCHANGED <<storeVars, history>>

Step(r) ==
    \/ Start(r)
    \/ Create(r)
    \/ Get(r)
    \/ TryReclaim(r)
    \/ Execute(r)
    \/ Succeed(r)
    \/ Fail(r)
    \/ Abort(r)

Expired == row.id # 0 /\ row.expiresAt <= clock

Next ==
    /\ Tick \/ Cleanup \/ \E r \in Requests : Step(r)
    /\ expired' = (expired \/ Expired')

Spec == Init /\ [][Next]_vars

-----------------------------------------------------------------------------
(* Properties                                                              *)

\* Until a record first expires the write takes effect at most once, however
\* requests with the key race to create the record or to retry after a
\* failure, and wherever a request dies between its write and MarkSucceeded.
OnceUntilExpiry == ~expired => effects <= 1

\* A replay returns the response of a request with the same payload, even
\* when a request outlives its record and the key is used again.
ReplayMatchesPayload ==
    [][\A r \in Requests :
          (answer[r] = "none" /\ answer'[r] = "replayed") => row.body = req[r].fingerprint]_vars

\* The promise of the tests, "concurrent same-key requests should execute
\* business side-effect once", for every record: a write takes effect again
\* only when the record of the previous one may have expired.
OncePerRecord ==
    [][\A r \in Requests :
          (pc[r] = "execute" /\ pc'[r] = "markSucceeded") =>
              effects = 0 \/ clock >= lastEffect + TTL]_vars
=============================================================================
