-------------------------- MODULE IdempotencyProofs --------------------------
(***************************************************************************)
(* Proofs about Idempotency, for any number of requests and payloads and   *)
(* any timeouts.                                                           *)
(***************************************************************************)
EXTENDS Idempotency, TLAPS

ReclaimLabel == {"reclaimExpired", "reclaimFailed"}

\* Nobody is ahead of the clock, and a missing record is empty.
TimeInv ==
    /\ \A r \in Requests : req[r].now <= clock
    /\ Missing => row = NoRow

\* Ids are never reused, and a request that knows the id of the record has the
\* record's payload; so what is stored was computed for that payload.
PayloadInv ==
    /\ row.id <= lastId
    /\ row.status = "succeeded" => row.body = row.fingerprint
    /\ \A r \in Requests :
          /\ req[r].id <= lastId
          /\ pc[r] \in ExecuteLabel \cup ReclaimLabel =>
                /\ req[r].id # 0
                /\ req[r].id = row.id => req[r].fingerprint = row.fingerprint

\* Until a record expires one request executes, and none after an effect.
OwnerInv ==
    /\ \A r \in Requests :
          /\ pc[r] \notin {"reclaimExpired", "getLatest"}
          /\ pc[r] = "reclaimFailed" => req[r].from = "failed_retryable"
          /\ pc[r] \in ExecuteLabel => row.id = req[r].id /\ row.status = "processing"
    /\ \A r, q \in Requests : pc[r] \in ExecuteLabel /\ pc[q] \in ExecuteLabel => r = q

EffectInv ==
    /\ effects <= 1
    /\ effects = 1 =>
          /\ row.status \in {"processing", "succeeded"}
          /\ \A r \in Requests : pc[r] \notin {"execute", "markFailed"}

OnceInv ==
    /\ Expired => expired
    /\ ~expired => OwnerInv /\ EffectInv

IInv == TypeOK /\ TimeInv /\ PayloadInv /\ OnceInv

-----------------------------------------------------------------------------
(* What a step changes                                                     *)

\* A step of a request changes its own variables only, and keeps their types.
LEMMA StepLocal ==
    ASSUME TypeOK, NEW r \in Requests, Step(r)
    PROVE  /\ RequestTypeOK'
           /\ \A q \in Requests \ {r} : pc'[q] = pc[q] /\ req'[q] = req[q] /\ answer'[q] = answer[q]
<1> USE DEF TypeOK, RequestTypeOK
<1>1. NoReq \in Req /\ {"idle", "create", "get", "reclaimExpired", "getLatest",
                        "reclaimFailed", "execute", "markSucceeded", "markFailed"} \subseteq Label
    BY DEF NoReq, Req, Label, ExecuteLabel
<1>2. {"none", "executed", "replayed", "failed", "unavailable", "conflict", "in_progress",
       "backoff"} \subseteq Answer
    BY DEF Answer
<1>3. row.id \in Nat /\ row.status \in RecordStatus \cup {"none"} /\ lastId \in Nat /\ clock \in Nat
    BY DEF StoreTypeOK, Row
<1>4. \A n \in Nat : [req[r] EXCEPT !.id = n] \in Req
    BY DEF Req
<1>5. [req[r] EXCEPT !.id = row.id, !.from = row.status] \in Req
    BY <1>3 DEF Req
<1>6. \A f \in Fingerprints : [NoReq EXCEPT !.fingerprint = f, !.now = clock] \in Req
    BY <1>3 DEF NoReq, Req
<1>7. CASE Start(r)
    BY <1>7, <1>1, <1>2, <1>6 DEF Start
<1>8. CASE Create(r)
  <2>1. CASE Missing
    <3>1. lastId' \in Nat
        BY <1>8, <2>1, <1>3 DEF Create, CreateProcessing
    <3>2. req' = [req EXCEPT ![r] = [req[r] EXCEPT !.id = lastId']]
        BY <1>8, <2>1 DEF Create
    <3>3. QED
        BY <1>8, <2>1, <3>1, <3>2, <1>1, <1>4 DEF Create, Goto
  <2>2. CASE ~Missing
    BY <1>8, <2>2, <1>1 DEF Create, Goto
  <2>3. QED
    BY <2>1, <2>2
<1>9. CASE Get(r)
    BY <1>9, <1>1, <1>2, <1>5 DEF Get, Decide, Goto, Return
<1>10. CASE TryReclaim(r)
    BY <1>10, <1>1, <1>2 DEF TryReclaim, Goto, Return
<1>11. CASE Execute(r)
    BY <1>11, <1>1 DEF Execute, Goto
<1>12. CASE Succeed(r) \/ Fail(r) \/ Abort(r)
    BY <1>12, <1>1, <1>2 DEF Succeed, Fail, Abort, Return
<1>13. QED
    BY <1>7, <1>8, <1>9, <1>10, <1>11, <1>12 DEF Step

\* A request's time is the one it read when it started.
LEMMA TimeStep ==
    ASSUME IInv, Next
    PROVE  TimeInv'
<1> USE DEF IInv, TypeOK, RequestTypeOK
<1>0. clock \in Nat /\ row \in Row /\ lastId \in Nat
    BY StoreAssumption DEF StoreTypeOK
<1>1. CASE Tick
    BY <1>1, <1>0 DEF Tick, TimeInv, Missing, Req
<1>2. CASE Cleanup
    BY <1>2, <1>0 DEF Cleanup, DeleteExpired, TimeInv, Missing, NoRow
<1>3. ASSUME NEW r \in Requests, Step(r) PROVE TimeInv'
  <2>1. clock' = clock
    BY <1>3 DEF Step, Start, Create, Get, TryReclaim, Execute, Succeed, Fail, Abort, storeVars
  <2>2. req'[r].now \in {req[r].now, clock, 0}
    <3>0. req[r] \in Req
      OBVIOUS
    <3>1. CASE Start(r)
      <4>1. PICK f \in Fingerprints :
               req' = [req EXCEPT ![r] = [NoReq EXCEPT !.fingerprint = f, !.now = clock]]
        BY <3>1 DEF Start
      <4>2. QED
        BY <4>1 DEF NoReq
    <3>2. CASE Create(r) \/ TryReclaim(r) \/ Execute(r)
      BY <3>0, <3>2 DEF Create, TryReclaim, Execute, Return, NoReq, Req
    <3>3. CASE Get(r)
      BY <3>0, <3>3 DEF Get, Decide, Return, NoReq, Req
    <3>4. CASE Succeed(r) \/ Fail(r) \/ Abort(r)
      BY <3>4 DEF Succeed, Fail, Abort, Return, NoReq
    <3>5. QED
      BY <1>3, <3>1, <3>2, <3>3, <3>4 DEF Step
  <2>3. \A q \in Requests : req'[q].now <= clock'
    BY <1>3, <2>1, <2>2, <1>0, StepLocal DEF TimeInv
  <2>4. Missing' => row' = NoRow
    <3> USE DEF Missing
    <3>1. CASE Create(r)
      BY <3>1, <1>0 DEF Create, CreateProcessing, TimeInv
    <3>2. CASE TryReclaim(r)
      BY <3>2, <1>0 DEF TryReclaim, Reclaimable, Reclaim, Row, TimeInv, PayloadInv, ReclaimLabel
    <3>3. CASE Succeed(r)
      BY <3>3, <1>0 DEF Succeed, MarkSucceeded, Row, TimeInv, PayloadInv, ExecuteLabel
    <3>4. CASE Fail(r)
      BY <3>4, <1>0 DEF Fail, MarkFailedRetryable, Row, TimeInv, PayloadInv, ExecuteLabel
    <3>5. CASE Start(r) \/ Get(r) \/ Execute(r) \/ Abort(r)
      BY <3>5 DEF Start, Get, Execute, Abort, storeVars, TimeInv
    <3>6. QED
      BY <1>3, <3>1, <3>2, <3>3, <3>4, <3>5 DEF Step
  <2>5. QED
    BY <2>3, <2>4 DEF TimeInv
<1>4. QED
    BY <1>1, <1>2, <1>3 DEF Next

\* Expiry times lie at most one TTL ahead.
LEMMA TypeStep ==
    ASSUME IInv, Next
    PROVE  TypeOK'
<1> USE DEF IInv, TypeOK
<1>0. /\ clock \in Nat /\ row \in Row /\ lastId \in Nat /\ clock <= MaxTime
      /\ TTL \in Nat /\ MaxTime \in Nat /\ ProcessingTimeout \in Nat /\ FailedRetryBackoff \in Nat
    BY StoreAssumption, CoordinatorAssumption DEF StoreTypeOK
<1>1. HistoryTypeOK'
  <2>1. expired' \in BOOLEAN
    BY DEF Next
  <2>2. CASE Tick \/ Cleanup
    BY <2>1, <2>2 DEF Tick, Cleanup, history, HistoryTypeOK
  <2>3. ASSUME NEW r \in Requests, Execute(r) PROVE effects' \in Nat /\ lastEffect' \in Nat
    BY <2>3 DEF Execute, history, HistoryTypeOK, RequestTypeOK, Req
  <2>4. ASSUME NEW r \in Requests,
               \/ Start(r) \/ Create(r) \/ Get(r) \/ TryReclaim(r) \/ Succeed(r) \/ Fail(r) \/ Abort(r)
        PROVE  effects' \in Nat /\ lastEffect' \in Nat
    BY <2>4 DEF Start, Create, Get, TryReclaim, Succeed, Fail, Abort, history, HistoryTypeOK
  <2>5. QED
    BY <2>1, <2>2, <2>3, <2>4 DEF Next, Step, HistoryTypeOK
<1>2. CASE Tick
    BY <1>1, <1>2, <1>0 DEF Tick, StoreTypeOK, RequestTypeOK
<1>3. CASE Cleanup
    BY <1>1, <1>3, <1>0 DEF Cleanup, DeleteExpired, StoreTypeOK, RequestTypeOK, NoRow, Row
<1>4. ASSUME NEW r \in Requests, Step(r) PROVE StoreTypeOK'
  <2>1. req[r].now \in Nat /\ req[r].now <= clock /\ req[r].id \in Nat
        /\ req[r].fingerprint \in Fingerprints \cup {NoFingerprint}
    BY DEF TimeInv, RequestTypeOK, Req
  <2>2. /\ ExpiresAt(r) \in Nat /\ ExpiresAt(r) <= MaxTime + TTL
        /\ LockedUntil(r) \in Nat /\ clock + FailedRetryBackoff \in Nat
    BY <2>1, <1>0 DEF ExpiresAt, LockedUntil
  <2>3. CASE Create(r)
    BY <2>3, <2>1, <2>2, <1>0 DEF Create, CreateProcessing, StoreTypeOK, Row, RecordStatus
  <2>4. CASE TryReclaim(r)
    BY <2>4, <2>1, <2>2, <1>0 DEF TryReclaim, Reclaim, StoreTypeOK, Row, RecordStatus
  <2>5. CASE Succeed(r)
    BY <2>5, <2>1, <2>2, <1>0 DEF Succeed, MarkSucceeded, StoreTypeOK, Row, RecordStatus
  <2>6. CASE Fail(r)
    BY <2>6, <2>1, <2>2, <1>0 DEF Fail, MarkFailedRetryable, StoreTypeOK, Row, RecordStatus
  <2>7. CASE Start(r) \/ Get(r) \/ Execute(r) \/ Abort(r)
    BY <2>7 DEF Start, Get, Execute, Abort, storeVars, StoreTypeOK
  <2>8. QED
    BY <1>4, <2>3, <2>4, <2>5, <2>6, <2>7 DEF Step
<1>5. QED
    BY <1>1, <1>2, <1>3, <1>4, StepLocal DEF Next

\* What a replay returns was stored for the record's payload.
LEMMA PayloadStep ==
    ASSUME IInv, Next
    PROVE  PayloadInv'
<1> USE DEF IInv, TypeOK, RequestTypeOK
<1>0. row \in Row /\ lastId \in Nat
    BY DEF StoreTypeOK
<1>1. CASE Tick
    BY <1>1 DEF Tick, PayloadInv
<1>2. CASE Cleanup
    BY <1>2, <1>0 DEF Cleanup, DeleteExpired, PayloadInv, NoRow
<1>3. ASSUME NEW r \in Requests, Step(r) PROVE PayloadInv'
  <2> USE <1>0
  <2>0. \A q \in Requests \ {r} : pc'[q] = pc[q] /\ req'[q] = req[q]
    BY <1>3, StepLocal
  <2>1. CASE Create(r) /\ Missing
    <3>1. row'.id = lastId + 1 /\ lastId' = lastId + 1 /\ row'.status = "processing"
          /\ row'.fingerprint = req[r].fingerprint
      BY <2>1 DEF Create, CreateProcessing
    <3>2. req'[r].id = lastId + 1 /\ req'[r].fingerprint = req[r].fingerprint
      BY <2>1, <3>1 DEF Create, Req
    <3>3. \A q \in Requests : req[q].id \in Nat /\ req[q].id <= lastId
      BY DEF PayloadInv, Req
    <3>4. \A q \in Requests \ {r} : req'[q].id # row'.id /\ req'[q].id <= lastId'
      BY <2>0, <3>1, <3>3
    <3>5. QED
      BY <2>0, <3>1, <3>2, <3>4 DEF PayloadInv
  <2>2. CASE Create(r) /\ ~Missing
    BY <2>2, <2>0 DEF Create, Goto, PayloadInv, ExecuteLabel, ReclaimLabel
  <2>3. CASE Start(r) \/ Abort(r)
    <3>1. UNCHANGED storeVars /\ req'[r].id = 0 /\ pc'[r] \in {"idle", "create"}
      <4>1. CASE Start(r)
        <5>1. PICK f \in Fingerprints :
                 req' = [req EXCEPT ![r] = [NoReq EXCEPT !.fingerprint = f, !.now = clock]]
          BY <4>1 DEF Start
        <5>2. QED
          BY <4>1, <5>1 DEF Start, NoReq
      <4>2. CASE Abort(r)
        BY <4>2 DEF Abort, Return, NoReq
      <4>3. QED
        BY <2>3, <4>1, <4>2
    <3>2. QED
      BY <2>0, <3>1 DEF storeVars, PayloadInv, ExecuteLabel, ReclaimLabel
  <2>4. CASE Get(r)
    <3>1. UNCHANGED storeVars
      BY <2>4 DEF Get
    <3>2. \/ pc'[r] = "idle" /\ req'[r].id = 0
          \/ /\ ~Missing /\ row.fingerprint = req[r].fingerprint
             /\ req'[r].id = row.id /\ req'[r].fingerprint = req[r].fingerprint
      BY <2>4 DEF Get, Decide, Return, NoReq, Req
    <3>3. QED
      BY <2>0, <3>1, <3>2 DEF storeVars, PayloadInv, ExecuteLabel, ReclaimLabel, Missing, Row
  <2>5. CASE TryReclaim(r)
    <3>1. /\ UNCHANGED lastId /\ row'.id = row.id /\ row'.fingerprint = row.fingerprint
          /\ row'.status = "succeeded" => row' = row
      BY <2>5 DEF TryReclaim, Reclaim, Row
    <3>2. \/ pc'[r] = "idle" /\ req'[r].id = 0
          \/ req'[r] = req[r] /\ pc[r] \in ReclaimLabel
      BY <2>5 DEF TryReclaim, Goto, Return, NoReq, ReclaimLabel
    <3>3. QED
      BY <2>0, <3>1, <3>2 DEF PayloadInv, ExecuteLabel, ReclaimLabel
  <2>6. CASE Execute(r)
    <3>1. UNCHANGED <<row, lastId, req>> /\ pc[r] \in ExecuteLabel
      BY <2>6 DEF Execute, storeVars, ExecuteLabel
    <3>2. QED
      BY <2>0, <3>1 DEF PayloadInv
  <2>7. CASE Succeed(r) \/ Fail(r)
    <3>1. /\ UNCHANGED lastId /\ row'.id = row.id /\ row'.fingerprint = row.fingerprint
          /\ pc'[r] = "idle" /\ req'[r].id = 0
      <4>1. pc'[r] = "idle" /\ req'[r].id = 0
        BY <2>7 DEF Succeed, Fail, Return, NoReq
      <4>2. CASE Succeed(r)
        BY <4>1, <4>2 DEF Succeed, MarkSucceeded, Row
      <4>3. CASE Fail(r)
        BY <4>1, <4>3 DEF Fail, MarkFailedRetryable, Row
      <4>4. QED
        BY <2>7, <4>2, <4>3
    <3>2. pc[r] \in ExecuteLabel
      BY <2>7 DEF Succeed, Fail, ExecuteLabel
    <3>3. row'.status = "succeeded" => row'.body = row'.fingerprint
      BY <2>7, <3>2 DEF Succeed, Fail, MarkSucceeded, MarkFailedRetryable, PayloadInv, Row
    <3>4. QED
      BY <2>0, <3>1, <3>3 DEF PayloadInv, ExecuteLabel, ReclaimLabel
  <2>8. QED
    BY <1>3, <2>1, <2>2, <2>3, <2>4, <2>5, <2>6, <2>7 DEF Step
<1>4. QED
    BY <1>1, <1>2, <1>3 DEF Next

\* The step that would break exclusive execution needs an expired record.
LEMMA OnceStep ==
    ASSUME IInv, Next
    PROVE  OnceInv'
<1> USE DEF IInv, TypeOK, RequestTypeOK
<1>0. row \in Row /\ lastId \in Nat /\ effects \in Nat /\ clock \in Nat
    BY StoreAssumption DEF StoreTypeOK, HistoryTypeOK
<1>1. expired' = (expired \/ Expired')
    BY DEF Next
<1>2. SUFFICES ASSUME ~expired' PROVE OwnerInv' /\ EffectInv'
    BY <1>1 DEF OnceInv
<1>3. ~expired /\ ~Expired /\ OwnerInv /\ EffectInv
    BY <1>1, <1>2 DEF OnceInv
<1>4. CASE Tick
    BY <1>3, <1>4 DEF Tick, OwnerInv, EffectInv, history
<1>5. ~Cleanup
    BY <1>0, <1>3 DEF Cleanup, DeleteExpired, Expired, Missing
<1>6. ASSUME NEW r \in Requests, Step(r) PROVE OwnerInv' /\ EffectInv'
  <2> USE <1>0
  <2>0. \A q \in Requests \ {r} : pc'[q] = pc[q] /\ req'[q] = req[q]
    BY <1>6, StepLocal
  <2>1. CASE Create(r) /\ Missing
    <3>1. row = NoRow
      BY <2>1 DEF TimeInv
    <3>2. effects = 0 /\ \A q \in Requests : pc[q] \notin ExecuteLabel
      BY <1>3, <3>1 DEF NoRow, OwnerInv, EffectInv
    <3>3. /\ row'.id = lastId + 1 /\ row'.status = "processing" /\ UNCHANGED effects
          /\ pc'[r] = "execute" /\ req'[r].id = lastId + 1
      BY <2>1 DEF Create, CreateProcessing, Goto, history, Req
    <3>4. QED
      BY <1>3, <2>0, <3>2, <3>3 DEF OwnerInv, EffectInv
  <2>2. CASE Start(r) \/ Abort(r) \/ (Create(r) /\ ~Missing)
    <3>1. UNCHANGED <<row, effects>> /\ pc'[r] \in {"idle", "create", "get"}
      BY <2>2 DEF Start, Abort, Create, Goto, Return, storeVars, history
    <3>2. QED
      BY <1>3, <2>0, <3>1 DEF OwnerInv, EffectInv, ExecuteLabel
  <2>3. CASE Get(r)
    <3>1. UNCHANGED <<row, effects>>
      BY <2>3 DEF Get, storeVars, history
    <3>2. req[r].now \in Nat /\ req[r].now <= clock
      BY DEF TimeInv, Req
    <3>3. row.id # 0 => ~(row.expiresAt <= req[r].now)
      BY <1>3, <3>2 DEF Expired, Row
    <3>4. \/ pc'[r] = "idle"
          \/ pc'[r] = "reclaimFailed" /\ req'[r].from = "failed_retryable"
      BY <1>3, <2>3, <3>3 DEF Get, Decide, Goto, Return, Missing, Req, OwnerInv
    <3>5. QED
      BY <1>3, <2>0, <3>1, <3>4 DEF OwnerInv, EffectInv, ExecuteLabel
  <2>4. CASE TryReclaim(r)
    <3>1. pc[r] = "reclaimFailed" /\ req[r].from = "failed_retryable"
      BY <1>3, <2>4 DEF TryReclaim, OwnerInv
    <3>2. CASE Reclaimable(req[r].id, req[r].from, req[r].now)
      <4>1. row.status = "failed_retryable" /\ row.id = req[r].id
        BY <3>1, <3>2 DEF Reclaimable
      <4>2. effects = 0 /\ \A q \in Requests : pc[q] \notin ExecuteLabel
        BY <1>3, <4>1 DEF OwnerInv, EffectInv
      <4>3. /\ row'.id = row.id /\ row'.status = "processing" /\ UNCHANGED effects
            /\ pc'[r] = "execute" /\ req'[r] = req[r]
        BY <2>4, <3>2 DEF TryReclaim, Reclaim, Goto, history, Row
      <4>4. QED
        BY <1>3, <2>0, <4>1, <4>2, <4>3 DEF OwnerInv, EffectInv
    <3>3. CASE ~Reclaimable(req[r].id, req[r].from, req[r].now)
      <4>1. UNCHANGED <<row, effects>> /\ pc'[r] = "idle"
        BY <2>4, <3>1, <3>3 DEF TryReclaim, Return, history
      <4>2. QED
        BY <1>3, <2>0, <4>1 DEF OwnerInv, EffectInv, ExecuteLabel
    <3>4. QED
      BY <3>2, <3>3
  <2>5. CASE Execute(r)
    <3>1. UNCHANGED <<row, req>> /\ pc[r] = "execute" /\ effects = 0
      BY <1>3, <2>5 DEF Execute, storeVars, EffectInv
    <3>2. row.status = "processing" /\ row.id = req[r].id
          /\ \A q \in Requests \ {r} : pc[q] \notin ExecuteLabel
      BY <1>3, <3>1 DEF OwnerInv, ExecuteLabel
    <3>3. \/ pc'[r] = "markSucceeded" /\ effects' = 1
          \/ pc'[r] = "markFailed" /\ effects' = 0
      BY <2>5, <3>1 DEF Execute, Goto, history
    <3>4. QED
      BY <1>3, <2>0, <3>1, <3>2, <3>3 DEF OwnerInv, EffectInv, ExecuteLabel
  <2>6. CASE Succeed(r)
    <3>1. row.id = req[r].id /\ \A q \in Requests \ {r} : pc[q] \notin ExecuteLabel
      BY <1>3, <2>6 DEF Succeed, OwnerInv, ExecuteLabel
    <3>2. row'.status = "succeeded" /\ UNCHANGED effects /\ pc'[r] = "idle"
      BY <2>6, <3>1 DEF Succeed, MarkSucceeded, Return, history, Row
    <3>3. QED
      BY <1>3, <2>0, <3>1, <3>2 DEF OwnerInv, EffectInv, ExecuteLabel
  <2>7. CASE Fail(r)
    <3>1. effects = 0 /\ \A q \in Requests \ {r} : pc[q] \notin ExecuteLabel
      BY <1>3, <2>7 DEF Fail, OwnerInv, EffectInv, ExecuteLabel
    <3>2. UNCHANGED effects /\ pc'[r] = "idle"
      BY <2>7 DEF Fail, Return, history
    <3>3. QED
      BY <1>3, <2>0, <3>1, <3>2 DEF OwnerInv, EffectInv, ExecuteLabel
  <2>8. QED
    BY <1>6, <2>1, <2>2, <2>3, <2>4, <2>5, <2>6, <2>7 DEF Step
<1>7. QED
    BY <1>4, <1>5, <1>6 DEF Next

-----------------------------------------------------------------------------
(* Theorems                                                                *)

\* The initial state satisfies the inductive invariant ...
LEMMA InitIInv == Init => IInv
<1> SUFFICES ASSUME Init PROVE IInv
    OBVIOUS
<1>1. 0 \in 0..MaxTime /\ 0 \in Nat /\ 0 <= MaxTime + TTL
    BY StoreAssumption, CoordinatorAssumption
<1>2. StoreTypeOK /\ HistoryTypeOK
    BY <1>1 DEF Init, StoreInit, StoreTypeOK, HistoryTypeOK, NoRow, Row
<1>3. RequestTypeOK
    BY <1>1 DEF Init, RequestTypeOK, Label, NoReq, Req, Answer
<1>4. TimeInv /\ PayloadInv
    BY DEF Init, StoreInit, TimeInv, PayloadInv, NoRow, NoReq, ExecuteLabel, ReclaimLabel
<1>5. OnceInv
    BY DEF Init, StoreInit, OnceInv, OwnerInv, EffectInv, Expired, NoRow, ExecuteLabel
<1>6. QED
    BY <1>2, <1>3, <1>4, <1>5 DEF IInv, TypeOK

\* ... and every step keeps it.
LEMMA NextIInv == IInv /\ [Next]_vars => IInv'
<1>1. ASSUME IInv, Next PROVE IInv'
    BY <1>1, TypeStep, TimeStep, PayloadStep, OnceStep DEF IInv
<1>2. ASSUME IInv, UNCHANGED vars PROVE IInv'
  <2> USE <1>2 DEF IInv, vars, storeVars, history
  <2>1. TypeOK'
    BY DEF TypeOK, StoreTypeOK, RequestTypeOK, HistoryTypeOK
  <2>2. TimeInv' /\ PayloadInv'
    BY DEF TimeInv, PayloadInv, Missing
  <2>3. OnceInv'
    BY DEF OnceInv, OwnerInv, EffectInv, Expired
  <2>4. QED
    BY <2>1, <2>2, <2>3
<1>3. QED
    BY <1>1, <1>2

\* The inductive invariant: ids identify payloads, and until a record expires
\* at most one request executes.
THEOREM Invariance == Spec => []IInv
<1>1. QED
    BY InitIInv, NextIInv, PTL DEF Spec

\* Every variable keeps its type, and no record is kept longer than its TTL
\* (Execute and the statements of the store).
THEOREM TypeCorrect == Spec => []TypeOK
<1>1. IInv => TypeOK
    BY DEF IInv
<1>2. QED
    BY <1>1, Invariance, PTL

\* Until a record first expires the protected write takes effect at most once,
\* for any number of racing, retrying and dying requests (Execute).
THEOREM AtMostOnce == Spec => []OnceUntilExpiry
<1>1. IInv => OnceUntilExpiry
    BY DEF IInv, OnceInv, EffectInv, OnceUntilExpiry
<1>2. QED
    BY <1>1, Invariance, PTL

\* A replay is the response to a request with the same payload, for any
\* durations and even after records expired (decodeStoredResponse).
THEOREM ReplayPayload == Spec => ReplayMatchesPayload
<1>1. ASSUME IInv, Next, NEW r \in Requests, answer[r] = "none", answer'[r] = "replayed"
      PROVE  row.body = req[r].fingerprint
  <2> USE DEF IInv, TypeOK, RequestTypeOK
  <2>1. PICK q \in Requests : Step(q)
    BY <1>1 DEF Next, Tick, Cleanup
  <2>2. q = r
    BY <1>1, <2>1, StepLocal
  <2>3. Get(r)
    BY <1>1, <2>1, <2>2 DEF Step, Start, Create, TryReclaim, Execute, Succeed, Fail, Abort, Goto,
                            Return
  <2>4. row.status = "succeeded" /\ row.fingerprint = req[r].fingerprint
    BY <1>1, <2>3 DEF Get, Decide, Goto, Return
  <2>5. QED
    BY <1>1, <2>4 DEF PayloadInv
<1>2. IInv /\ [Next]_vars =>
         [\A r \in Requests :
            (answer[r] = "none" /\ answer'[r] = "replayed") => row.body = req[r].fingerprint]_vars
    BY <1>1
<1>3. QED
    BY <1>2, Invariance, PTL DEF Spec, ReplayMatchesPayload
=============================================================================
