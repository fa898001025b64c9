--------------------------- MODULE BatchImageJob ---------------------------
(***************************************************************************)
(* One batch image job from its submission to the end of its hold: Submit  *)
(* and Cancel (batch_image_public.go), the recovery of submissions that    *)
(* died (batch_image_billing_recovery.go), the workers                     *)
(* (batch_image_worker.go, batch_image_processor.go) and the settlement    *)
(* (batch_image_settlement.go), which share the job's row, the user's      *)
(* balance, the queue and the provider's job.                              *)
(*                                                                         *)
(* pc[p] is the call that process p makes next; every call is one          *)
(* statement, transaction, script or provider request and is atomic.  What *)
(* a process remembers between calls is in the name of the label.          *)
(***************************************************************************)
EXTENDS BalanceHold, BatchImageQueue

CONSTANTS
    Costs,        \* what the successful items of the job may cost
    MaxRetries,   \* batchImageSettlementMaxRetries
    MaxTroubles   \* bound: failed calls, lost answers, crashes and lost leases

ASSUME JobAssumption ==
    /\ Costs \subseteq Nat /\ Costs # {}
    /\ MaxRetries \in Nat \ {0, 1}
    /\ MaxTroubles \in Nat
    /\ NoWorker \notin Workers
    /\ Workers \cap {"submit", "cancel", "sweep"} = {}

VARIABLES
    job,        \* the row of batch_image_jobs
    upstream,   \* the provider's job
    pc,         \* [Process -> label]
    troubles    \* [Trouble -> Nat], what has gone wrong so far

vars == <<holdVars, queueVars, job, upstream, pc, troubles>>

Process == {"submit", "cancel", "sweep"} \cup Workers

\* A failed call, a lost answer or the crash of a process, a lost lease.
Trouble == {"fail", "lost", "delay"}
Troubles == troubles["fail"] + troubles["lost"] + troubles["delay"]

Terminal == {"completed", "failed", "cancelled", "output_deleted"}
Unsubmitted == {"created", "uploading"}
Status == {"none", "submitted", "running", "indexing", "settling"} \cup Unsubmitted \cup Terminal

Job == [status     : Status,
        named      : BOOLEAN,          \* provider_job_name is set
        stale      : BOOLEAN,          \* updated_at is before the recovery's cutoff
        deleted    : BOOLEAN,          \* user_deleted_at is set
        retryCount : 0..MaxRetries,    \* counted up to the limit
        lastError  : {"none", "submit", "stale", "settlement"},
        cost       : Costs \cup {0}]   \* success_count times the unit price

\* The provider's job; once cancelling it may still end with a result.
Upstream == {"none", "running", "cancelling", "succeeded", "failed", "cancelled"}

SubmitLabel == {"new", "reserve", "items", "upload", "provider", "update", "enqueue", "abort",
                "recordQueue", "release", "releaseOnly", "recordFailed", "recordRelease",
                "retry", "done"}
CancelLabel == {"idle", "transition", "providerCancel", "release", "enqueue"}
SweepLabel == {"idle", "fail", "release", "enqueue"}
WorkerLabel == {"idle", "lock", "conflict", "read", "process", "poll", "toRunning", "toIndexing",
                "index", "toSettling", "toFailed", "toCancelled", "release", "settle", "capture",
                "markSettled", "recordFailure", "recordExceeds", "failExhausted",
                "recordRelease", "exhausted", "reread", "ack", "requeue", "unlock"}
Label == SubmitLabel \cup CancelLabel \cup SweepLabel \cup WorkerLabel

TypeOK ==
    /\ HoldTypeOK
    /\ QueueTypeOK
    /\ job \in Job
    /\ upstream \in Upstream
    /\ pc \in [Process -> Label]
    /\ pc["submit"] \in SubmitLabel
    /\ pc["cancel"] \in CancelLabel
    /\ pc["sweep"] \in SweepLabel
    /\ \A w \in Workers : pc[w] \in WorkerLabel
    /\ troubles \in [Trouble -> 0..MaxTroubles]

Init ==
    /\ HoldInit
    /\ QueueInit
    /\ job = [status |-> "none", named |-> FALSE, stale |-> FALSE, deleted |-> FALSE,
              retryCount |-> 0, lastError |-> "none", cost |-> 0]
    /\ upstream = "none"
    /\ pc = [p \in Process |-> IF p = "submit" THEN "new" ELSE "idle"]
    /\ troubles = [t \in Trouble |-> 0]

-----------------------------------------------------------------------------
(* Calls                                                                   *)

GoTo(p, label) == pc' = [pc EXCEPT ![p] = label]

Suffer(t) ==
    /\ Troubles < MaxTroubles
    /\ troubles' = [troubles EXCEPT ![t] = @ + 1]

\* A call succeeds, fails without effect, or takes effect and loses its answer.
Outcome == {"ok", "fail", "lost"}
Happens(o) == IF o = "ok" THEN UNCHANGED troubles ELSE Suffer(o)

CanTransition(from, to) ==
    \/ from \in Terminal \ {"output_deleted"}    /\ to = "output_deleted"
    \/ from \notin Terminal \cup {"none"}        /\ to = "failed"
    \/ from = "created"                          /\ to \in {"uploading", "submitted", "cancelled"}
    \/ from = "uploading"                        /\ to \in {"submitted", "cancelled"}
    \/ from \in {"submitted", "running"}         /\ to \in {"running", "indexing", "cancelled"}
    \/ from = "indexing"                         /\ to = "settling"
    \/ from = "settling"                         /\ to = "completed"

\* One call of TransitionBatchImageJobStatus by process p.
Transition(p, to, onSuccess, onInvalid, onError) ==
    \E o \in Outcome :
       /\ Happens(o)
       /\ IF o # "fail" /\ CanTransition(job.status, to)
          THEN job' = [job EXCEPT !.status = to, !.stale = FALSE]
          ELSE UNCHANGED job
       /\ GoTo(p, IF o # "ok" THEN onError
                  ELSE IF CanTransition(job.status, to) THEN onSuccess ELSE onInvalid)
       /\ UNCHANGED <<holdVars, queueVars, upstream>>

\* releaseBatchImageBalanceHold
ReleaseHold(p, onSuccess, onError) ==
    \E o \in Outcome :
       /\ Happens(o)
       /\ IF o # "fail" /\ CanRelease THEN Release ELSE UNCHANGED holdVars
       /\ GoTo(p, IF o = "ok" /\ CanRelease THEN onSuccess ELSE onError)
       /\ UNCHANGED <<queueVars, job, upstream>>

EnqueueJob(p, next) ==
    \E o \in {"ok", "fail"} :
       /\ Happens(o)
       /\ IF o = "ok" THEN Enqueue ELSE UNCHANGED queueVars
       /\ GoTo(p, next)
       /\ UNCHANGED <<holdVars, job, upstream>>

-----------------------------------------------------------------------------
(* Submit                                                                  *)

SubmitCreate ==
    /\ pc["submit"] = "new"
    /\ job' = [job EXCEPT !.status = "created"]
    /\ GoTo("submit", "reserve")
    /\ UNCHANGED <<holdVars, queueVars, upstream, troubles>>

SubmitReserve ==
    /\ pc["submit"] = "reserve"
    /\ \E o \in Outcome :
          /\ Happens(o)
          /\ IF o # "fail" /\ CanReserve THEN Reserve ELSE UNCHANGED holdVars
          /\ GoTo("submit", IF o = "ok" /\ CanReserve THEN "items" ELSE "recordFailed")
    /\ UNCHANGED <<queueVars, job, upstream>>

SubmitItems ==
    /\ pc["submit"] = "items"
    /\ \E o \in {"ok", "fail"} :
          /\ Happens(o)
          /\ GoTo("submit", IF o = "ok" THEN "upload" ELSE "release")
    /\ UNCHANGED <<holdVars, queueVars, job, upstream>>

\* A job that a Cancel or the recovery has ended keeps its status.
SubmitUpload ==
    /\ pc["submit"] = "upload"
    /\ Transition("submit", "uploading", "provider", "releaseOnly", "release")

SubmitProvider ==
    /\ pc["submit"] = "provider"
    /\ \E o \in Outcome :
          /\ Happens(o)
          /\ upstream' = IF o = "fail" THEN upstream ELSE "running"
          /\ GoTo("submit", IF o = "ok" THEN "update" ELSE "release")
    /\ UNCHANGED <<holdVars, queueVars, job>>

\* runSubmitHeartbeat
SubmitHeartbeat ==
    /\ pc["submit"] = "provider"
    /\ job.stale /\ job.status \in Unsubmitted
    /\ job' = [job EXCEPT !.stale = FALSE]
    /\ UNCHANGED <<holdVars, queueVars, upstream, pc, troubles>>

UpdateProviderSubmit ==
    /\ pc["submit"] = "update"
    /\ LET valid == CanTransition(job.status, "submitted")
       IN \E o \in Outcome :
             /\ Happens(o)
             /\ job' = IF o # "fail" /\ valid
                       THEN [job EXCEPT !.status = "submitted", !.named = TRUE, !.stale = FALSE]
                       ELSE job
             /\ GoTo("submit", IF o = "ok" /\ valid THEN "enqueue" ELSE "abort")
    /\ UNCHANGED <<holdVars, queueVars, upstream>>

SubmitEnqueue ==
    /\ pc["submit"] = "enqueue"
    /\ \E o \in Outcome :
          /\ Happens(o)
          /\ IF o # "fail" THEN Enqueue ELSE UNCHANGED queueVars
          /\ GoTo("submit", IF o = "ok" THEN "done" ELSE "recordQueue")
    /\ UNCHANGED <<holdVars, job, upstream>>

\* The job stays submitted, with QUEUE_FAILED as its last error, and the client is
\* answered with an error.
RecordQueueFailure ==
    /\ pc["submit"] = "recordQueue"
    /\ \E o \in {"ok", "fail"} :
          /\ Happens(o)
          /\ job' = IF o = "ok" THEN [job EXCEPT !.lastError = "submit", !.stale = FALSE] ELSE job
    /\ GoTo("submit", "done")
    /\ UNCHANGED <<holdVars, queueVars, upstream>>

\* The client repeats the request, if it came with an idempotency key.
Resubmit ==
    /\ pc["submit"] = "done"
    /\ job.status = "submitted"
    /\ GoTo("submit", "enqueue")
    /\ UNCHANGED <<holdVars, queueVars, job, upstream, troubles>>

\* provider.Cancel: the provider may have ended the job before.
ProviderCancel(o) ==
    upstream' = IF o # "fail" /\ upstream = "running" THEN "cancelling" ELSE upstream

AbortOrphanProviderJob ==
    /\ pc["submit"] = "abort"
    /\ \E o \in Outcome : Happens(o) /\ ProviderCancel(o)
    /\ GoTo("submit", "done")
    /\ UNCHANGED <<holdVars, queueVars, job>>

\* releaseFailedSubmitHold
SubmitRelease ==
    \/ /\ pc["submit"] = "release"
       /\ ReleaseHold("submit", "recordFailed", "recordRelease")
    \/ /\ pc["submit"] = "releaseOnly"
       /\ ReleaseHold("submit", "done", "recordRelease")

\* RecordBatchImageJobSubmitFailure with markFailed, whatever the status is;
\* hide: hidePreUpstreamSubmitFailure, for a job in a terminal status.
RecordSubmitFailure(hide, next) ==
    /\ \E o \in {"ok", "fail"} :
          /\ Happens(o)
          /\ LET status == IF o = "fail" THEN job.status ELSE "failed"
             IN job' = [job EXCEPT !.status = status, !.deleted = @ \/ (hide /\ status \in Terminal),
                                   !.lastError = IF o = "fail" THEN @ ELSE "submit",
                                   !.stale = IF o = "fail" THEN @ ELSE FALSE]
    /\ GoTo("submit", next)
    /\ UNCHANGED <<holdVars, queueVars, upstream>>

SubmitFails ==
    \/ /\ pc["submit"] = "recordFailed"
       /\ RecordSubmitFailure(TRUE, "done")
    \/ /\ pc["submit"] = "recordRelease"
       /\ RecordSubmitFailure(FALSE, "retry")
    \/ /\ pc["submit"] = "retry"
       /\ EnqueueJob("submit", "done")

SubmitStep ==
    \/ SubmitCreate \/ SubmitReserve \/ SubmitItems \/ SubmitUpload \/ SubmitProvider
    \/ UpdateProviderSubmit \/ SubmitEnqueue \/ RecordQueueFailure \/ AbortOrphanProviderJob
    \/ SubmitRelease \/ SubmitFails

-----------------------------------------------------------------------------
(* Cancel                                                                  *)

CancelRead ==
    /\ pc["cancel"] = "idle"
    /\ job.status # "none" /\ ~job.deleted
    /\ job.status \notin {"settling", "completed", "output_deleted"}
    /\ GoTo("cancel", IF job.status \in {"failed", "cancelled"} THEN "release"
                      ELSE IF job.named THEN "providerCancel" ELSE "transition")
    /\ UNCHANGED <<holdVars, queueVars, job, upstream, troubles>>

CancelProvider ==
    /\ pc["cancel"] = "providerCancel"
    /\ \E o \in Outcome :
          /\ Happens(o)
          /\ ProviderCancel(o)
          /\ GoTo("cancel", IF o = "ok" THEN "enqueue" ELSE "idle")
    /\ UNCHANGED <<holdVars, queueVars, job>>

CancelTransition ==
    /\ pc["cancel"] = "transition"
    /\ Transition("cancel", "cancelled", "release", "idle", "idle")

CancelRelease ==
    /\ pc["cancel"] = "release"
    /\ ReleaseHold("cancel", "idle", "enqueue")

CancelEnqueue ==
    /\ pc["cancel"] = "enqueue"
    /\ EnqueueJob("cancel", "idle")

CancelStep == CancelProvider \/ CancelTransition \/ CancelRelease \/ CancelEnqueue

\* DeleteRecord
DeleteRecord ==
    /\ job.status \in Terminal /\ ~job.deleted
    /\ job' = [job EXCEPT !.deleted = TRUE]
    /\ UNCHANGED <<holdVars, queueVars, upstream, pc, troubles>>

-----------------------------------------------------------------------------
(* ReleaseStaleUnsubmittedOnce                                             *)

StaleUnsubmitted == job.status \in Unsubmitted /\ ~job.named /\ job.stale

SweepList ==
    /\ pc["sweep"] = "idle"
    /\ StaleUnsubmitted
    /\ GoTo("sweep", "fail")
    /\ UNCHANGED <<holdVars, queueVars, job, upstream, troubles>>

\* Variant with a defect: the conditions of the list are not looked at again.
SweepFailUnchecked ==
    /\ pc["sweep"] = "fail"
    /\ job' = [job EXCEPT !.status = "failed", !.lastError = "stale", !.stale = FALSE]
    /\ GoTo("sweep", "release")
    /\ UNCHANGED <<holdVars, queueVars, upstream, troubles>>

\* FailStaleUnsubmittedBatchImageJob looks at the conditions of the list again.
SweepFail ==
    /\ pc["sweep"] = "fail"
    /\ \E o \in Outcome :
          /\ Happens(o)
          /\ job' = IF o # "fail" /\ StaleUnsubmitted
                    THEN [job EXCEPT !.status = "failed", !.lastError = "stale", !.stale = FALSE]
                    ELSE job
          /\ GoTo("sweep", IF o = "ok" /\ StaleUnsubmitted THEN "release" ELSE "idle")
    /\ UNCHANGED <<holdVars, queueVars, upstream>>

SweepRelease ==
    /\ pc["sweep"] = "release"
    /\ ReleaseHold("sweep", "idle", "enqueue")

SweepEnqueue ==
    /\ pc["sweep"] = "enqueue"
    /\ EnqueueJob("sweep", "idle")

SweepStep == SweepList \/ SweepFail \/ SweepRelease \/ SweepEnqueue

-----------------------------------------------------------------------------
(* Worker: RunOnce around Process                                          *)

WorkerReserve(w) ==
    /\ pc[w] = "idle"
    /\ ReserveJob
    /\ GoTo(w, "lock")
    /\ UNCHANGED <<holdVars, job, upstream, troubles>>

WorkerLock(w) ==
    /\ pc[w] = "lock"
    /\ \/ /\ TryAcquireJobLock(w)
          /\ GoTo(w, "read")
          /\ UNCHANGED troubles
       \/ /\ IF lock = NoWorker THEN Suffer("fail") ELSE UNCHANGED troubles
          /\ GoTo(w, "conflict")
          /\ UNCHANGED queueVars
    /\ UNCHANGED <<holdVars, job, upstream>>

\* A call that may fail without effect, in which case the job stays in the
\* active set or the lock stays set until it expires.
QueueCall(w, label, Call, next) ==
    /\ pc[w] = label
    /\ \E o \in {"ok", "fail"} :
          /\ Happens(o)
          /\ IF o = "ok" THEN Call ELSE UNCHANGED queueVars
    /\ GoTo(w, next)
    /\ UNCHANGED <<holdVars, job, upstream>>

WorkerConflict(w) == QueueCall(w, "conflict", RequeueAfter, "idle")
WorkerRequeue(w) == QueueCall(w, "requeue", RequeueAfter, "unlock")
WorkerAck(w) == QueueCall(w, "ack", Ack, "unlock")
WorkerUnlock(w) == QueueCall(w, "unlock", ReleaseJobLock(w), "idle")

\* A read of the job, which on failure ends the round with an error.
ReadJob(w, label, next) ==
    /\ pc[w] = label
    /\ \E o \in {"ok", "fail"} :
          /\ Happens(o)
          /\ GoTo(w, IF o = "ok" THEN next ELSE "requeue")
    /\ UNCHANGED <<holdVars, queueVars, job, upstream>>

\* BatchImagePipelineProcessor.Process
WorkerRead(w) == ReadJob(w, "read", IF job.status = "settling" THEN "settle" ELSE "process")

-----------------------------------------------------------------------------
(* BatchImageProviderProcessor.Process                                     *)

WorkerProcess(w) ==
    ReadJob(w, "process",
            IF job.status \in {"failed", "cancelled"} THEN "release"
            ELSE IF job.status \in Terminal \cup {"settling"} THEN "ack"
            ELSE IF ~job.named THEN "requeue"
            ELSE IF job.status = "indexing" THEN "index" ELSE "poll")

\* Variant with a defect: the job is acknowledged whether or not its hold is released.
WorkerReleaseOnce(w) ==
    /\ pc[w] = "release"
    /\ ReleaseHold(w, "ack", "ack")

\* releaseTerminalHold
WorkerRelease(w) ==
    /\ pc[w] = "release"
    /\ ReleaseHold(w, "ack", "requeue")

\* provider.Get; a job that has not ended is running, or still queued there.
WorkerPoll(w) ==
    /\ pc[w] = "poll"
    /\ \/ /\ Suffer("fail")
          /\ GoTo(w, "requeue")
       \/ /\ CASE upstream = "succeeded" -> GoTo(w, "toIndexing")
               [] upstream = "failed"    -> GoTo(w, "toFailed")
               [] upstream = "cancelled" -> GoTo(w, "toCancelled")
               [] OTHER                  -> GoTo(w, "toRunning") \/ GoTo(w, "requeue")
          /\ UNCHANGED troubles
    /\ UNCHANGED <<holdVars, queueVars, job, upstream>>

WorkerTransition(w) ==
    \/ pc[w] = "toRunning"   /\ Transition(w, "running", "requeue", "requeue", "requeue")
    \/ pc[w] = "toIndexing"  /\ Transition(w, "indexing", "index", "requeue", "requeue")
    \/ pc[w] = "toSettling"  /\ Transition(w, "settling", "requeue", "requeue", "requeue")
    \/ pc[w] = "toFailed"    /\ Transition(w, "failed", "release", "requeue", "requeue")
    \/ pc[w] = "toCancelled" /\ Transition(w, "cancelled", "release", "requeue", "requeue")
    \/ pc[w] = "exhausted"   /\ Transition(w, "failed", "reread", "requeue", "requeue")

\* BatchImageResultIndexer.Index: the items are replaced only while the job is
\* indexing; an output that cannot be read is tried again; any other error, of the
\* provider's lines or of the store, fails the job.
WorkerIndex(w) ==
    /\ pc[w] = "index"
    /\ \/ /\ job.status = "indexing"
          /\ \E c \in Costs : job' = [job EXCEPT !.cost = c, !.stale = FALSE]
          /\ GoTo(w, "toSettling")
          /\ UNCHANGED troubles
       \/ /\ job.status # "indexing"
          /\ GoTo(w, "requeue")
          /\ UNCHANGED <<job, troubles>>
       \/ /\ Suffer("fail")
          /\ \E next \in {"requeue", "toFailed"} : GoTo(w, next)
          /\ UNCHANGED job
    /\ UNCHANGED <<holdVars, queueVars, upstream>>

-----------------------------------------------------------------------------
(* Settle                                                                  *)

Exhausted == job.retryCount >= MaxRetries /\ job.lastError = "settlement"

SettleRead(w) ==
    ReadJob(w, "settle",
            IF job.status = "completed" THEN "ack"
            ELSE IF job.status # "settling" THEN "requeue"
            ELSE IF Exhausted THEN "failExhausted"
            ELSE IF job.cost > HoldAmount THEN "recordExceeds" ELSE "capture")

\* Variant with a defect: the error of the capture is not looked at.
SettleIgnoresCaptureError(w) ==
    /\ pc[w] = "capture"
    /\ \E o \in Outcome :
          /\ Happens(o)
          /\ IF o # "fail" /\ CanCapture THEN Capture(job.cost) ELSE UNCHANGED holdVars
    /\ GoTo(w, "markSettled")
    /\ UNCHANGED <<queueVars, job, upstream>>

SettleCapture(w) ==
    /\ pc[w] = "capture"
    /\ \E o \in Outcome :
          /\ Happens(o)
          /\ IF o # "fail" /\ CanCapture THEN Capture(job.cost) ELSE UNCHANGED holdVars
          /\ GoTo(w, IF o = "ok" /\ CanCapture THEN "markSettled" ELSE "recordFailure")
    /\ UNCHANGED <<queueVars, job, upstream>>

\* MarkBatchImageJobSettled
SettleMark(w) ==
    /\ pc[w] = "markSettled"
    /\ \E o \in Outcome :
          /\ Happens(o)
          /\ job' = IF o # "fail" /\ job.status = "settling"
                    THEN [job EXCEPT !.status = "completed"] ELSE job
          /\ GoTo(w, IF o = "ok" /\ job.status = "settling" THEN "ack" ELSE "requeue")
    /\ UNCHANGED <<holdVars, queueVars, upstream>>

\* SetBatchImageJobSettlementFailed, which counts whatever the status is.
CountFailure == [job EXCEPT !.retryCount = IF @ < MaxRetries THEN @ + 1 ELSE @,
                            !.lastError = "settlement"]

\* recordSettlementFailure, after a capture that failed or a cost above the hold.
SettleRecordFailure(w) ==
    /\ pc[w] \in {"recordFailure", "recordExceeds"}
    /\ LET next == IF pc[w] = "recordFailure" THEN "reread" ELSE "requeue"
       IN \E o \in {"ok", "fail"} :
             /\ Happens(o)
             /\ job' = IF o = "ok" THEN CountFailure ELSE job
             /\ GoTo(w, IF o = "ok" /\ CountFailure.retryCount >= MaxRetries
                        THEN "failExhausted" ELSE next)
    /\ UNCHANGED <<holdVars, queueVars, upstream>>

\* failExhaustedSettlement
SettleFailExhausted(w) ==
    \/ /\ pc[w] = "failExhausted"
       /\ ReleaseHold(w, "exhausted", "recordRelease")
    \/ /\ pc[w] = "recordRelease"
       /\ \E o \in {"ok", "fail"} :
             /\ Happens(o)
             /\ job' = IF o = "ok" THEN CountFailure ELSE job
       /\ GoTo(w, "reread")
       /\ UNCHANGED <<holdVars, queueVars, upstream>>

SettleReread(w) == ReadJob(w, "reread", IF job.status \in Terminal THEN "ack" ELSE "requeue")

WorkerStep(w) ==
    \/ WorkerReserve(w) \/ WorkerLock(w) \/ WorkerConflict(w) \/ WorkerRequeue(w)
    \/ WorkerAck(w) \/ WorkerUnlock(w) \/ WorkerRead(w) \/ WorkerProcess(w)
    \/ WorkerRelease(w) \/ WorkerPoll(w) \/ WorkerTransition(w) \/ WorkerIndex(w)
    \/ SettleRead(w) \/ SettleCapture(w) \/ SettleMark(w) \/ SettleRecordFailure(w)
    \/ SettleFailExhausted(w) \/ SettleReread(w)

-----------------------------------------------------------------------------
(* The queue's movers, time and the provider                               *)

MoveDelayed ==
    /\ MoveDueDelayed
    /\ UNCHANGED <<holdVars, job, upstream, pc, troubles>>

\* A lease (of the active set, of the lock, of updated_at) that a live process
\* renews runs out only if the process is delayed.
RunsOut(renewed) == IF renewed THEN Suffer("delay") ELSE UNCHANGED troubles

AnyWorkerBusy == \E w \in Workers : pc[w] # "idle"

Processing(w) == pc[w] \notin {"idle", "lock", "conflict"}

RecoverActive ==
    /\ RecoverStaleActive
    /\ RunsOut(AnyWorkerBusy)
    /\ UNCHANGED <<holdVars, job, upstream, pc>>

LockExpires ==
    /\ JobLockExpires
    /\ RunsOut(Processing(lock))
    /\ UNCHANGED <<holdVars, job, upstream, pc>>

JobGrowsStale ==
    /\ job.status \in Unsubmitted /\ ~job.stale
    /\ RunsOut(pc["submit"] # "done")
    /\ job' = [job EXCEPT !.stale = TRUE]
    /\ UNCHANGED <<holdVars, queueVars, upstream, pc>>

UpstreamEnds ==
    /\ \/ upstream = "running"    /\ upstream' \in {"succeeded", "failed"}
       \/ upstream = "cancelling" /\ upstream' \in {"succeeded", "cancelled"}
    /\ UNCHANGED <<holdVars, queueVars, job, pc, troubles>>

\* The cleanup of outputs that have expired.
OutputDeleted ==
    /\ job.status = "completed"
    /\ job' = [job EXCEPT !.status = "output_deleted"]
    /\ UNCHANGED <<holdVars, queueVars, upstream, pc, troubles>>

\* The process that runs p dies; a worker is started again.
Crash(p) ==
    /\ pc[p] \notin {"new", "done", "idle"}
    /\ Suffer("lost")
    /\ GoTo(p, IF p = "submit" THEN "done" ELSE "idle")
    /\ UNCHANGED <<holdVars, queueVars, job, upstream>>

Next ==
    \/ SubmitStep \/ SubmitHeartbeat \/ Resubmit
    \/ CancelRead \/ CancelStep \/ DeleteRecord
    \/ SweepStep
    \/ \E w \in Workers : WorkerStep(w)
    \/ MoveDelayed \/ RecoverActive \/ LockExpires \/ JobGrowsStale
    \/ UpstreamEnds \/ OutputDeleted
    \/ \E p \in Process : Crash(p)

Spec == Init /\ [][Next]_vars

\* The loops of the runtime go on, a submission in progress ends, leases that
\* nobody renews run out and the provider ends its jobs.  Nothing makes a user cancel.
Fairness ==
    /\ WF_vars(SubmitStep) /\ WF_vars(CancelStep) /\ WF_vars(SweepStep)
    /\ \A w \in Workers : WF_vars(WorkerStep(w))
    /\ WF_vars(MoveDelayed)
    /\ WF_vars(~AnyWorkerBusy /\ RecoverActive)
    /\ WF_vars(lock \in Workers /\ ~Processing(lock) /\ LockExpires)
    /\ WF_vars(pc["submit"] = "done" /\ JobGrowsStale)
    /\ WF_vars(UpstreamEnds)

FairSpec == Spec /\ Fairness

-----------------------------------------------------------------------------
(* Properties                                                              *)

\* Where the code keeps its books in order.  MaxRetries failed or lost calls make
\* failExhaustedSettlement release a hold that a lost capture has taken already;
\* and a worker that lost both its leases after it failed to index fails a job
\* that another worker has indexed and settled meanwhile.
FewTroubles ==
    /\ troubles["fail"] + troubles["lost"] < MaxRetries
    /\ troubles["fail"] = 0 \/ troubles["delay"] <= 1

\* A hold ends once: what is frozen for the user's other jobs is never touched, and
\* the user has paid the cost of the job if its hold was captured and nothing else.
\* The calls that end a hold (Settle, failExhaustedSettlement, Cancel, the recovery,
\* the workers) know of each other through the claims only.
HoldEndsOnce == FewTroubles =>
    /\ frozen >= OtherHolds
    /\ balance + frozen = InitialBalance + OtherHolds
                            - (IF "capture" \in claims THEN job.cost ELSE 0)

\* The user is charged for a job exactly if it ends completed: a captured hold
\* belongs to a job that is being settled or was, and a completed job's is captured.
ChargedIsCompleted == FewTroubles =>
    /\ job.status \in {"completed", "output_deleted"} => "capture" \in claims
    /\ "capture" \in claims => job.status \in {"settling", "completed", "output_deleted"}

\* Somebody still has the job: the queue, the recovery of unsubmitted jobs, or a
\* process that will end the hold or queue the job.
Pursued ==
    \/ Queued
    \/ job.status \in Unsubmitted
    \/ pc["submit"] # "done"
    \/ pc["cancel"] \in {"release", "enqueue"}
    \/ pc["sweep"] \in {"release", "enqueue"}

\* Submit could not queue the job: it runs at the provider, its row says QUEUE_FAILED
\* and the client knows.  No part of the service looks for such jobs; the hold stays
\* until the client cancels, or repeats the request if it came with an idempotency key.
QueueFailed == job.status = "submitted" /\ job.lastError = "submit"

\* One failed call does not leak a hold: a job whose money is frozen is in the queue
\* or in the hands of a process, whichever call of Submit, Cancel, the recovery or a
\* worker it was, except the Enqueue of Submit, whose failure is on the row.  Crashes,
\* lost answers and lost leases may leak it, and so may a release before the hold.
HoldIsPursued ==
    /\ Outstanding /\ "release" \notin claims
    /\ troubles["lost"] + troubles["delay"] = 0
    /\ troubles["fail"] <= 1
    => Pursued \/ QueueFailed

\* A release whose request id is claimed has returned the money, as
\* releaseBatchImageBalanceHold takes it when it meets the claim.  It has not when a
\* Cancel releases between the creation of the job and the hold: the claim stays, and
\* the release of the submission that fails afterwards is taken for a repetition.
ClaimedReleaseHasReturned == "release" \in claims /\ pc["submit"] = "done" => ~Outstanding

\* The provider works on a job that has been given up, and nobody is about to stop it.
RunsForNothing ==
    /\ upstream = "running"
    /\ job.status \in {"failed", "cancelled"}
    /\ "release" \in claims
    /\ pc["submit"] \notin {"update", "abort"}

\* The recovery never refunds a job that runs at the provider, however late the
\* submission is: either the submission or the recovery wins, and a submission that
\* loses stops the provider's job.
SweptIsStopped ==
    /\ job.lastError = "stale"
    /\ troubles["lost"] + troubles["fail"] = 0
    => ~RunsForNothing

\* The money comes back: a job in the queue ends, and its hold with it, as long as
\* leases are lost at most once.  After a second loss a worker that read the job
\* before another moved it to settling takes settling for the end and acknowledges it.
QueuedJobEnds ==
    Queued ~> \/ job.status \in Terminal /\ (Outstanding => "release" \in claims)
              \/ troubles["delay"] > 1
=============================================================================
