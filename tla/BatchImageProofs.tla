-------------------------- MODULE BatchImageProofs --------------------------
(***************************************************************************)
(* Proofs about BatchImageJob for any number of workers, any costs and     *)
(* amounts, and any number of troubles.                                    *)
(***************************************************************************)
EXTENDS BatchImageJob, FiniteSetTheorems, TLAPS

Dead == {"failed", "cancelled"}
Post == {"settling", "completed", "output_deleted"}
Past == Post \cup Dead
Early == {"none"} \cup Unsubmitted

\* Submit has not been told yet whether the provider's job is stored.
Progress == {"new", "reserve", "items", "upload", "provider", "update"}
ProviderLabels == {"poll", "toRunning", "toIndexing", "index", "toSettling", "toFailed",
                   "toCancelled"}
SettleLabels == {"settle", "capture", "markSettled", "recordFailure", "recordExceeds",
                 "failExhausted", "recordRelease", "exhausted", "reread"}

\* A job with a provider's name has left Submit; one without has not been run.
NamedInv ==
    /\ job.named => /\ pc["submit"] \in {"enqueue", "recordQueue", "abort", "done"}
                    /\ "hold" \in claims
                    /\ upstream # "none"
                    /\ job.status \notin Early
    /\ ~job.named => job.status \in Early \cup Dead

SubmitInv ==
    /\ pc["submit"] = "new" <=> job.status = "none"
    /\ pc["submit"] \in {"items", "upload", "provider", "update", "enqueue", "recordQueue"}
          => "hold" \in claims
    /\ pc["submit"] \in {"new", "reserve"} => "hold" \notin claims
    /\ pc["submit"] \in {"enqueue", "recordQueue"} => job.named
    /\ pc["submit"] \in Progress \ {"update"} => upstream = "none"
    /\ pc["submit"] = "update" => upstream # "none"

\* Who releases the hold of a job has seen it end.
EndInv ==
    \A p \in Process \ {"submit"} : pc[p] = "release" => job.status \in Dead

\* What a worker remembers of the job, and what is still true of it.
WorkerInv ==
    /\ job.status \in Post \cup {"indexing"} => upstream = "succeeded"
    /\ \A w \in Workers :
          /\ pc[w] \in ProviderLabels \cup SettleLabels => job.named
          /\ pc[w] \in {"toIndexing", "index", "toSettling"} => upstream = "succeeded"
          /\ pc[w] = "toFailed" => upstream = "failed" \/ troubles["fail"] > 0

SettleInv ==
    /\ job.status \notin Past => job.retryCount = 0
    /\ job.status \in {"completed", "output_deleted"} => "capture" \in claims
    /\ \A w \in Workers :
          /\ pc[w] \in SettleLabels => job.status \in Past
          /\ pc[w] \in {"capture", "markSettled", "recordFailure"} => job.cost <= HoldAmount
          /\ pc[w] = "recordExceeds" => job.cost > HoldAmount
          /\ pc[w] = "markSettled" => "capture" \in claims

\* The queue gives the job to one worker ...
Holding(w) == pc[w] \notin {"idle", "unlock"}
QueueExcludes ==
    /\ \A v, w \in Workers : Holding(v) /\ Holding(w) => v = w
    /\ \A w \in Workers : Holding(w) => active
    /\ active => ready = 0 /\ ~delayed
    /\ delayed => ready = 0
    /\ ready <= 1
    /\ Queued => inflight

\* ... and so does the lock; a lost lease breaks at most one of the two.
LockExcludes == \A w \in Workers : Processing(w) => lock = w

QueueInv ==
    /\ inflight => Queued
    /\ troubles["delay"] = 0 => QueueExcludes /\ LockExcludes
    /\ troubles["delay"] <= 1 => QueueExcludes \/ LockExcludes

IndexInv ==
    troubles["delay"] <= 1 =>
        \A w \in Workers : pc[w] \in {"index", "toFailed"} => job.status \notin Post

\* The workers that count a failed capture, each of which met a trouble.
Failing == {w \in Workers : pc[w] = "recordFailure"}

ReleaseInv ==
    "release" \in claims => \/ job.status \in Dead
                            \/ ~job.named /\ pc["submit"] \notin Progress
                            \/ job.status \in Past /\ job.cost > HoldAmount

ChargeInv ==
    /\ "capture" \in claims => /\ job.status \in Post
                               /\ job.cost <= HoldAmount
                               /\ "release" \notin claims
    /\ \A w \in Workers :
          /\ pc[w] = "capture" => job.status \in Post
          /\ pc[w] \in {"failExhausted", "recordRelease", "exhausted"} => job.cost > HoldAmount

RetryInv ==
    job.cost <= HoldAmount =>
        /\ IsFiniteSet(Failing)
        /\ job.retryCount + Cardinality(Failing) <= troubles["fail"] + troubles["lost"]

MoneyInv ==
    /\ balance + frozen = InitialBalance + OtherHolds
                            - (IF "capture" \in claims THEN job.cost ELSE 0)
    /\ frozen \in {OtherHolds, OtherHolds + HoldAmount}
    /\ "hold" \in claims /\ {"capture", "release"} \cap claims = {}
          => frozen = OtherHolds + HoldAmount
    /\ "hold" \notin claims \/ "capture" \in claims => frozen = OtherHolds

StructInv == TypeOK /\ NamedInv /\ SubmitInv /\ EndInv /\ WorkerInv /\ SettleInv
BooksInv == FewTroubles => ReleaseInv /\ ChargeInv /\ RetryInv /\ MoneyInv
IInv == StructInv /\ QueueInv /\ IndexInv /\ BooksInv

\* The recovery and the submission agree on who owns the provider's job.
SweepInv ==
    /\ job.lastError = "stale" => ~job.named /\ job.status \in Dead
    /\ troubles["lost"] + troubles["fail"] = 0 /\ ~job.named /\ upstream = "running"
          => pc["submit"] \in {"update", "abort"}

\* Submit is about to queue the job, or could not and says so.
Unqueued ==
    /\ job.status = "submitted"
    /\ pc["submit"] \in {"enqueue", "recordQueue"} \/ job.lastError = "submit"

\* Who has the job, while its hold has not ended.
HadBy ==
    \/ Queued
    \/ job.status \in Early
    \/ Unqueued
    \/ pc["cancel"] = "release"
    \/ pc["cancel"] = "enqueue" /\ troubles["fail"] = 1
    \/ pc["sweep"] = "release"
    \/ pc["sweep"] = "enqueue" /\ troubles["fail"] = 1
    \/ pc["submit"] \in {"release", "releaseOnly"}
    \/ pc["submit"] \in {"recordRelease", "retry"} /\ troubles["fail"] = 1

OneFailure == troubles["lost"] + troubles["delay"] = 0 /\ troubles["fail"] <= 1
Ended == {"capture", "release"} \cap claims # {}

HandsInv == ~Ended /\ ("hold" \in claims \/ pc["submit"] = "reserve") => HadBy

\* A submission that fails has released the hold, or was refused the release.
GiveUpInv ==
    /\ pc["submit"] = "recordFailed" => "hold" \notin claims \/ "release" \in claims
    /\ pc["submit"] \in {"recordRelease", "retry", "recordQueue"} => troubles["fail"] = 1

\* A worker alone with the job acknowledges it only when its hold has ended.
AloneLabels == {"capture", "markSettled", "recordFailure", "recordExceeds", "failExhausted",
                "recordRelease"}
Round(w) ==
    /\ pc[w] = "process" => job.status # "settling"
    /\ pc[w] \in AloneLabels => job.status = "settling"
    /\ pc[w] = "exhausted" => "release" \in claims
    /\ pc[w] = "reread" => job.status = "settling" \/ "release" \in claims
    /\ pc[w] = "ack" => Ended
RoundInv == \A w \in Workers : Round(w)

PursuitInv == OneFailure => HandsInv /\ GiveUpInv /\ RoundInv

-----------------------------------------------------------------------------
(* Types                                                                   *)

\* A trouble is counted, and the count stays within its bound.
LEMMA SufferType ==
    ASSUME TypeOK, NEW t \in Trouble, Suffer(t)
    PROVE  /\ troubles' \in [Trouble -> 0..MaxTroubles]
           /\ troubles'[t] = troubles[t] + 1
           /\ \A u \in Trouble \ {t} : troubles'[u] = troubles[u]
<1>1. troubles \in [Trouble -> 0..MaxTroubles] /\ MaxTroubles \in Nat
    BY JobAssumption DEF TypeOK
<1>2. /\ troubles["fail"] \in 0..MaxTroubles /\ troubles["lost"] \in 0..MaxTroubles
      /\ troubles["delay"] \in 0..MaxTroubles
    BY <1>1 DEF Trouble
<1>3. troubles[t] + 1 \in 0..MaxTroubles
    BY <1>1, <1>2 DEF Suffer, Troubles, Trouble
<1>4. QED
    BY <1>1, <1>3 DEF Suffer

\* Every step counts at most one trouble.
LEMMA TroubleStep ==
    ASSUME TypeOK, Next
    PROVE  UNCHANGED troubles \/ \E t \in Trouble : Suffer(t)
<1> USE DEF Happens, Outcome, Trouble
<1>1. CASE SubmitStep \/ SubmitHeartbeat \/ Resubmit
    BY <1>1 DEF SubmitStep, SubmitCreate, SubmitReserve, SubmitItems, SubmitUpload,
          SubmitProvider, UpdateProviderSubmit, SubmitEnqueue,
          RecordQueueFailure, AbortOrphanProviderJob,
          SubmitRelease, SubmitFails, RecordSubmitFailure, Transition, ReleaseHold,
          EnqueueJob, SubmitHeartbeat, Resubmit
<1>2. CASE CancelRead \/ CancelStep \/ DeleteRecord \/ SweepStep
    BY <1>2 DEF CancelRead, CancelStep, CancelProvider, CancelTransition, CancelRelease,
          CancelEnqueue, DeleteRecord, SweepStep, SweepList, SweepFail, SweepRelease,
          SweepEnqueue, Transition, ReleaseHold, EnqueueJob
<1>3. ASSUME NEW w \in Workers, WorkerStep(w)
      PROVE  UNCHANGED troubles \/ \E t \in Trouble : Suffer(t)
  <2>1. CASE \/ WorkerReserve(w) \/ WorkerLock(w) \/ WorkerConflict(w) \/ WorkerRequeue(w)
             \/ WorkerAck(w) \/ WorkerUnlock(w) \/ WorkerRead(w) \/ WorkerProcess(w)
             \/ SettleRead(w) \/ SettleReread(w)
    BY <2>1 DEF WorkerReserve, WorkerLock, WorkerConflict, WorkerRequeue, WorkerAck,
          WorkerUnlock, WorkerRead, WorkerProcess, SettleRead, SettleReread, QueueCall, ReadJob
  <2>2. CASE WorkerRelease(w) \/ WorkerPoll(w) \/ WorkerTransition(w) \/ WorkerIndex(w)
    BY <2>2 DEF WorkerRelease, WorkerPoll, WorkerTransition, WorkerIndex, Transition,
          ReleaseHold
  <2>3. CASE \/ SettleCapture(w) \/ SettleMark(w) \/ SettleRecordFailure(w)
             \/ SettleFailExhausted(w)
    BY <2>3 DEF SettleCapture, SettleMark, SettleRecordFailure, SettleFailExhausted,
          ReleaseHold
  <2>4. QED
    BY <1>3, <2>1, <2>2, <2>3 DEF WorkerStep
<1>4. CASE \/ MoveDelayed \/ RecoverActive \/ LockExpires \/ JobGrowsStale
           \/ UpstreamEnds \/ OutputDeleted
    BY <1>4 DEF MoveDelayed, RecoverActive, LockExpires, JobGrowsStale, UpstreamEnds,
          OutputDeleted, RunsOut
<1>5. CASE \E p \in Process : Crash(p)
    BY <1>5 DEF Crash
<1>6. QED
    BY <1>1, <1>2, <1>3, <1>4, <1>5 DEF Next

\* Troubles are never forgotten.
LEMMA TroublesGrow ==
    ASSUME TypeOK, Next
    PROVE  /\ troubles' \in [Trouble -> 0..MaxTroubles]
           /\ \A t \in Trouble : /\ troubles[t] \in Nat /\ troubles'[t] \in Nat
                                 /\ troubles[t] <= troubles'[t]
<1>1. troubles \in [Trouble -> 0..MaxTroubles] /\ MaxTroubles \in Nat
    BY JobAssumption DEF TypeOK
<1>2. CASE UNCHANGED troubles
    BY <1>1, <1>2
<1>3. ASSUME NEW t \in Trouble, Suffer(t)
      PROVE  /\ troubles' \in [Trouble -> 0..MaxTroubles]
             /\ \A u \in Trouble : troubles[u] \in Nat /\ troubles[u] <= troubles'[u]
    BY <1>1, <1>3, SufferType
<1>4. QED
    BY <1>1, <1>2, <1>3, TroubleStep

\* Every step moves at most one process, to a label of its own.
LEMMA LabelStep ==
    ASSUME TypeOK, Next
    PROVE  /\ pc' \in [Process -> Label]
           /\ pc'["submit"] \in SubmitLabel
           /\ pc'["cancel"] \in CancelLabel
           /\ pc'["sweep"] \in SweepLabel
           /\ \A w \in Workers : pc'[w] \in WorkerLabel
<1> DEFINE Labelled == /\ pc' \in [Process -> Label]
                       /\ pc'["submit"] \in SubmitLabel
                       /\ pc'["cancel"] \in CancelLabel
                       /\ pc'["sweep"] \in SweepLabel
                       /\ \A w \in Workers : pc'[w] \in WorkerLabel
<1>0. /\ {"submit", "cancel", "sweep"} \subseteq Process /\ Workers \subseteq Process
      /\ \A w \in Workers : w # "submit" /\ w # "cancel" /\ w # "sweep"
    BY JobAssumption DEF Process
<1>1. CASE UNCHANGED pc
    BY <1>1 DEF TypeOK
<1>2. ASSUME NEW label \in SubmitLabel, GoTo("submit", label) PROVE Labelled
    BY <1>0, <1>2 DEF TypeOK, GoTo, Label
<1>3. ASSUME NEW label \in CancelLabel, GoTo("cancel", label) PROVE Labelled
    BY <1>0, <1>3 DEF TypeOK, GoTo, Label
<1>4. ASSUME NEW label \in SweepLabel, GoTo("sweep", label) PROVE Labelled
    BY <1>0, <1>4 DEF TypeOK, GoTo, Label
<1>5. ASSUME NEW w \in Workers, NEW label \in WorkerLabel, GoTo(w, label) PROVE Labelled
    BY <1>0, <1>5 DEF TypeOK, GoTo, Label
<1>6. CASE SubmitStep \/ SubmitHeartbeat \/ Resubmit
  <2>1. UNCHANGED pc \/ \E label \in SubmitLabel : GoTo("submit", label)
    BY <1>6 DEF SubmitStep, SubmitCreate, SubmitReserve, SubmitItems, SubmitUpload,
          SubmitProvider, UpdateProviderSubmit, SubmitEnqueue,
          RecordQueueFailure, AbortOrphanProviderJob,
          SubmitRelease, SubmitFails, RecordSubmitFailure, Transition, ReleaseHold,
          EnqueueJob, SubmitHeartbeat, Resubmit, SubmitLabel
  <2>2. QED
    BY <1>1, <1>2, <2>1
<1>7. CASE CancelRead \/ CancelStep \/ DeleteRecord
  <2>1. UNCHANGED pc \/ \E label \in CancelLabel : GoTo("cancel", label)
    BY <1>7 DEF CancelRead, CancelStep, CancelProvider, CancelTransition, CancelRelease,
          CancelEnqueue, DeleteRecord, Transition, ReleaseHold, EnqueueJob, CancelLabel
  <2>2. QED
    BY <1>1, <1>3, <2>1
<1>8. CASE SweepStep
  <2>1. \E label \in SweepLabel : GoTo("sweep", label)
    BY <1>8 DEF SweepStep, SweepList, SweepFail, SweepRelease, SweepEnqueue, ReleaseHold,
          EnqueueJob, SweepLabel
  <2>2. QED
    BY <1>4, <2>1
<1>9. ASSUME NEW w \in Workers, WorkerStep(w) PROVE Labelled
  <2>1. CASE \/ WorkerReserve(w) \/ WorkerLock(w) \/ WorkerConflict(w) \/ WorkerRequeue(w)
             \/ WorkerAck(w) \/ WorkerUnlock(w) \/ WorkerRead(w) \/ WorkerProcess(w)
             \/ SettleRead(w) \/ SettleReread(w)
    <3>1. \E label \in WorkerLabel : GoTo(w, label)
      BY <2>1 DEF WorkerReserve, WorkerLock, WorkerConflict, WorkerRequeue, WorkerAck,
            WorkerUnlock, WorkerRead, WorkerProcess, SettleRead, SettleReread, QueueCall,
            ReadJob, WorkerLabel
    <3>2. QED
      BY <1>5, <3>1
  <2>2. CASE WorkerRelease(w) \/ WorkerPoll(w) \/ WorkerTransition(w) \/ WorkerIndex(w)
    <3>1. \E label \in WorkerLabel : GoTo(w, label)
      BY <2>2 DEF WorkerRelease, WorkerPoll, WorkerTransition, WorkerIndex, Transition,
            ReleaseHold, WorkerLabel
    <3>2. QED
      BY <1>5, <3>1
  <2>3. CASE \/ SettleCapture(w) \/ SettleMark(w) \/ SettleRecordFailure(w)
             \/ SettleFailExhausted(w)
    <3>1. \E label \in WorkerLabel : GoTo(w, label)
      BY <2>3 DEF SettleCapture, SettleMark, SettleRecordFailure, SettleFailExhausted,
            ReleaseHold, WorkerLabel
    <3>2. QED
      BY <1>5, <3>1
  <2>4. QED
    BY <1>9, <2>1, <2>2, <2>3 DEF WorkerStep
<1>10. CASE \/ MoveDelayed \/ RecoverActive \/ LockExpires \/ JobGrowsStale
            \/ UpstreamEnds \/ OutputDeleted
    BY <1>1, <1>10 DEF MoveDelayed, RecoverActive, LockExpires, JobGrowsStale, UpstreamEnds,
          OutputDeleted
<1>11. ASSUME NEW p \in Process, Crash(p) PROVE Labelled
  <2>1. "done" \in SubmitLabel /\ "idle" \in CancelLabel \cap SweepLabel \cap WorkerLabel
    BY DEF SubmitLabel, CancelLabel, SweepLabel, WorkerLabel
  <2>2. QED
    BY <1>2, <1>3, <1>4, <1>5, <1>11, <2>1 DEF Crash, Process
<1>12. QED
    BY <1>6, <1>7, <1>8, <1>9, <1>10, <1>11 DEF Next

\* Every write keeps the row of the job well formed.
LEMMA JobTypeStep ==
    ASSUME TypeOK, Next
    PROVE  job' \in Job
<1>0. job \in Job
    BY DEF TypeOK
<1>1. CASE \/ SubmitCreate \/ SubmitReserve \/ SubmitItems \/ SubmitUpload \/ SubmitProvider
           \/ UpdateProviderSubmit \/ AbortOrphanProviderJob \/ SubmitRelease
           \/ SubmitHeartbeat \/ Resubmit
    BY <1>0, <1>1 DEF SubmitCreate, SubmitReserve, SubmitItems, SubmitUpload,
          SubmitProvider, UpdateProviderSubmit, AbortOrphanProviderJob, SubmitRelease,
          Transition, ReleaseHold, SubmitHeartbeat, Resubmit, Job, Status, Unsubmitted, Terminal
<1>2. CASE SubmitEnqueue \/ RecordQueueFailure \/ SubmitFails
  <2>1. CASE SubmitEnqueue \/ RecordQueueFailure
    BY <1>0, <2>1 DEF SubmitEnqueue, RecordQueueFailure, Job
  <2>2. ASSUME NEW hide \in BOOLEAN, NEW next, RecordSubmitFailure(hide, next)
        PROVE  job' \in Job
    <3>1. PICK o \in {"ok", "fail"} :
             job' = [job EXCEPT !.status = IF o = "fail" THEN job.status ELSE "failed",
                        !.deleted = @ \/ (hide /\ (IF o = "fail" THEN job.status ELSE "failed")
                                                     \in Terminal),
                        !.lastError = IF o = "fail" THEN @ ELSE "submit",
                        !.stale = IF o = "fail" THEN @ ELSE FALSE]
      BY <2>2 DEF RecordSubmitFailure
    <3>2. (job.deleted \/ (hide /\ (IF o = "fail" THEN job.status ELSE "failed") \in Terminal))
             \in BOOLEAN
      OBVIOUS
    <3>3. QED
      BY <1>0, <3>1, <3>2 DEF Job, Status, Terminal
  <2>3. QED
    BY <1>0, <1>2, <2>1, <2>2 DEF SubmitFails, EnqueueJob
<1>3. CASE CancelRead \/ CancelStep \/ DeleteRecord \/ SweepStep
    BY <1>0, <1>3 DEF CancelRead, CancelStep, CancelProvider, CancelTransition, CancelRelease,
          CancelEnqueue, DeleteRecord, SweepStep, SweepList, SweepFail, SweepRelease,
          SweepEnqueue, Transition, ReleaseHold, EnqueueJob, Job, Status, Terminal
<1>4. ASSUME NEW w \in Workers, WorkerStep(w) PROVE job' \in Job
  <2>1. CASE \/ WorkerReserve(w) \/ WorkerLock(w) \/ WorkerConflict(w) \/ WorkerRequeue(w)
             \/ WorkerAck(w) \/ WorkerUnlock(w) \/ WorkerRead(w) \/ WorkerProcess(w)
             \/ WorkerRelease(w) \/ WorkerPoll(w) \/ SettleRead(w) \/ SettleCapture(w)
             \/ SettleReread(w)
    BY <1>0, <2>1 DEF WorkerReserve, WorkerLock, WorkerConflict, WorkerRequeue, WorkerAck,
          WorkerUnlock, WorkerRead, WorkerProcess, SettleRead, SettleReread, QueueCall, ReadJob,
          WorkerRelease, WorkerPoll, SettleCapture, ReleaseHold
  <2>2. CASE WorkerTransition(w)
    <3>1. \A s \in Status : [job EXCEPT !.status = s, !.stale = FALSE] \in Job
      BY <1>0 DEF Job
    <3>2. {"running", "indexing", "settling", "failed", "cancelled"} \subseteq Status
      BY DEF Status, Terminal
    <3>3. QED
      BY <1>0, <2>2, <3>1, <3>2 DEF WorkerTransition, Transition
  <2>3. CASE WorkerIndex(w) \/ SettleMark(w)
    BY <1>0, <2>3 DEF WorkerIndex, SettleMark, Job, Status, Terminal
  <2>4. CASE SettleRecordFailure(w) \/ SettleFailExhausted(w)
    <3>1. CountFailure \in Job
      <4>1. (IF job.retryCount < MaxRetries THEN job.retryCount + 1 ELSE job.retryCount)
               \in 0..MaxRetries
        BY <1>0, JobAssumption DEF Job
      <4>2. QED
        BY <1>0, <4>1 DEF CountFailure, Job
    <3>2. QED
      BY <1>0, <2>4, <3>1 DEF SettleRecordFailure, SettleFailExhausted, ReleaseHold
  <2>5. QED
    BY <1>4, <2>1, <2>2, <2>3, <2>4 DEF WorkerStep
<1>5. CASE \/ MoveDelayed \/ RecoverActive \/ LockExpires \/ JobGrowsStale
           \/ UpstreamEnds \/ OutputDeleted
    BY <1>0, <1>5 DEF MoveDelayed, RecoverActive, LockExpires, JobGrowsStale, UpstreamEnds,
          OutputDeleted, Job, Status, Terminal
<1>6. CASE \E p \in Process : Crash(p)
    BY <1>0, <1>6 DEF Crash
<1>7. QED
    BY <1>1, <1>2, <1>3, <1>4, <1>5, <1>6 DEF Next, SubmitStep

\* What a job costs is a number.
LEMMA CostType ==
    ASSUME job \in Job
    PROVE  job.cost \in Nat
<1>1. job.cost \in Costs \/ job.cost = 0
    BY DEF Job
<1>2. \A c \in Costs : c \in Nat
    BY JobAssumption
<1>3. QED
    BY <1>1, <1>2

\* Every transaction keeps the user's row well formed: what is taken from the
\* frozen balance was compared with it before.
LEMMA HoldTypeStep ==
    ASSUME TypeOK, Next
    PROVE  HoldTypeOK'
<1>0. balance \in Int /\ frozen \in Nat /\ claims \subseteq Claim /\ HoldAmount \in Nat
    BY HoldAssumption DEF TypeOK, HoldTypeOK
<1>1. CASE UNCHANGED holdVars
    BY <1>1 DEF TypeOK, HoldTypeOK, holdVars
<1>m. ASSUME NEW claim \in Claim, NEW b \in Int, NEW f \in Int, f <= frozen, Move(claim, b, f)
      PROVE  HoldTypeOK'
  <2>1. balance + b \in Int /\ frozen - f \in Nat
    BY <1>0, <1>m
  <2>2. QED
    BY <1>0, <1>m, <2>1 DEF Move, HoldTypeOK
<1>2. CanRelease /\ Release => HoldTypeOK'
  <2>1. "release" \in Claim /\ 0 \in Int /\ HoldAmount \in Int /\ 0 <= frozen
    BY <1>0 DEF Claim
  <2>2. QED
    BY <1>m, <1>1, <2>1 DEF CanRelease, Release
<1>3. Reserve => HoldTypeOK'
  <2>1. "hold" \in Claim /\ -HoldAmount \in Int /\ -HoldAmount <= frozen
    BY <1>0 DEF Claim
  <2>2. QED
    BY <1>m, <1>1, <2>1 DEF Reserve
<1>4. ASSUME NEW c \in Nat, CanCapture, Capture(c) PROVE HoldTypeOK'
  <2>1. "capture" \in Claim /\ HoldAmount - c \in Int /\ HoldAmount \in Int
    BY <1>0 DEF Claim
  <2>2. QED
    BY <1>m, <1>1, <1>4, <2>1 DEF CanCapture, Capture
<1>5. ASSUME NEW p, NEW s, NEW e, ReleaseHold(p, s, e) PROVE HoldTypeOK'
    BY <1>1, <1>2, <1>5 DEF ReleaseHold
<1>6. CASE SubmitStep \/ SubmitHeartbeat \/ Resubmit
    BY <1>1, <1>3, <1>5, <1>6 DEF SubmitStep, SubmitCreate, SubmitReserve, SubmitItems,
          SubmitUpload, SubmitProvider, UpdateProviderSubmit, SubmitEnqueue, RecordQueueFailure,
          AbortOrphanProviderJob, SubmitRelease, SubmitFails, RecordSubmitFailure, Transition,
          EnqueueJob, SubmitHeartbeat, Resubmit
<1>7. CASE CancelRead \/ CancelStep \/ DeleteRecord \/ SweepStep
    BY <1>1, <1>5, <1>7 DEF CancelRead, CancelStep, CancelProvider, CancelTransition,
          CancelRelease, CancelEnqueue, DeleteRecord, SweepStep, SweepList, SweepFail,
          SweepRelease, SweepEnqueue, Transition, EnqueueJob
<1>8. ASSUME NEW w \in Workers, WorkerStep(w) PROVE HoldTypeOK'
  <2>1. CASE SettleCapture(w)
    <3>1. job.cost \in Nat
      BY CostType DEF TypeOK
    <3>2. CanCapture /\ Capture(job.cost) => HoldTypeOK'
      BY <1>4, <3>1
    <3>3. QED
      BY <1>1, <2>1, <3>2 DEF SettleCapture
  <2>2. CASE WorkerRelease(w) \/ SettleFailExhausted(w)
    BY <1>1, <1>5, <2>2 DEF WorkerRelease, SettleFailExhausted
  <2>3. CASE ~(SettleCapture(w) \/ WorkerRelease(w) \/ SettleFailExhausted(w))
    BY <1>1, <1>8, <2>3 DEF WorkerStep, WorkerReserve, WorkerLock, WorkerConflict,
          WorkerRequeue, WorkerAck, WorkerUnlock, WorkerRead, WorkerProcess, SettleRead,
          SettleReread, QueueCall, ReadJob, WorkerPoll, WorkerTransition, Transition,
          WorkerIndex, SettleMark, SettleRecordFailure
  <2>4. QED
    BY <2>1, <2>2, <2>3
<1>9. CASE \/ MoveDelayed \/ RecoverActive \/ LockExpires \/ JobGrowsStale
           \/ UpstreamEnds \/ OutputDeleted \/ \E p \in Process : Crash(p)
    BY <1>1, <1>9 DEF MoveDelayed, RecoverActive, LockExpires, JobGrowsStale, UpstreamEnds,
          OutputDeleted, Crash
<1>10. QED
    BY <1>6, <1>7, <1>8, <1>9 DEF Next

\* Every script keeps the keys of the queue well formed.
LEMMA QueueTypeStep ==
    ASSUME TypeOK, Next
    PROVE  QueueTypeOK'
<1>0. QueueTypeOK
    BY DEF TypeOK
<1>1. UNCHANGED queueVars => QueueTypeOK'
    BY <1>0 DEF queueVars, QueueTypeOK
<1>2. ASSUME \/ Enqueue \/ ReserveJob \/ RequeueAfter \/ Ack \/ MoveDueDelayed
             \/ RecoverStaleActive
      PROVE  QueueTypeOK'
  <2>1. ready \in Nat /\ lock \in Workers \cup {NoWorker}
    BY <1>0 DEF QueueTypeOK
  <2>2. ready' \in Nat /\ lock' \in Workers \cup {NoWorker}
    BY <1>2, <2>1 DEF Enqueue, ReserveJob, RequeueAfter, Ack, MoveDueDelayed, RecoverStaleActive
  <2>3. delayed \in BOOLEAN /\ active \in BOOLEAN /\ inflight \in BOOLEAN
    BY <1>0 DEF QueueTypeOK
  <2>4. delayed' \in BOOLEAN /\ active' \in BOOLEAN /\ inflight' \in BOOLEAN
    BY <1>2, <2>3 DEF Enqueue, ReserveJob, RequeueAfter, Ack, MoveDueDelayed,
          RecoverStaleActive
  <2>5. QED
    BY <2>2, <2>4 DEF QueueTypeOK
<1>3. ASSUME NEW w \in Workers, TryAcquireJobLock(w) \/ ReleaseJobLock(w) \/ JobLockExpires
      PROVE  QueueTypeOK'
    BY <1>0, <1>3 DEF TryAcquireJobLock, ReleaseJobLock, JobLockExpires, QueueTypeOK
<1>4. JobLockExpires => QueueTypeOK'
    BY <1>0 DEF JobLockExpires, QueueTypeOK
<1>5. CASE SubmitStep \/ SubmitHeartbeat \/ Resubmit
    BY <1>1, <1>2, <1>5 DEF SubmitStep, SubmitCreate, SubmitReserve, SubmitItems,
          SubmitUpload, SubmitProvider, UpdateProviderSubmit, SubmitEnqueue, RecordQueueFailure,
          AbortOrphanProviderJob, SubmitRelease, SubmitFails, RecordSubmitFailure, Transition,
          EnqueueJob, SubmitHeartbeat, Resubmit, ReleaseHold
<1>6. CASE CancelRead \/ CancelStep \/ DeleteRecord \/ SweepStep
    BY <1>1, <1>2, <1>6 DEF CancelRead, CancelStep, CancelProvider, CancelTransition,
          CancelRelease, CancelEnqueue, DeleteRecord, SweepStep, SweepList, SweepFail,
          SweepRelease, SweepEnqueue, Transition, EnqueueJob, ReleaseHold
<1>7. ASSUME NEW w \in Workers, WorkerStep(w) PROVE QueueTypeOK'
  <2>1. CASE \/ WorkerReserve(w) \/ WorkerLock(w) \/ WorkerConflict(w) \/ WorkerRequeue(w)
             \/ WorkerAck(w) \/ WorkerUnlock(w)
    BY <1>1, <1>2, <1>3, <2>1 DEF WorkerReserve, WorkerLock, WorkerConflict, WorkerRequeue,
          WorkerAck, WorkerUnlock, QueueCall
  <2>2. CASE \/ WorkerRead(w) \/ WorkerProcess(w) \/ WorkerRelease(w) \/ WorkerPoll(w)
             \/ WorkerTransition(w) \/ WorkerIndex(w) \/ SettleRead(w) \/ SettleCapture(w)
             \/ SettleMark(w) \/ SettleRecordFailure(w) \/ SettleFailExhausted(w)
             \/ SettleReread(w)
    BY <1>1, <2>2 DEF WorkerRead, WorkerProcess, WorkerRelease, WorkerPoll,
          WorkerTransition, WorkerIndex, SettleRead, SettleCapture, SettleMark,
          SettleRecordFailure, SettleFailExhausted, SettleReread, ReadJob, Transition, ReleaseHold
  <2>3. QED
    BY <1>7, <2>1, <2>2 DEF WorkerStep
<1>8. CASE \/ MoveDelayed \/ RecoverActive \/ LockExpires \/ JobGrowsStale
           \/ UpstreamEnds \/ OutputDeleted \/ \E p \in Process : Crash(p)
    BY <1>1, <1>2, <1>4, <1>8 DEF MoveDelayed, RecoverActive, LockExpires, JobGrowsStale,
          UpstreamEnds, OutputDeleted, Crash
<1>9. QED
    BY <1>5, <1>6, <1>7, <1>8 DEF Next

\* The provider's job has one of its states.
LEMMA UpstreamTypeStep ==
    ASSUME TypeOK, Next
    PROVE  upstream' \in Upstream
<1>0. upstream \in Upstream
    BY DEF TypeOK
<1> USE DEF Upstream
<1>1. CASE SubmitStep \/ SubmitHeartbeat \/ Resubmit
    BY <1>0, <1>1 DEF SubmitStep, SubmitCreate, SubmitReserve, SubmitItems,
          SubmitUpload, SubmitProvider, UpdateProviderSubmit, SubmitEnqueue, RecordQueueFailure,
          AbortOrphanProviderJob, SubmitRelease, SubmitFails, RecordSubmitFailure, Transition,
          EnqueueJob, SubmitHeartbeat, Resubmit, ReleaseHold, ProviderCancel
<1>2. CASE CancelRead \/ CancelStep \/ DeleteRecord \/ SweepStep
    BY <1>0, <1>2 DEF CancelRead, CancelStep, CancelProvider, CancelTransition,
          CancelRelease, CancelEnqueue, DeleteRecord, SweepStep, SweepList, SweepFail,
          SweepRelease, SweepEnqueue, Transition, EnqueueJob, ReleaseHold, ProviderCancel
<1>3. ASSUME NEW w \in Workers, WorkerStep(w) PROVE UNCHANGED upstream
    BY <1>3 DEF WorkerStep, WorkerReserve, WorkerLock, WorkerConflict, WorkerRequeue,
          WorkerAck, WorkerUnlock, QueueCall, WorkerRead, WorkerProcess, WorkerRelease,
          WorkerPoll, WorkerTransition, WorkerIndex, SettleRead, SettleCapture, SettleMark,
          SettleRecordFailure, SettleFailExhausted, SettleReread, ReadJob, Transition, ReleaseHold
<1>4. CASE \/ MoveDelayed \/ RecoverActive \/ LockExpires \/ JobGrowsStale
           \/ UpstreamEnds \/ OutputDeleted \/ \E p \in Process : Crash(p)
    BY <1>0, <1>4 DEF MoveDelayed, RecoverActive, LockExpires, JobGrowsStale,
          UpstreamEnds, OutputDeleted, Crash
<1>5. QED
    BY <1>0, <1>1, <1>2, <1>3, <1>4 DEF Next

\* Every step keeps the types.
LEMMA TypeStep == TypeOK /\ Next => TypeOK'
BY LabelStep, TroublesGrow, JobTypeStep, HoldTypeStep, QueueTypeStep, UpstreamTypeStep DEF TypeOK

-----------------------------------------------------------------------------
(* What every process may rely on                                          *)

\* What no step of anybody undoes.
Rely ==
    /\ job.named => job'.named
    /\ job.status \in Dead => job'.status \in Dead
    /\ job.status \in Past => job'.status \in Past /\ job'.cost = job.cost
    /\ claims \subseteq claims'
    /\ upstream \in {"succeeded", "failed", "cancelled"} => upstream' = upstream
    /\ upstream # "none" => upstream' # "none"

\* The states that a transition of TransitionBatchImageJobStatus may end in, as
\* the code uses it.
LEMMA TransitionRely ==
    ASSUME TypeOK, NEW p, NEW s, NEW i, NEW e,
           NEW to \in {"uploading", "running", "indexing", "settling", "failed", "cancelled"},
           Transition(p, to, s, i, e)
    PROVE  Rely
<1>0. job \in Job
    BY DEF TypeOK
<1>1. UNCHANGED <<claims, upstream>>
    BY DEF Transition, holdVars
<1>2. \/ UNCHANGED job
      \/ /\ CanTransition(job.status, to)
         /\ job' = [job EXCEPT !.status = to, !.stale = FALSE]
    BY DEF Transition
<1>3. job'.named = job.named /\ job'.cost = job.cost
    BY <1>0, <1>2 DEF Job
<1>4. \/ job'.status = job.status
      \/ CanTransition(job.status, to) /\ job'.status = to
    BY <1>0, <1>2 DEF Job
<1>5. /\ job.status \in Dead => job'.status \in Dead
      /\ job.status \in Past => job'.status \in Past
    BY <1>4 DEF CanTransition, Dead, Past, Post, Terminal
<1>6. QED
    BY <1>1, <1>3, <1>5 DEF Rely

\* The calls that end a hold only add claims.
LEMMA ReleaseRely ==
    ASSUME NEW p, NEW s, NEW e, ReleaseHold(p, s, e)
    PROVE  Rely
<1>1. UNCHANGED <<job, upstream>>
    BY DEF ReleaseHold
<1>2. claims \subseteq claims'
    BY DEF ReleaseHold, Release, Move, holdVars
<1>3. QED
    BY <1>1, <1>2 DEF Rely

\* Nobody undoes what the others rely on.
LEMMA RelyStep ==
    ASSUME TypeOK, NamedInv, SubmitInv, Next
    PROVE  Rely
<1>0. job \in Job
    BY DEF TypeOK
<1>1. UNCHANGED <<claims, job, upstream>> => Rely
    BY DEF Rely
<1>2. UNCHANGED <<holdVars, job, upstream>> => Rely
    BY <1>1 DEF holdVars
<1>3. CASE SubmitCreate \/ SubmitHeartbeat \/ SubmitEnqueue \/ RecordQueueFailure
           \/ DeleteRecord \/ JobGrowsStale
    BY <1>0, <1>3 DEF SubmitCreate, SubmitHeartbeat, SubmitEnqueue,
          RecordQueueFailure, DeleteRecord,
          JobGrowsStale, holdVars, Rely, Job, SubmitInv, Dead, Past, Post
<1>4. CASE SubmitReserve
    BY <1>4 DEF SubmitReserve, Reserve, Move, holdVars, Rely
<1>5. CASE SubmitItems \/ Resubmit
    BY <1>2, <1>5 DEF SubmitItems, Resubmit
<1>6. CASE SubmitUpload \/ CancelTransition
    BY <1>6, TransitionRely DEF SubmitUpload, CancelTransition
<1>7. CASE SubmitProvider \/ AbortOrphanProviderJob \/ CancelProvider \/ UpstreamEnds
    BY <1>0, <1>7 DEF SubmitProvider, AbortOrphanProviderJob, CancelProvider, ProviderCancel,
          UpstreamEnds, holdVars, Rely, SubmitInv, Progress
<1>8. CASE UpdateProviderSubmit
    BY <1>0, <1>8 DEF UpdateProviderSubmit, holdVars, Rely, CanTransition, Terminal,
          Dead, Past, Post, Job
<1>9. CASE SubmitRelease \/ CancelRelease \/ SweepRelease
    BY <1>9, ReleaseRely DEF SubmitRelease, CancelRelease, SweepRelease
<1>10. CASE SubmitFails
  <2>1. ASSUME NEW hide, NEW next, RecordSubmitFailure(hide, next) PROVE Rely
    <3>1. job'.named = job.named /\ job'.cost = job.cost
      BY <1>0, <2>1 DEF RecordSubmitFailure, Job
    <3>2. job'.status \in {job.status, "failed"}
      BY <1>0, <2>1 DEF RecordSubmitFailure, Job
    <3>3. QED
      BY <2>1, <3>1, <3>2 DEF RecordSubmitFailure, holdVars, Rely, Dead, Past
  <2>2. QED
    BY <1>2, <1>10, <2>1 DEF SubmitFails, EnqueueJob
<1>11. CASE CancelRead \/ CancelEnqueue \/ SweepList \/ SweepEnqueue
    BY <1>2, <1>11 DEF CancelRead, CancelEnqueue, SweepList, SweepEnqueue, EnqueueJob
<1>12. CASE SweepFail
    BY <1>0, <1>12 DEF SweepFail, holdVars, Rely, Dead, Past, Job
<1>13. CASE \/ MoveDelayed \/ RecoverActive \/ LockExpires \/ \E p \in Process : Crash(p)
    BY <1>2, <1>13 DEF MoveDelayed, RecoverActive, LockExpires, Crash
<1>14. CASE OutputDeleted
    BY <1>0, <1>14 DEF OutputDeleted, holdVars, Rely, Dead, Past, Post, Job
<1>15. ASSUME NEW w \in Workers, WorkerStep(w) PROVE Rely
  <2>1. CASE \/ WorkerReserve(w) \/ WorkerLock(w) \/ WorkerConflict(w) \/ WorkerRequeue(w)
             \/ WorkerAck(w) \/ WorkerUnlock(w) \/ WorkerRead(w) \/ WorkerProcess(w)
             \/ WorkerPoll(w) \/ SettleRead(w) \/ SettleReread(w)
    BY <1>2, <2>1 DEF WorkerReserve, WorkerLock, WorkerConflict, WorkerRequeue, WorkerAck,
          WorkerUnlock, WorkerRead, WorkerProcess, WorkerPoll, SettleRead, SettleReread,
          QueueCall, ReadJob
  <2>2. CASE WorkerTransition(w)
    BY <2>2, TransitionRely DEF WorkerTransition
  <2>3. CASE WorkerIndex(w)
    BY <1>0, <2>3 DEF WorkerIndex, holdVars, Rely, Dead, Past, Post, Job
  <2>4. CASE SettleCapture(w)
    BY <2>4 DEF SettleCapture, Capture, Move, holdVars, Rely
  <2>5. CASE SettleMark(w)
    BY <1>0, <2>5 DEF SettleMark, holdVars, Rely, Dead, Past, Post, Job
  <2>6. CASE SettleRecordFailure(w) \/ SettleFailExhausted(w)
    <3>1. CASE job' \in {job, CountFailure} /\ UNCHANGED <<claims, upstream>>
      BY <1>0, <3>1 DEF CountFailure, Rely, Job
    <3>2. QED
      BY <2>6, <3>1, ReleaseRely DEF SettleRecordFailure, SettleFailExhausted, holdVars
  <2>7. CASE WorkerRelease(w)
    BY <2>7, ReleaseRely DEF WorkerRelease
  <2>8. QED
    BY <1>15, <2>1, <2>2, <2>3, <2>4, <2>5, <2>6, <2>7 DEF WorkerStep
<1>16. QED
    BY <1>3, <1>4, <1>5, <1>6, <1>7, <1>8, <1>9, <1>10, <1>11, <1>12, <1>13, <1>14, <1>15
       DEF Next, SubmitStep, CancelStep, SweepStep

\* A process moves nobody but itself.
LEMMA MovesOne ==
    ASSUME TypeOK, NEW p \in Process, NEW label, GoTo(p, label)
    PROVE  pc'[p] = label /\ \A q \in Process \ {p} : pc'[q] = pc[q]
BY DEF GoTo, TypeOK

\* The processes are different.
LEMMA Processes ==
    /\ {"submit", "cancel", "sweep"} \subseteq Process
    /\ \A w \in Workers : w \in Process /\ w \notin {"submit", "cancel", "sweep"}
    /\ NoWorker \notin Workers
BY JobAssumption DEF Process

\* The four ways in which a transition can end.
TransitionEnd(p, to, s, i, e) ==
    /\ UNCHANGED <<holdVars, queueVars, upstream>>
    /\ \/ /\ CanTransition(job.status, to) /\ pc'[p] = s /\ UNCHANGED troubles
          /\ job' = [job EXCEPT !.status = to, !.stale = FALSE]
       \/ /\ CanTransition(job.status, to) /\ pc'[p] = e /\ Suffer("lost")
          /\ job' = [job EXCEPT !.status = to, !.stale = FALSE]
       \/ ~CanTransition(job.status, to) /\ pc'[p] = i /\ UNCHANGED <<job, troubles>>
       \/ pc'[p] = e /\ UNCHANGED job /\ (Suffer("fail") \/ Suffer("lost"))

\* A transition ends in one of them.
LEMMA TransitionEnds ==
    ASSUME TypeOK, NEW p \in Process, NEW to, NEW s, NEW i, NEW e, Transition(p, to, s, i, e)
    PROVE  TransitionEnd(p, to, s, i, e)
<1>0. \A label : GoTo(p, label) => pc'[p] = label
    BY MovesOne
<1> DEFINE Can == CanTransition(job.status, to)
           Written == job' = [job EXCEPT !.status = to, !.stale = FALSE]
<1>1. PICK o \in Outcome :
         /\ Happens(o)
         /\ IF o # "fail" /\ Can THEN Written ELSE UNCHANGED job
         /\ GoTo(p, IF o # "ok" THEN e ELSE IF Can THEN s ELSE i)
         /\ UNCHANGED <<holdVars, queueVars, upstream>>
    BY DEF Transition
<1>2. CASE o = "ok"
  <2>1. Can => GoTo(p, s)
    BY <1>1, <1>2
  <2>2. ~Can => GoTo(p, i)
    BY <1>1, <1>2
  <2>3. UNCHANGED troubles /\ (IF Can THEN Written ELSE UNCHANGED job)
    BY <1>1, <1>2 DEF Happens
  <2>4. QED
    BY <1>0, <1>1, <2>1, <2>2, <2>3 DEF TransitionEnd
<1>3. CASE o \in {"fail", "lost"}
  <2>1. GoTo(p, e)
    BY <1>1, <1>3
  <2>2. (o = "fail" /\ Suffer("fail")) \/ (o = "lost" /\ Suffer("lost"))
    BY <1>1, <1>3 DEF Happens
  <2>3. QED
    BY <1>0, <1>1, <2>1, <2>2 DEF TransitionEnd
<1>4. QED
    BY <1>2, <1>3 DEF Outcome

\* Who is not at work stays where it is.
LEMMA SubmitMoves ==
    ASSUME TypeOK, SubmitStep \/ SubmitHeartbeat \/ Resubmit
    PROVE  \A q \in Process \ {"submit"} : pc'[q] = pc[q]
<1>1. UNCHANGED pc \/ \E label : GoTo("submit", label)
    BY DEF SubmitStep, SubmitCreate, SubmitReserve, SubmitItems, SubmitUpload,
          SubmitProvider, UpdateProviderSubmit, SubmitEnqueue,
          RecordQueueFailure, AbortOrphanProviderJob,
          SubmitRelease, SubmitFails, RecordSubmitFailure, Transition, ReleaseHold,
          EnqueueJob, SubmitHeartbeat, Resubmit
<1>2. QED
    BY <1>1, MovesOne, Processes

\* A step of Cancel or DeleteRecord moves Cancel at most.
LEMMA CancelMoves ==
    ASSUME TypeOK, CancelRead \/ CancelStep \/ DeleteRecord
    PROVE  \A q \in Process \ {"cancel"} : pc'[q] = pc[q]
<1>1. UNCHANGED pc \/ \E label : GoTo("cancel", label)
    BY DEF CancelRead, CancelStep, CancelProvider, CancelTransition, CancelRelease,
          CancelEnqueue, DeleteRecord, Transition, ReleaseHold, EnqueueJob
<1>2. QED
    BY <1>1, MovesOne, Processes

\* A step of the recovery moves the recovery only.
LEMMA SweepMoves ==
    ASSUME TypeOK, SweepStep
    PROVE  \A q \in Process \ {"sweep"} : pc'[q] = pc[q]
<1>1. \E label : GoTo("sweep", label)
    BY DEF SweepStep, SweepList, SweepFail, SweepRelease, SweepEnqueue, ReleaseHold, EnqueueJob
<1>2. QED
    BY <1>1, MovesOne, Processes

\* A step of a worker moves that worker only.
LEMMA WorkerMoves ==
    ASSUME TypeOK, NEW w \in Workers, WorkerStep(w)
    PROVE  \A q \in Process \ {w} : pc'[q] = pc[q]
<1>1. \E label : GoTo(w, label)
  <2>1. CASE \/ WorkerReserve(w) \/ WorkerLock(w) \/ WorkerConflict(w) \/ WorkerRequeue(w)
             \/ WorkerAck(w) \/ WorkerUnlock(w) \/ WorkerRead(w) \/ WorkerProcess(w)
             \/ SettleRead(w) \/ SettleReread(w)
    BY <2>1 DEF WorkerReserve, WorkerLock, WorkerConflict, WorkerRequeue, WorkerAck,
          WorkerUnlock, WorkerRead, WorkerProcess, SettleRead, SettleReread, QueueCall, ReadJob
  <2>2. CASE \/ WorkerRelease(w) \/ WorkerPoll(w) \/ WorkerTransition(w) \/ WorkerIndex(w)
             \/ SettleCapture(w) \/ SettleMark(w) \/ SettleRecordFailure(w)
             \/ SettleFailExhausted(w)
    BY <2>2 DEF WorkerRelease, WorkerPoll, WorkerTransition, WorkerIndex, Transition,
          ReleaseHold, SettleCapture, SettleMark, SettleRecordFailure, SettleFailExhausted
  <2>3. QED
    BY <2>1, <2>2 DEF WorkerStep
<1>2. QED
    BY <1>1, MovesOne, Processes

\* The steps that nobody takes: of the queue's movers, of time, of the provider and
\* of the cleanup.
EnvironmentStep ==
    \/ MoveDelayed \/ RecoverActive \/ LockExpires \/ JobGrowsStale
    \/ UpstreamEnds \/ OutputDeleted

\* Such a step moves no process.
LEMMA EnvironmentMoves ==
    ASSUME EnvironmentStep
    PROVE  UNCHANGED pc
BY DEF EnvironmentStep, MoveDelayed, RecoverActive, LockExpires, JobGrowsStale, UpstreamEnds,
       OutputDeleted

\* A crash ends one process, changes nothing it shares and counts as a trouble.
LEMMA CrashMoves ==
    ASSUME TypeOK, NEW p \in Process, Crash(p)
    PROVE  /\ \A q \in Process \ {p} : pc'[q] = pc[q]
           /\ pc'[p] = IF p = "submit" THEN "done" ELSE "idle"
           /\ UNCHANGED <<holdVars, queueVars, job, upstream>>
           /\ Suffer("lost")
           /\ pc[p] \notin {"new", "done", "idle"}
<1>1. GoTo(p, IF p = "submit" THEN "done" ELSE "idle")
    BY DEF Crash
<1>2. QED
    BY <1>1, MovesOne DEF Crash

-----------------------------------------------------------------------------
(* Submit                                                                  *)

\* Only Submit gives the job a provider's name, and only it looks after a job
\* without one, apart from those who end it.
LEMMA NamedStep ==
    ASSUME StructInv, Next
    PROVE  NamedInv'
<1> USE DEF StructInv, NamedInv
<1>0. job \in Job
    BY DEF TypeOK
<1>1. Rely
    BY RelyStep
<1>2. ASSUME pc'["submit"] = pc["submit"], job'.named = job.named,
             \/ job'.status = job.status
             \/ job'.status \in Dead
             \/ job.named /\ job'.status \notin Early
      PROVE  NamedInv'
    BY <1>1, <1>2 DEF Rely, Dead, Early, Unsubmitted
<1>3. CASE SubmitStep \/ SubmitHeartbeat \/ Resubmit
  <2>0. \A label : GoTo("submit", label) => pc'["submit"] = label
    BY MovesOne, Processes
  <2>1. CASE SubmitCreate
    BY <1>0, <2>0, <2>1 DEF SubmitCreate, Job, SubmitInv, Early, Unsubmitted
  <2>2. CASE SubmitReserve \/ SubmitItems \/ SubmitProvider \/ SubmitHeartbeat
    BY <1>0, <1>1, <2>0, <2>2 DEF SubmitReserve, SubmitItems, SubmitProvider, SubmitHeartbeat, Job
  <2>3. CASE SubmitUpload
    BY <1>0, <1>1, <2>0, <2>3 DEF SubmitUpload, Transition, CanTransition, Job, Early, Unsubmitted
  <2>4. CASE UpdateProviderSubmit
    BY <1>0, <2>0, <2>4 DEF UpdateProviderSubmit, Job, Early, Unsubmitted, SubmitInv,
          holdVars
  <2>5. CASE SubmitEnqueue \/ RecordQueueFailure \/ Resubmit \/ AbortOrphanProviderJob
    BY <1>0, <1>1, <2>0, <2>5 DEF SubmitEnqueue,
          RecordQueueFailure, Resubmit, AbortOrphanProviderJob, Job, Rely
  <2>6. CASE SubmitRelease
    BY <1>0, <1>1, <2>0, <2>6 DEF SubmitRelease, ReleaseHold
  <2>7. CASE SubmitFails
    BY <1>0, <1>1, <2>0, <2>7 DEF SubmitFails, RecordSubmitFailure, EnqueueJob, Job, Dead
  <2>8. QED
    BY <1>3, <2>1, <2>2, <2>3, <2>4, <2>5, <2>6, <2>7 DEF SubmitStep
<1>4. CASE CancelRead \/ CancelStep \/ DeleteRecord
    BY <1>0, <1>2, <1>4, CancelMoves, Processes DEF CancelRead, CancelStep, CancelProvider,
          CancelTransition, CancelRelease, CancelEnqueue, DeleteRecord, Transition, ReleaseHold,
          EnqueueJob, Job, Dead
<1>5. CASE SweepStep
    BY <1>0, <1>2, <1>5, SweepMoves, Processes DEF SweepStep, SweepList, SweepFail,
          SweepRelease, SweepEnqueue, ReleaseHold, EnqueueJob, Job, Dead
<1>6. ASSUME NEW w \in Workers, WorkerStep(w) PROVE NamedInv'
  <2>1. pc'["submit"] = pc["submit"]
    BY <1>6, WorkerMoves, Processes
  <2>2. CASE WorkerTransition(w)
    <3>1. job.named
      BY <2>2 DEF WorkerTransition, WorkerInv, ProviderLabels, SettleLabels
    <3>2. job'.named = job.named /\ job'.status \notin Early
      BY <1>0, <2>2, <3>1 DEF WorkerTransition, Transition, Job, Early, Unsubmitted
    <3>3. QED
      BY <1>2, <2>1, <3>1, <3>2
  <2>3. CASE WorkerIndex(w) \/ SettleMark(w)
    <3>1. job.named
      BY <2>3 DEF WorkerIndex, SettleMark, WorkerInv, ProviderLabels, SettleLabels
    <3>2. job'.named = job.named /\ job'.status \notin Early
      BY <1>0, <2>3, <3>1 DEF WorkerIndex, SettleMark, Job, Early, Unsubmitted
    <3>3. QED
      BY <1>2, <2>1, <3>1, <3>2
  <2>4. CASE SettleRecordFailure(w) \/ SettleFailExhausted(w)
    <3>1. job' \in {job, CountFailure}
      BY <2>4 DEF SettleRecordFailure, SettleFailExhausted, ReleaseHold
    <3>2. job'.named = job.named /\ job'.status = job.status
      BY <1>0, <3>1 DEF CountFailure, Job
    <3>3. QED
      BY <1>2, <2>1, <3>2
  <2>5. CASE ~ (\/ WorkerTransition(w) \/ WorkerIndex(w) \/ SettleMark(w)
                \/ SettleRecordFailure(w) \/ SettleFailExhausted(w))
    <3>1. UNCHANGED job
      BY <1>6, <2>5 DEF WorkerStep, WorkerReserve, WorkerLock, WorkerConflict, WorkerRequeue,
            WorkerAck, WorkerUnlock, WorkerRead, WorkerProcess, WorkerRelease, WorkerPoll,
            SettleRead, SettleCapture, SettleReread, QueueCall, ReadJob, ReleaseHold
    <3>2. QED
      BY <1>2, <2>1, <3>1
  <2>6. QED
    BY <2>2, <2>3, <2>4, <2>5
<1>7. CASE EnvironmentStep
    BY <1>0, <1>2, <1>7, EnvironmentMoves DEF EnvironmentStep, MoveDelayed, RecoverActive,
          LockExpires, JobGrowsStale, UpstreamEnds, OutputDeleted, Job, Early, Unsubmitted, Dead
<1>8. ASSUME NEW p \in Process, Crash(p) PROVE NamedInv'
    BY <1>1, <1>8, CrashMoves, Processes DEF Rely, holdVars
<1>9. QED
    BY <1>3, <1>4, <1>5, <1>6, <1>7, <1>8 DEF Next, EnvironmentStep

\* What Submit has done when it gets to a call.
LEMMA SubmitInvStep ==
    ASSUME StructInv, Next
    PROVE  SubmitInv'
<1> USE DEF StructInv, SubmitInv
<1>0. job \in Job
    BY DEF TypeOK
<1>1. Rely
    BY RelyStep
<1>2. ASSUME pc'["submit"] = pc["submit"],
             job'.status = "none" <=> job.status = "none",
             "hold" \in claims' <=> "hold" \in claims,
             upstream' = "none" <=> upstream = "none"
      PROVE  SubmitInv'
    BY <1>1, <1>2 DEF Rely
<1>3. CASE SubmitStep \/ SubmitHeartbeat \/ Resubmit
  <2>0. \A label : GoTo("submit", label) => pc'["submit"] = label
    BY MovesOne, Processes
  <2>1. CASE SubmitCreate
    BY <1>0, <2>0, <2>1 DEF SubmitCreate, Job, holdVars, Progress
  <2>2. CASE SubmitReserve
    BY <1>0, <2>0, <2>2 DEF SubmitReserve, CanReserve, Reserve, Move, holdVars, Progress
  <2>3. CASE SubmitItems \/ SubmitProvider \/ SubmitHeartbeat
    BY <1>0, <2>0, <2>3 DEF SubmitItems, SubmitProvider, SubmitHeartbeat, Job, holdVars, Progress,
          Unsubmitted
  <2>4. CASE SubmitUpload
    BY <1>0, <2>0, <2>4 DEF SubmitUpload, Transition, Job, holdVars, Progress
  <2>5. CASE UpdateProviderSubmit
    BY <1>0, <2>0, <2>5 DEF UpdateProviderSubmit, Job, holdVars, Progress
  <2>6. CASE SubmitEnqueue \/ RecordQueueFailure \/ Resubmit \/ AbortOrphanProviderJob
    BY <1>0, <2>0, <2>6 DEF SubmitEnqueue,
          RecordQueueFailure, Resubmit, AbortOrphanProviderJob, Job, holdVars,
          Progress, NamedInv, Early, Unsubmitted, Dead
  <2>7. CASE SubmitRelease
    BY <1>0, <2>0, <2>7 DEF SubmitRelease, ReleaseHold, Progress
  <2>8. CASE SubmitFails
    BY <1>0, <2>0, <2>8 DEF SubmitFails, RecordSubmitFailure, EnqueueJob, Job, Progress
  <2>9. QED
    BY <1>3, <2>1, <2>2, <2>3, <2>4, <2>5, <2>6, <2>7, <2>8 DEF SubmitStep
<1>4. ASSUME NEW p, NEW s, NEW e, ReleaseHold(p, s, e)
      PROVE  /\ "hold" \in claims' <=> "hold" \in claims
             /\ UNCHANGED <<job, upstream>>
    BY <1>4 DEF ReleaseHold, Release, Move, holdVars
<1>5. CASE CancelRead \/ CancelStep \/ DeleteRecord
  <2>1. pc'["submit"] = pc["submit"]
    BY <1>5, CancelMoves, Processes
  <2>2. CASE CancelRead \/ CancelProvider \/ CancelTransition \/ CancelEnqueue \/ DeleteRecord
    BY <1>0, <1>2, <2>1, <2>2 DEF CancelRead, CancelProvider, CancelTransition,
          CancelEnqueue, DeleteRecord, Transition, CanTransition, EnqueueJob, ProviderCancel,
          holdVars, Job, Terminal
  <2>3. CASE CancelRelease
    BY <1>2, <1>4, <2>1, <2>3 DEF CancelRelease
  <2>4. QED
    BY <1>5, <2>2, <2>3 DEF CancelStep
<1>6. CASE SweepStep
  <2>1. pc'["submit"] = pc["submit"]
    BY <1>6, SweepMoves, Processes
  <2>2. CASE SweepList \/ SweepFail \/ SweepEnqueue
    BY <1>0, <1>2, <2>1, <2>2 DEF SweepList, SweepFail, SweepEnqueue, EnqueueJob,
          StaleUnsubmitted, Unsubmitted, holdVars, Job
  <2>3. CASE SweepRelease
    BY <1>2, <1>4, <2>1, <2>3 DEF SweepRelease
  <2>4. QED
    BY <1>6, <2>2, <2>3 DEF SweepStep
<1>7. ASSUME NEW w \in Workers, WorkerStep(w) PROVE SubmitInv'
  <2>1. pc'["submit"] = pc["submit"]
    BY <1>7, WorkerMoves, Processes
  <2>2. CASE WorkerTransition(w)
    <3>1. job'.status = "none" <=> job.status = "none"
      BY <1>0, <2>2 DEF WorkerTransition, Transition, CanTransition, Job, Terminal
    <3>2. QED
      BY <1>2, <2>1, <2>2, <3>1 DEF WorkerTransition, Transition, holdVars
  <2>3. CASE WorkerIndex(w) \/ SettleMark(w)
    BY <1>0, <1>2, <2>1, <2>3 DEF WorkerIndex, SettleMark, Job, holdVars
  <2>4. CASE SettleRecordFailure(w)
    BY <1>0, <1>2, <2>1, <2>4 DEF SettleRecordFailure, CountFailure, holdVars, Job
  <2>5. CASE SettleFailExhausted(w)
    BY <1>0, <1>2, <1>4, <2>1, <2>5 DEF SettleFailExhausted, CountFailure, holdVars, Job
  <2>6. CASE SettleCapture(w)
    BY <1>2, <2>1, <2>6 DEF SettleCapture, Capture, Move, holdVars
  <2>7. CASE WorkerRelease(w)
    BY <1>2, <1>4, <2>1, <2>7 DEF WorkerRelease
  <2>8. CASE \/ WorkerReserve(w) \/ WorkerLock(w) \/ WorkerConflict(w) \/ WorkerRequeue(w)
             \/ WorkerAck(w) \/ WorkerUnlock(w) \/ WorkerRead(w) \/ WorkerProcess(w)
             \/ WorkerPoll(w) \/ SettleRead(w) \/ SettleReread(w)
    <3>1. UNCHANGED <<holdVars, job, upstream>>
      BY <2>8 DEF WorkerReserve, WorkerLock, WorkerConflict, WorkerRequeue, WorkerAck,
            WorkerUnlock, WorkerRead, WorkerProcess, WorkerPoll, SettleRead, SettleReread,
            QueueCall, ReadJob
    <3>2. QED
      BY <1>2, <2>1, <3>1 DEF holdVars
  <2>9. QED
    BY <1>7, <2>2, <2>3, <2>4, <2>5, <2>6, <2>7, <2>8 DEF WorkerStep
<1>8. CASE EnvironmentStep
    BY <1>0, <1>2, <1>8, EnvironmentMoves DEF EnvironmentStep, MoveDelayed, RecoverActive,
          LockExpires, JobGrowsStale, UpstreamEnds, OutputDeleted, Job, Unsubmitted, holdVars
<1>9. ASSUME NEW p \in Process, Crash(p) PROVE SubmitInv'
    BY <1>1, <1>9, CrashMoves, Processes DEF Rely, holdVars, Progress
<1>10. QED
    BY <1>3, <1>5, <1>6, <1>7, <1>8, <1>9 DEF Next, EnvironmentStep

-----------------------------------------------------------------------------
(* Workers                                                                 *)

\* A step of a worker that touches the queue and its own round only.
QuietStep(w) ==
    \/ WorkerReserve(w) \/ WorkerLock(w) \/ WorkerConflict(w) \/ WorkerRequeue(w)
    \/ WorkerAck(w) \/ WorkerUnlock(w) \/ WorkerRead(w) \/ WorkerProcess(w)
    \/ WorkerPoll(w) \/ SettleRead(w) \/ SettleReread(w)

\* Quiet steps leave the money, the row and the provider alone.
LEMMA QuietFrame ==
    ASSUME NEW w, QuietStep(w)
    PROVE  UNCHANGED <<holdVars, claims, job, upstream>>
BY DEF QuietStep, WorkerReserve, WorkerLock, WorkerConflict, WorkerRequeue, WorkerAck,
       WorkerUnlock, WorkerRead, WorkerProcess, WorkerPoll, SettleRead, SettleReread,
       QueueCall, ReadJob, holdVars

\* The transitions a worker asks for.
LEMMA WorkerTransitions ==
    ASSUME TypeOK, NEW w \in Workers, WorkerTransition(w)
    PROVE  \/ pc[w] = "toRunning" /\ TransitionEnd(w, "running", "requeue", "requeue", "requeue")
           \/ pc[w] = "toIndexing" /\ TransitionEnd(w, "indexing", "index", "requeue", "requeue")
           \/ pc[w] = "toSettling" /\ TransitionEnd(w, "settling", "requeue", "requeue", "requeue")
           \/ pc[w] = "toFailed" /\ TransitionEnd(w, "failed", "release", "requeue", "requeue")
           \/ pc[w] = "toCancelled"
                /\ TransitionEnd(w, "cancelled", "release", "requeue", "requeue")
           \/ pc[w] = "exhausted" /\ TransitionEnd(w, "failed", "reread", "requeue", "requeue")
BY TransitionEnds, Processes DEF WorkerTransition

\* Who releases a hold has seen the job end.
LEMMA EndStep ==
    ASSUME StructInv, Next
    PROVE  EndInv'
<1> USE DEF StructInv, EndInv
<1>0. job \in Job
    BY DEF TypeOK
<1>1. Rely
    BY RelyStep
<1>2. ASSUME NEW p \in Process, \A q \in Process \ {p} : pc'[q] = pc[q],
             p = "submit" \/ (pc'[p] = "release" => job'.status \in Dead)
      PROVE  EndInv'
    BY <1>1, <1>2 DEF Rely
<1>3. CASE SubmitStep \/ SubmitHeartbeat \/ Resubmit
    BY <1>2, <1>3, SubmitMoves, Processes
<1>4. CASE CancelRead \/ CancelStep \/ DeleteRecord
  <2>0. \A label : GoTo("cancel", label) => pc'["cancel"] = label
    BY MovesOne, Processes
  <2>1. pc'["cancel"] = "release" => job'.status \in Dead
    <3>1. CASE CancelRead \/ DeleteRecord
      BY <1>0, <1>4, <2>0, <3>1, Processes DEF CancelRead, DeleteRecord, Job, Dead
    <3>2. CASE CancelProvider \/ CancelRelease \/ CancelEnqueue
      BY <1>0, <2>0, <3>2 DEF CancelProvider, CancelRelease, CancelEnqueue, ReleaseHold,
            EnqueueJob, Dead
    <3>3. CASE CancelTransition
      <4>1. pc'["cancel"] = "release" => job' = [job EXCEPT !.status = "cancelled", !.stale = FALSE]
        <5>1. TransitionEnd("cancel", "cancelled", "release", "idle", "idle")
          BY <3>3, TransitionEnds, Processes DEF CancelTransition
        <5>2. QED
          BY <5>1 DEF TransitionEnd
      <4>2. QED
        BY <1>0, <4>1 DEF Job, Dead
    <3>4. QED
      BY <1>4, <3>1, <3>2, <3>3 DEF CancelStep
  <2>2. QED
    BY <1>2, <1>4, <2>1, CancelMoves, Processes
<1>5. CASE SweepStep
  <2>0. \A label : GoTo("sweep", label) => pc'["sweep"] = label
    BY MovesOne, Processes
  <2>1. pc'["sweep"] = "release" => job'.status \in Dead
    BY <1>0, <1>5, <2>0 DEF SweepStep, SweepList, SweepFail, SweepRelease, SweepEnqueue,
          ReleaseHold, EnqueueJob, Job, Dead
  <2>2. QED
    BY <1>2, <1>5, <2>1, SweepMoves, Processes
<1>6. ASSUME NEW w \in Workers, WorkerStep(w) PROVE EndInv'
  <2>0. \A label : GoTo(w, label) => pc'[w] = label
    BY MovesOne, Processes
  <2>1. pc'[w] = "release" => job'.status \in Dead
    <3>1. CASE QuietStep(w)
      BY <2>0, <3>1, QuietFrame DEF QuietStep, WorkerReserve, WorkerLock, WorkerConflict,
            WorkerRequeue, WorkerAck, WorkerUnlock, WorkerRead, WorkerProcess, WorkerPoll,
            SettleRead, SettleReread, QueueCall, ReadJob, Dead
    <3>2. CASE WorkerTransition(w)
      <4>1. pc'[w] = "release" =>
              \E to \in Dead : job' = [job EXCEPT !.status = to, !.stale = FALSE]
        BY <3>2, WorkerTransitions DEF TransitionEnd, Dead
      <4>2. QED
        BY <1>0, <4>1 DEF Job
    <3>3. CASE \/ WorkerRelease(w) \/ WorkerIndex(w) \/ SettleCapture(w) \/ SettleMark(w)
               \/ SettleRecordFailure(w) \/ SettleFailExhausted(w)
      <4>1. pc'[w] # "release"
        BY <2>0, <3>3 DEF WorkerRelease, WorkerIndex, SettleCapture, SettleMark,
              SettleRecordFailure, SettleFailExhausted, ReleaseHold
      <4>2. QED
        BY <4>1
    <3>4. QED
      BY <1>6, <3>1, <3>2, <3>3 DEF WorkerStep, QuietStep
  <2>2. QED
    BY <1>2, <1>6, <2>1, WorkerMoves, Processes
<1>7. CASE EnvironmentStep
    BY <1>2, <1>7, EnvironmentMoves, Processes
<1>8. ASSUME NEW p \in Process, Crash(p) PROVE EndInv'
    BY <1>2, <1>8, CrashMoves
<1>9. QED
    BY <1>3, <1>4, <1>5, <1>6, <1>7, <1>8 DEF Next, EnvironmentStep

\* What a worker knows of the provider's job stays true.
LEMMA WorkerInvStep ==
    ASSUME StructInv, Next
    PROVE  WorkerInv'
<1> USE DEF StructInv, WorkerInv
<1>0. job \in Job
    BY DEF TypeOK
<1>1. Rely
    BY RelyStep
<1>2. troubles["fail"] > 0 => troubles'["fail"] > 0
    BY TroublesGrow DEF Trouble
<1>3. job'.status \in Post \cup {"indexing"} => upstream' = "succeeded"
  <2>1. job.status \in Post \cup {"indexing"} \/ job'.status \notin Post \cup {"indexing"}
          \/ upstream = "succeeded"
    <3>1. CASE SubmitStep \/ SubmitHeartbeat \/ Resubmit
      BY <1>0, <3>1 DEF SubmitStep, SubmitCreate, SubmitReserve, SubmitItems, SubmitUpload,
            SubmitProvider, UpdateProviderSubmit, SubmitEnqueue,
            RecordQueueFailure, AbortOrphanProviderJob,
            SubmitRelease, SubmitFails, RecordSubmitFailure, Transition, ReleaseHold,
            EnqueueJob, SubmitHeartbeat, Resubmit, Job, Post
    <3>2. CASE CancelRead \/ CancelStep \/ DeleteRecord \/ SweepStep
      BY <1>0, <3>2 DEF CancelRead, CancelStep, CancelProvider, CancelTransition, CancelRelease,
            CancelEnqueue, DeleteRecord, SweepStep, SweepList, SweepFail, SweepRelease,
            SweepEnqueue, Transition, ReleaseHold, EnqueueJob, Job, Post
    <3>3. CASE EnvironmentStep \/ \E p \in Process : Crash(p)
      BY <1>0, <3>3 DEF EnvironmentStep, MoveDelayed, RecoverActive, LockExpires,
            JobGrowsStale, UpstreamEnds, OutputDeleted, Crash, Job, Post
    <3>4. ASSUME NEW w \in Workers, WorkerStep(w)
          PROVE  job.status \in Post \cup {"indexing"} \/ job'.status \notin Post \cup {"indexing"}
                   \/ upstream = "succeeded"
      <4>1. CASE QuietStep(w)
        BY <4>1, QuietFrame
      <4>2. CASE WorkerTransition(w)
        BY <1>0, <4>2 DEF WorkerTransition, Transition, CanTransition, Job, Post, Terminal
      <4>3. CASE WorkerIndex(w) \/ SettleMark(w) \/ SettleCapture(w) \/ WorkerRelease(w)
        BY <1>0, <4>3 DEF WorkerIndex, SettleMark, SettleCapture, WorkerRelease, ReleaseHold,
              Job, Post
      <4>4. CASE SettleRecordFailure(w) \/ SettleFailExhausted(w)
        BY <1>0, <4>4 DEF SettleRecordFailure, SettleFailExhausted, ReleaseHold,
              CountFailure, Job
      <4>5. QED
        BY <3>4, <4>1, <4>2, <4>3, <4>4 DEF WorkerStep, QuietStep
    <3>5. QED
      BY <3>1, <3>2, <3>3, <3>4 DEF Next, EnvironmentStep
  <2>2. QED
    BY <1>1, <2>1 DEF Rely
<1>4. ASSUME NEW w \in Workers, pc'[w] = pc[w]
      PROVE  /\ pc'[w] \in ProviderLabels \cup SettleLabels => job'.named
             /\ pc'[w] \in {"toIndexing", "index", "toSettling"} => upstream' = "succeeded"
             /\ pc'[w] = "toFailed" => upstream' = "failed" \/ troubles'["fail"] > 0
    BY <1>1, <1>2, <1>4 DEF Rely
<1>5. ASSUME NEW w \in Workers, WorkerStep(w)
      PROVE  /\ pc'[w] \in ProviderLabels \cup SettleLabels => job'.named
             /\ pc'[w] \in {"toIndexing", "index", "toSettling"} => upstream' = "succeeded"
             /\ pc'[w] = "toFailed" => upstream' = "failed" \/ troubles'["fail"] > 0
  <2>0. \A label : GoTo(w, label) => pc'[w] = label
    BY MovesOne, Processes
  <2>1. CASE QuietStep(w)
    <3>0. UNCHANGED <<job, upstream>>
      BY <2>1, QuietFrame
    <3>1. pc'[w] \in ProviderLabels \cup SettleLabels => job.named
      BY <2>0, <2>1 DEF QuietStep, WorkerReserve, WorkerLock, WorkerConflict, WorkerRequeue,
            WorkerAck, WorkerUnlock, WorkerRead, WorkerProcess, WorkerPoll, SettleRead,
            SettleReread, QueueCall, ReadJob, ProviderLabels, SettleLabels, NamedInv, Early,
            Unsubmitted, Dead, Terminal
    <3>2. /\ pc'[w] \in {"toIndexing", "index", "toSettling"} => upstream = "succeeded"
          /\ pc'[w] = "toFailed" => upstream = "failed"
      BY <2>0, <2>1 DEF QuietStep, WorkerReserve, WorkerLock, WorkerConflict, WorkerRequeue,
            WorkerAck, WorkerUnlock, WorkerRead, WorkerProcess, WorkerPoll, SettleRead,
            SettleReread, QueueCall, ReadJob
    <3>3. QED
      BY <3>0, <3>1, <3>2
  <2>2. CASE WorkerTransition(w)
    <3>1. job.named /\ job'.named
      BY <1>1, <2>2 DEF WorkerTransition, ProviderLabels, SettleLabels, Rely
    <3>2. \/ pc'[w] \in {"release", "requeue", "reread"}
          \/ pc'[w] = "index" /\ pc[w] = "toIndexing"
      BY <2>2, WorkerTransitions DEF TransitionEnd
    <3>3. QED
      BY <1>1, <3>1, <3>2 DEF Rely
  <2>3. CASE WorkerIndex(w)
    <3>1. job.named /\ job'.named /\ upstream = "succeeded" /\ upstream' = "succeeded"
      BY <1>1, <2>3 DEF WorkerIndex, ProviderLabels, Rely
    <3>2. pc'[w] = "toFailed" => troubles'["fail"] > 0
      <4>1. CASE Suffer("fail")
        BY <4>1, SufferType, TroublesGrow DEF Trouble
      <4>2. QED
        BY <2>0, <2>3, <4>1 DEF WorkerIndex
    <3>3. QED
      BY <3>1, <3>2
  <2>4. CASE \/ SettleCapture(w) \/ SettleMark(w) \/ SettleRecordFailure(w)
             \/ SettleFailExhausted(w)
    <3>1. job'.named
      BY <1>1, <2>4 DEF SettleCapture, SettleMark, SettleRecordFailure, SettleFailExhausted,
            SettleLabels, Rely
    <3>2. pc'[w] \notin {"toIndexing", "index", "toSettling", "toFailed"}
      BY <2>0, <2>4 DEF SettleCapture, SettleMark, SettleRecordFailure, SettleFailExhausted,
            ReleaseHold
    <3>3. QED
      BY <3>1, <3>2
  <2>5. CASE WorkerRelease(w)
    <3>1. pc'[w] \in {"ack", "requeue"}
      BY <2>0, <2>5 DEF WorkerRelease, ReleaseHold
    <3>2. QED
      BY <3>1 DEF ProviderLabels, SettleLabels
  <2>6. QED
    BY <1>5, <2>1, <2>2, <2>3, <2>4, <2>5 DEF WorkerStep, QuietStep
<1>6. ASSUME NEW w \in Workers, pc'[w] \in {"idle", pc[w]} \/ WorkerStep(w)
      PROVE  /\ pc'[w] \in ProviderLabels \cup SettleLabels => job'.named
             /\ pc'[w] \in {"toIndexing", "index", "toSettling"} => upstream' = "succeeded"
             /\ pc'[w] = "toFailed" => upstream' = "failed" \/ troubles'["fail"] > 0
    BY <1>4, <1>5, <1>6 DEF ProviderLabels, SettleLabels
<1>7. \A w \in Workers : pc'[w] \in {"idle", pc[w]} \/ WorkerStep(w)
    BY SubmitMoves, CancelMoves, SweepMoves, WorkerMoves, EnvironmentMoves, CrashMoves, Processes
       DEF Next, EnvironmentStep
<1>8. QED
    BY <1>3, <1>6, <1>7

\* Who stores the provider's name, counts a failed settlement, completes a job and
\* begins to settle it.
LEMMA RowWrites ==
    ASSUME TypeOK, Next
    PROVE  /\ job'.named = job.named \/ pc["submit"] = "update"
           /\ \/ job'.retryCount = job.retryCount
              \/ \E w \in Workers : SettleRecordFailure(w) \/ SettleFailExhausted(w)
           /\ \/ job'.status \notin {"completed", "output_deleted"}
              \/ job.status \in {"completed", "output_deleted"}
              \/ \E w \in Workers : pc[w] = "markSettled"
           /\ \/ job'.status \notin Post
              \/ job.status \in Post
              \/ \E w \in Workers : pc[w] = "toSettling" /\ WorkerStep(w)
<1>0. job \in Job
    BY DEF TypeOK
<1>1. CASE /\ job'.named = job.named \/ pc["submit"] = "update"
           /\ job'.retryCount = job.retryCount
           /\ job'.status = job.status \/ job'.status \notin Post
    BY <1>1 DEF Post
<1>2. CASE SubmitStep \/ SubmitHeartbeat \/ Resubmit
    BY <1>0, <1>1, <1>2 DEF SubmitStep, SubmitCreate, SubmitReserve, SubmitItems, SubmitUpload,
          SubmitProvider, UpdateProviderSubmit, SubmitEnqueue,
          RecordQueueFailure, AbortOrphanProviderJob,
          SubmitRelease, SubmitFails, RecordSubmitFailure, Transition, ReleaseHold,
          EnqueueJob, SubmitHeartbeat, Resubmit, Job, Post
<1>3. CASE CancelRead \/ CancelStep \/ DeleteRecord \/ SweepStep
    BY <1>0, <1>1, <1>3 DEF CancelRead, CancelStep, CancelProvider, CancelTransition,
          CancelRelease, CancelEnqueue, DeleteRecord, SweepStep, SweepList, SweepFail,
          SweepRelease, SweepEnqueue, Transition, ReleaseHold, EnqueueJob, Job, Post
<1>4. CASE EnvironmentStep \/ \E p \in Process : Crash(p)
    BY <1>0, <1>4 DEF EnvironmentStep, MoveDelayed, RecoverActive, LockExpires,
          JobGrowsStale, UpstreamEnds, OutputDeleted, Crash, Job, Post
<1>5. ASSUME NEW w \in Workers, WorkerStep(w)
      PROVE  /\ job'.named = job.named
             /\ \/ job'.retryCount = job.retryCount
                \/ SettleRecordFailure(w) \/ SettleFailExhausted(w)
             /\ \/ job'.status \notin {"completed", "output_deleted"}
                \/ job.status \in {"completed", "output_deleted"}
                \/ pc[w] = "markSettled"
             /\ \/ job'.status \notin Post
                \/ job.status \in Post
                \/ pc[w] = "toSettling"
  <2>1. CASE QuietStep(w) \/ SettleCapture(w) \/ WorkerRelease(w)
    BY <2>1, QuietFrame DEF SettleCapture, WorkerRelease, ReleaseHold
  <2>2. CASE WorkerTransition(w)
    <3>1. \E to \in {"running", "indexing", "settling", "failed", "cancelled"} :
             /\ job' \in {job, [job EXCEPT !.status = to, !.stale = FALSE]}
             /\ to = "settling" => pc[w] = "toSettling"
      BY <2>2, WorkerTransitions DEF TransitionEnd
    <3>2. job'.retryCount = job.retryCount /\ job'.named = job.named
      BY <1>0, <3>1 DEF Job
    <3>3. \/ job'.status = job.status
          \/ job'.status \in {"running", "indexing", "failed", "cancelled"}
          \/ job'.status = "settling" /\ pc[w] = "toSettling"
      BY <1>0, <3>1 DEF Job
    <3>4. QED
      BY <3>2, <3>3 DEF Post
  <2>3. CASE WorkerIndex(w) \/ SettleMark(w)
    BY <1>0, <2>3 DEF WorkerIndex, SettleMark, Job, Post
  <2>4. CASE SettleRecordFailure(w) \/ SettleFailExhausted(w)
    BY <1>0, <2>4 DEF SettleRecordFailure, SettleFailExhausted, ReleaseHold, CountFailure, Job
  <2>5. QED
    BY <1>5, <2>1, <2>2, <2>3, <2>4 DEF WorkerStep, QuietStep
<1>6. QED
    BY <1>2, <1>3, <1>4, <1>5 DEF Next, EnvironmentStep

\* Every worker takes a step of its own, dies, or stays where it is.
LEMMA WorkerStays ==
    ASSUME TypeOK, Next
    PROVE  \A w \in Workers : pc'[w] \in {"idle", pc[w]} \/ WorkerStep(w)
BY SubmitMoves, CancelMoves, SweepMoves, WorkerMoves, EnvironmentMoves, CrashMoves, Processes
   DEF Next, EnvironmentStep

\* What a worker knows of the settlement stays true.
LEMMA SettleInvStep ==
    ASSUME StructInv, Next
    PROVE  SettleInv'
<1> USE DEF StructInv, SettleInv
<1>0. job \in Job /\ job.cost \in Nat /\ HoldAmount \in Nat
    BY CostType, HoldAssumption DEF TypeOK
<1>1. Rely
    BY RelyStep
<1>2. job'.status \notin Past => job'.retryCount = 0
    BY <1>1, RowWrites DEF Rely, SettleLabels, SettleRecordFailure, SettleFailExhausted
<1>3. job'.status \in {"completed", "output_deleted"} => "capture" \in claims'
    BY <1>1, RowWrites DEF Rely
<1> DEFINE Settles(w) == /\ pc'[w] \in SettleLabels => job'.status \in Past
                         /\ pc'[w] \in {"capture", "markSettled", "recordFailure"} =>
                              job'.cost <= HoldAmount
                         /\ pc'[w] = "recordExceeds" => job'.cost > HoldAmount
                         /\ pc'[w] = "markSettled" => "capture" \in claims'
<1>4. ASSUME NEW w \in Workers, pc'[w] \in {"idle", pc[w]} PROVE Settles(w)
    BY <1>1, <1>4 DEF Rely, SettleLabels
<1>5. ASSUME NEW w \in Workers, WorkerStep(w) PROVE Settles(w)
  <2>0. \A label : GoTo(w, label) => pc'[w] = label
    BY MovesOne, Processes
  <2>1. CASE pc'[w] \notin SettleLabels
    BY <2>1 DEF SettleLabels
  <2>2. CASE QuietStep(w)
    <3>1. UNCHANGED <<claims, job>>
      BY <2>2, QuietFrame
    <3>2. \/ pc'[w] \notin SettleLabels
          \/ pc[w] = "read" /\ pc'[w] = "settle" /\ job.status = "settling"
          \/ /\ pc[w] = "settle" /\ job.status = "settling"
             /\ \/ pc'[w] = "failExhausted"
                \/ pc'[w] = "recordExceeds" /\ job.cost > HoldAmount
                \/ pc'[w] = "capture" /\ ~(job.cost > HoldAmount)
      BY <2>0, <2>2 DEF QuietStep, WorkerReserve, WorkerLock, WorkerConflict, WorkerRequeue,
            WorkerAck, WorkerUnlock, WorkerRead, WorkerProcess, WorkerPoll, SettleRead,
            SettleReread, QueueCall, ReadJob, SettleLabels
    <3>3. QED
      BY <1>0, <2>1, <3>1, <3>2 DEF Past, Post
  <2>3. CASE WorkerTransition(w)
    <3>1. pc'[w] \notin SettleLabels \/ (pc[w] = "exhausted" /\ pc'[w] = "reread")
      BY <2>3, WorkerTransitions DEF TransitionEnd, SettleLabels
    <3>2. QED
      BY <1>1, <2>1, <3>1 DEF Rely, SettleLabels
  <2>4. CASE WorkerIndex(w) \/ WorkerRelease(w) \/ SettleMark(w)
    <3>1. pc'[w] \notin SettleLabels
      BY <2>0, <2>4 DEF WorkerIndex, WorkerRelease, SettleMark, ReleaseHold, SettleLabels
    <3>2. QED
      BY <2>1, <3>1
  <2>5. CASE SettleCapture(w)
    <3>1. pc[w] = "capture" /\ UNCHANGED job
      BY <2>5 DEF SettleCapture
    <3>2. \/ pc'[w] = "recordFailure"
          \/ pc'[w] = "markSettled" /\ "capture" \in claims'
      BY <2>0, <2>5 DEF SettleCapture, Capture, Move, holdVars
    <3>3. QED
      BY <3>1, <3>2 DEF SettleLabels
  <2>6. CASE SettleRecordFailure(w) \/ SettleFailExhausted(w)
    <3>1. pc[w] \in SettleLabels
      BY <2>6 DEF SettleRecordFailure, SettleFailExhausted, SettleLabels
    <3>2. pc'[w] \in {"failExhausted", "reread", "requeue", "exhausted", "recordRelease"}
      BY <2>0, <2>6 DEF SettleRecordFailure, SettleFailExhausted, ReleaseHold
    <3>3. QED
      BY <1>1, <3>1, <3>2 DEF Rely
  <2>7. QED
    BY <1>5, <2>2, <2>3, <2>4, <2>5, <2>6 DEF WorkerStep, QuietStep
<1>6. QED
    BY <1>2, <1>3, <1>4, <1>5, WorkerStays

-----------------------------------------------------------------------------
(* The queue and the lock                                                  *)

\* How the job's keys in Redis change, and who changes them.
LEMMA QueueWrites ==
    ASSUME TypeOK, Next
    PROVE  \/ UNCHANGED queueVars
           \/ Enqueue /\ \A w \in Workers : pc'[w] = pc[w]
           \/ MoveDueDelayed /\ UNCHANGED pc
           \/ RecoverActive
           \/ LockExpires
           \/ \E w \in Workers : \/ WorkerReserve(w) \/ WorkerLock(w) \/ WorkerConflict(w)
                                 \/ WorkerRequeue(w) \/ WorkerAck(w) \/ WorkerUnlock(w)
<1>1. CASE SubmitStep \/ SubmitHeartbeat \/ Resubmit
  <2>1. UNCHANGED queueVars \/ Enqueue
    BY <1>1 DEF SubmitStep, SubmitCreate, SubmitReserve, SubmitItems, SubmitUpload,
          SubmitProvider, UpdateProviderSubmit, SubmitEnqueue,
          RecordQueueFailure, AbortOrphanProviderJob,
          SubmitRelease, SubmitFails, RecordSubmitFailure, Transition, ReleaseHold,
          EnqueueJob, SubmitHeartbeat, Resubmit
  <2>2. QED
    BY <1>1, <2>1, SubmitMoves, Processes
<1>2. CASE CancelRead \/ CancelStep \/ DeleteRecord
  <2>1. UNCHANGED queueVars \/ Enqueue
    BY <1>2 DEF CancelRead, CancelStep, CancelProvider, CancelTransition, CancelRelease,
          CancelEnqueue, DeleteRecord, Transition, ReleaseHold, EnqueueJob
  <2>2. QED
    BY <1>2, <2>1, CancelMoves, Processes
<1>3. CASE SweepStep
  <2>1. UNCHANGED queueVars \/ Enqueue
    BY <1>3 DEF SweepStep, SweepList, SweepFail, SweepRelease, SweepEnqueue, ReleaseHold,
          EnqueueJob
  <2>2. QED
    BY <1>3, <2>1, SweepMoves, Processes
<1>4. ASSUME NEW w \in Workers, WorkerStep(w)
      PROVE  \/ UNCHANGED queueVars
             \/ WorkerReserve(w) \/ WorkerLock(w) \/ WorkerConflict(w)
             \/ WorkerRequeue(w) \/ WorkerAck(w) \/ WorkerUnlock(w)
    BY <1>4 DEF WorkerStep, WorkerRead, WorkerProcess, WorkerRelease, WorkerPoll,
          WorkerTransition, WorkerIndex, SettleRead, SettleCapture, SettleMark,
          SettleRecordFailure, SettleFailExhausted, SettleReread, ReadJob, Transition, ReleaseHold
<1>5. CASE EnvironmentStep \/ \E p \in Process : Crash(p)
    BY <1>5 DEF EnvironmentStep, MoveDelayed, JobGrowsStale, UpstreamEnds, OutputDeleted, Crash
<1>6. QED
    BY <1>1, <1>2, <1>3, <1>4, <1>5 DEF Next, EnvironmentStep

\* A worker gets the job from the queue and the lock in two steps, and keeps them
\* until the calls that give them back.
LEMMA WorkerRounds ==
    ASSUME TypeOK, Next, NEW w \in Workers
    PROVE  /\ Holding(w)' => Holding(w) \/ WorkerReserve(w)
           /\ Processing(w)' => Processing(w) \/ (WorkerLock(w) /\ TryAcquireJobLock(w))
<1> USE DEF Holding, Processing
<1>1. CASE pc'[w] \in {"idle", pc[w]}
    BY <1>1
<1>2. CASE WorkerStep(w)
  <2>0. \A label : GoTo(w, label) => pc'[w] = label
    BY MovesOne, Processes
  <2>1. CASE \/ WorkerLock(w) \/ WorkerConflict(w) \/ WorkerRequeue(w) \/ WorkerAck(w)
             \/ WorkerUnlock(w)
    BY <2>0, <2>1 DEF WorkerLock, WorkerConflict, WorkerRequeue, WorkerAck, WorkerUnlock,
          QueueCall
  <2>2. CASE WorkerReserve(w)
    BY <2>0, <2>2 DEF WorkerReserve
  <2>3. CASE \/ WorkerRead(w) \/ WorkerProcess(w) \/ WorkerRelease(w) \/ WorkerPoll(w)
             \/ WorkerTransition(w) \/ WorkerIndex(w) \/ SettleRead(w) \/ SettleCapture(w)
             \/ SettleMark(w) \/ SettleRecordFailure(w) \/ SettleFailExhausted(w)
             \/ SettleReread(w)
    <3>1. pc[w] \notin {"idle", "unlock", "lock", "conflict"}
      BY <2>3 DEF WorkerRead, WorkerProcess, WorkerRelease, WorkerPoll,
            WorkerTransition, WorkerIndex, SettleRead, SettleCapture, SettleMark,
            SettleRecordFailure, SettleFailExhausted, SettleReread, ReadJob
    <3>2. QED
      BY <3>1
  <2>4. QED
    BY <1>2, <2>1, <2>2, <2>3 DEF WorkerStep
<1>3. QED
    BY <1>1, <1>2, WorkerStays

\* As long as no lease of the active set is lost to a busy worker, the queue
\* gives the job to one worker at a time.
LEMMA QueueExcludesStep ==
    ASSUME TypeOK, Next, QueueExcludes, ~(RecoverActive /\ AnyWorkerBusy)
    PROVE  QueueExcludes'
<1>0. /\ ready \in Nat /\ delayed \in BOOLEAN /\ active \in BOOLEAN /\ inflight \in BOOLEAN
    BY DEF TypeOK, QueueTypeOK
<1>1. \A w \in Workers : Holding(w)' => Holding(w) \/ WorkerReserve(w)
    BY WorkerRounds
<1>2. CASE (\A w \in Workers : Holding(w)' => Holding(w))
           /\ UNCHANGED <<ready, delayed, active, inflight>>
    BY <1>2 DEF QueueExcludes, Queued
<1>3. CASE \E w \in Workers : WorkerReserve(w)
  <2>1. PICK w \in Workers : WorkerReserve(w)
    BY <1>3
  <2>2. ready > 0 /\ ready' = ready - 1 /\ active' = TRUE /\ UNCHANGED <<delayed, inflight>>
    BY <2>1 DEF WorkerReserve, ReserveJob
  <2>3. ready = 1 /\ ~active /\ ~delayed /\ \A v \in Workers : ~Holding(v)
    BY <1>0, <2>2 DEF QueueExcludes
  <2>4. inflight
    BY <2>2 DEF QueueExcludes, Queued
  <2>5. \A v \in Workers \ {w} : pc'[v] = pc[v]
    BY <2>1, WorkerMoves, Processes DEF WorkerStep
  <2>6. \A v \in Workers : Holding(v)' => v = w
    BY <2>3, <2>5 DEF Holding
  <2>7. ready' = 0
    BY <2>2, <2>3
  <2>8. QED
    BY <2>2, <2>3, <2>4, <2>6, <2>7 DEF QueueExcludes
<1>4. CASE (\A w \in Workers : ~WorkerReserve(w)) /\ ~UNCHANGED <<ready, delayed, active, inflight>>
  <2>1. \A w \in Workers : Holding(w)' => Holding(w)
    BY <1>1, <1>4
  <2>2. CASE Enqueue
    <3>1. inflight' = TRUE /\ UNCHANGED <<delayed, active>>
      BY <2>2 DEF Enqueue
    <3>2. inflight => ready' = ready
      BY <2>2 DEF Enqueue
    <3>3. ~inflight => ready' = 1 /\ ~active /\ ~delayed
      BY <1>0, <2>2 DEF Enqueue, QueueExcludes, Queued
    <3>4. QED
      BY <2>1, <3>1, <3>2, <3>3 DEF QueueExcludes, Queued
  <2>3. CASE MoveDueDelayed
    <3>1. delayed /\ ready' = ready + 1 /\ UNCHANGED <<active, inflight>> /\ delayed' = FALSE
      BY <2>3 DEF MoveDueDelayed
    <3>2. ready = 0 /\ ~active /\ inflight
      BY <3>1 DEF QueueExcludes, Queued
    <3>3. ready' = 1
      BY <3>1, <3>2
    <3>4. QED
      BY <2>1, <3>1, <3>2, <3>3 DEF QueueExcludes
  <2>4. CASE RecoverActive
    <3>1. active /\ ready' = ready + 1 /\ UNCHANGED <<delayed, inflight, pc>> /\ active' = FALSE
      BY <2>4 DEF RecoverActive, RecoverStaleActive
    <3>2. ready = 0 /\ ~delayed /\ inflight
      BY <3>1 DEF QueueExcludes, Queued
    <3>3. ready' = 1 /\ \A w \in Workers : ~Holding(w)
      BY <2>4, <3>1, <3>2 DEF AnyWorkerBusy, Holding
    <3>4. QED
      BY <2>1, <3>1, <3>2, <3>3 DEF QueueExcludes
  <2>5. ASSUME NEW w \in Workers, WorkerConflict(w) \/ WorkerRequeue(w) \/ WorkerAck(w)
        PROVE  QueueExcludes'
    <3>0. \A label : GoTo(w, label) => pc'[w] = label
      BY MovesOne, Processes
    <3>1. Holding(w) /\ ~Holding(w)'
      BY <2>5, <3>0 DEF WorkerConflict, WorkerRequeue, WorkerAck, QueueCall, Holding
    <3>2. active /\ ready = 0 /\ ~delayed /\ inflight /\ \A v \in Workers : ~Holding(v)'
      BY <2>1, <3>1 DEF QueueExcludes, Queued
    <3>3. UNCHANGED queueVars \/ RequeueAfter \/ Ack
      BY <2>5 DEF WorkerConflict, WorkerRequeue, WorkerAck, QueueCall
    <3>4. CASE RequeueAfter
      <4>1. active' = FALSE /\ delayed' = TRUE /\ ready' = 0 /\ inflight'
        BY <3>2, <3>4 DEF RequeueAfter
      <4>2. QED
        BY <3>2, <4>1 DEF QueueExcludes
    <3>5. CASE Ack
      <4>1. active' = FALSE /\ delayed' = FALSE /\ ready' = 0
        BY <3>2, <3>5 DEF Ack
      <4>2. QED
        BY <3>2, <4>1 DEF QueueExcludes, Queued
    <3>6. QED
      BY <1>4, <3>3, <3>4, <3>5 DEF queueVars
  <2>6. ASSUME NEW w \in Workers, WorkerLock(w) \/ WorkerUnlock(w)
        PROVE  UNCHANGED <<ready, delayed, active, inflight>>
    BY <2>6 DEF WorkerLock, WorkerUnlock, QueueCall, TryAcquireJobLock, ReleaseJobLock, queueVars
  <2>7. LockExpires \/ UNCHANGED queueVars => UNCHANGED <<ready, delayed, active, inflight>>
    BY DEF LockExpires, JobLockExpires, queueVars
  <2>8. QED
    BY <1>4, <2>2, <2>3, <2>4, <2>5, <2>6, <2>7, QueueWrites
<1>5. QED
    BY <1>1, <1>2, <1>3, <1>4

\* As long as no lease of the lock is lost to the worker that has it, one
\* worker at a time works on the job.
LEMMA LockExcludesStep ==
    ASSUME TypeOK, Next, LockExcludes, ~(LockExpires /\ Processing(lock))
    PROVE  LockExcludes'
<1>1. \A w \in Workers :
         Processing(w)' => Processing(w) \/ (WorkerLock(w) /\ TryAcquireJobLock(w))
    BY WorkerRounds
<1>2. ASSUME NEW w \in Workers, WorkerLock(w), TryAcquireJobLock(w) PROVE LockExcludes'
  <2>1. lock = NoWorker /\ lock' = w
    BY <1>2 DEF TryAcquireJobLock
  <2>2. \A v \in Workers \ {w} : pc'[v] = pc[v]
    BY <1>2, WorkerMoves, Processes DEF WorkerStep
  <2>3. \A v \in Workers : ~Processing(v)
    BY <2>1, Processes DEF LockExcludes
  <2>4. QED
    BY <2>1, <2>2, <2>3 DEF LockExcludes, Processing
<1>3. CASE (\A w \in Workers : Processing(w)' => Processing(w)) /\ UNCHANGED lock
    BY <1>3 DEF LockExcludes
<1>4. CASE (\A w \in Workers : Processing(w)' => Processing(w)) /\ LockExpires
    BY <1>4 DEF LockExcludes
<1>5. ASSUME NEW w \in Workers, WorkerUnlock(w), \A v \in Workers : Processing(v)' => Processing(v)
      PROVE  LockExcludes'
  <2>1. pc'[w] = "idle"
    BY <1>5, MovesOne, Processes DEF WorkerUnlock, QueueCall
  <2>2. lock' = lock \/ lock = w
    BY <1>5 DEF WorkerUnlock, QueueCall, ReleaseJobLock, queueVars
  <2>3. QED
    BY <1>5, <2>1, <2>2 DEF LockExcludes, Processing
<1>6. \/ UNCHANGED lock \/ LockExpires
      \/ \E w \in Workers : WorkerUnlock(w)
      \/ \E w \in Workers : WorkerLock(w) /\ TryAcquireJobLock(w)
  <2>1. ASSUME NEW w \in Workers,
               \/ WorkerReserve(w) \/ WorkerLock(w) \/ WorkerConflict(w)
               \/ WorkerRequeue(w) \/ WorkerAck(w)
        PROVE  UNCHANGED lock \/ (WorkerLock(w) /\ TryAcquireJobLock(w))
    BY <2>1 DEF WorkerReserve, WorkerLock, WorkerConflict, WorkerRequeue, WorkerAck, QueueCall,
          ReserveJob, RequeueAfter, Ack, queueVars
  <2>2. UNCHANGED queueVars \/ Enqueue \/ MoveDueDelayed \/ RecoverActive => UNCHANGED lock
    BY DEF queueVars, Enqueue, MoveDueDelayed, RecoverActive, RecoverStaleActive
  <2>3. QED
    BY <2>1, <2>2, QueueWrites
<1>7. QED
    BY <1>1, <1>2, <1>3, <1>4, <1>5, <1>6

\* A job with an inflight key is queued, so Enqueue may leave it alone; and a
\* single lost lease does not hand the job to two workers.
LEMMA QueueStep ==
    ASSUME TypeOK, QueueInv, Next
    PROVE  QueueInv'
<1>0. /\ ready \in Nat /\ delayed \in BOOLEAN /\ active \in BOOLEAN /\ inflight \in BOOLEAN
    BY DEF TypeOK, QueueTypeOK
<1>1. inflight' => Queued'
  <2>1. inflight => Queued
    BY DEF QueueInv
  <2>2. CASE UNCHANGED queueVars
    BY <2>1, <2>2 DEF Queued, queueVars
  <2>3. CASE Enqueue \/ MoveDueDelayed \/ RecoverActive \/ LockExpires
    <3>1. CASE Enqueue
      <4>1. inflight => ready' = ready /\ UNCHANGED <<delayed, active>>
        BY <3>1 DEF Enqueue
      <4>2. ~inflight => ready' > 0
        BY <1>0, <3>1 DEF Enqueue
      <4>3. QED
        BY <2>1, <4>1, <4>2 DEF Queued
    <3>2. CASE MoveDueDelayed \/ RecoverActive
      <4>1. ready' > 0
        BY <1>0, <3>2 DEF MoveDueDelayed, RecoverActive, RecoverStaleActive
      <4>2. QED
        BY <4>1 DEF Queued
    <3>3. CASE LockExpires
      BY <2>1, <3>3 DEF LockExpires, JobLockExpires, Queued
    <3>4. QED
      BY <2>3, <3>1, <3>2, <3>3
  <2>4. ASSUME NEW w \in Workers,
               \/ WorkerReserve(w) \/ WorkerLock(w) \/ WorkerConflict(w)
               \/ WorkerRequeue(w) \/ WorkerAck(w) \/ WorkerUnlock(w)
        PROVE  inflight' => Queued'
    <3>1. \/ UNCHANGED queueVars \/ ReserveJob \/ TryAcquireJobLock(w) \/ RequeueAfter \/ Ack
          \/ ReleaseJobLock(w)
      BY <2>4 DEF WorkerReserve, WorkerLock, WorkerConflict, WorkerRequeue, WorkerAck,
            WorkerUnlock, QueueCall
    <3>2. QED
      BY <1>0, <2>1, <2>2, <3>1 DEF ReserveJob, TryAcquireJobLock, RequeueAfter, Ack,
            ReleaseJobLock, Queued
  <2>5. QED
    BY <2>2, <2>3, <2>4, QueueWrites
<1>2. /\ troubles["delay"] \in Nat /\ troubles'["delay"] \in Nat
      /\ troubles["delay"] <= troubles'["delay"]
    BY TroublesGrow DEF Trouble
<1>3. CASE RecoverActive /\ AnyWorkerBusy
  <2>1. troubles'["delay"] = troubles["delay"] + 1
    BY <1>3, SufferType DEF RecoverActive, RunsOut, Trouble
  <2>2. LockExcludes => LockExcludes'
    BY <1>3 DEF RecoverActive, RecoverStaleActive, LockExcludes, Processing
  <2>3. QED
    BY <1>1, <1>2, <2>1, <2>2 DEF QueueInv
<1>4. CASE LockExpires /\ Processing(lock)
  <2>1. troubles'["delay"] = troubles["delay"] + 1
    BY <1>4, SufferType DEF LockExpires, RunsOut, Trouble
  <2>2. QueueExcludes => QueueExcludes'
    BY <1>4 DEF LockExpires, JobLockExpires, QueueExcludes, Holding, Queued
  <2>3. QED
    BY <1>1, <1>2, <2>1, <2>2 DEF QueueInv
<1>5. CASE ~(RecoverActive /\ AnyWorkerBusy) /\ ~(LockExpires /\ Processing(lock))
  <2>1. /\ QueueExcludes => QueueExcludes'
        /\ LockExcludes => LockExcludes'
    BY <1>5, QueueExcludesStep, LockExcludesStep
  <2>2. QED
    BY <1>1, <1>2, <2>1 DEF QueueInv
<1>6. QED
    BY <1>3, <1>4, <1>5

\* A worker that works on the job's results after one lost lease works alone: the
\* job is not settled under its hands.
LEMMA IndexStep ==
    ASSUME StructInv, QueueInv, IndexInv, Next
    PROVE  IndexInv'
<1> USE DEF StructInv
<1> SUFFICES ASSUME troubles'["delay"] <= 1, NEW w \in Workers, pc'[w] \in {"index", "toFailed"}
             PROVE  job'.status \notin Post
    BY DEF IndexInv
<1>0. job \in Job
    BY DEF TypeOK
<1>1. troubles["delay"] <= 1
  <2>1. /\ troubles["delay"] \in Nat /\ troubles'["delay"] \in Nat
        /\ troubles["delay"] <= troubles'["delay"]
    BY TroublesGrow DEF Trouble
  <2>2. QED
    BY <2>1
<1>2. pc[w] \in {"index", "toFailed"} => job.status \notin Post
    BY <1>1 DEF IndexInv
<1>3. QueueExcludes \/ LockExcludes
    BY <1>1 DEF QueueInv
<1>4. CASE job.status \in Post
  <2>0. \A label : GoTo(w, label) => pc'[w] = label
    BY MovesOne, Processes
  <2>1. WorkerStep(w) /\ pc[w] \notin {"index", "toFailed"}
    BY <1>2, <1>4, WorkerStays
  <2>2. upstream = "succeeded" /\ job.status # "indexing"
    BY <1>4 DEF WorkerInv, Post
  <2>3. CASE QuietStep(w)
    BY <2>0, <2>2, <2>3 DEF QuietStep, WorkerReserve, WorkerLock, WorkerConflict,
          WorkerRequeue, WorkerAck, WorkerUnlock, WorkerRead, WorkerProcess, WorkerPoll,
          SettleRead, SettleReread, QueueCall, ReadJob
  <2>4. CASE WorkerTransition(w)
    <3>1. job' = [job EXCEPT !.status = "indexing", !.stale = FALSE]
      BY <2>4, WorkerTransitions DEF TransitionEnd
    <3>2. QED
      BY <1>0, <3>1 DEF Job, Post
  <2>5. CASE \/ WorkerIndex(w) \/ WorkerRelease(w) \/ SettleCapture(w) \/ SettleMark(w)
             \/ SettleRecordFailure(w) \/ SettleFailExhausted(w)
    BY <2>0, <2>1, <2>5 DEF WorkerIndex, WorkerRelease, SettleCapture, SettleMark,
          SettleRecordFailure, SettleFailExhausted, ReleaseHold
  <2>6. QED
    BY <2>1, <2>3, <2>4, <2>5 DEF WorkerStep, QuietStep
<1>5. CASE job.status \notin Post /\ job'.status \in Post
  <2>1. PICK v \in Workers : pc[v] = "toSettling" /\ WorkerStep(v)
    BY <1>5, RowWrites
  <2>2. w # v
    <3>1. WorkerTransition(v)
      BY <2>1 DEF WorkerStep, WorkerReserve, WorkerLock, WorkerConflict, WorkerRequeue,
            WorkerAck, WorkerUnlock, WorkerRead, WorkerProcess, WorkerRelease, WorkerPoll,
            WorkerIndex, SettleRead, SettleCapture, SettleMark, SettleRecordFailure,
            SettleFailExhausted, SettleReread, QueueCall, ReadJob
    <3>2. pc'[v] = "requeue"
      BY <2>1, <3>1, WorkerTransitions DEF TransitionEnd
    <3>3. QED
      BY <3>2
  <2>3. pc[w] \in {"index", "toFailed"}
    BY <2>1, <2>2, WorkerMoves, Processes
  <2>4. Holding(w) /\ Holding(v) /\ Processing(w) /\ Processing(v)
    BY <2>1, <2>3 DEF Holding, Processing
  <2>5. QED
    BY <1>3, <2>2, <2>4 DEF QueueExcludes, LockExcludes
<1>6. QED
    BY <1>4, <1>5

-----------------------------------------------------------------------------
(* The books                                                               *)

\* Few troubles were few troubles before.
LEMMA FewBefore ==
    ASSUME TypeOK, Next, FewTroubles'
    PROVE  FewTroubles
<1>1. \A t \in Trouble : /\ troubles[t] \in Nat /\ troubles'[t] \in Nat
                         /\ troubles[t] <= troubles'[t]
    BY TroublesGrow
<1>2. MaxRetries \in Nat
    BY JobAssumption
<1>3. QED
    BY <1>1, <1>2 DEF FewTroubles, Trouble

\* Who releases the hold.
Releasing ==
    \/ pc["submit"] \in {"release", "releaseOnly"}
    \/ \E p \in Process \ {"submit"} : pc[p] = "release"
    \/ \E w \in Workers : pc[w] = "failExhausted"

\* The transactions on the user's row.
LEMMA MoneyWrites ==
    ASSUME TypeOK, Next
    PROVE  \/ UNCHANGED holdVars
           \/ pc["submit"] = "reserve" /\ Reserve /\ UNCHANGED job
           \/ \E w \in Workers : SettleCapture(w) /\ CanCapture /\ Capture(job.cost)
           \/ Releasing /\ CanRelease /\ Release /\ UNCHANGED job
<1>1. ASSUME NEW p, NEW s, NEW e, ReleaseHold(p, s, e)
      PROVE  UNCHANGED job /\ (UNCHANGED holdVars \/ (CanRelease /\ Release))
    BY <1>1 DEF ReleaseHold
<1>2. CASE SubmitStep \/ SubmitHeartbeat \/ Resubmit
  <2>1. CASE SubmitRelease
    BY <1>1, <2>1 DEF SubmitRelease, Releasing
  <2>2. CASE SubmitReserve
    BY <2>2 DEF SubmitReserve
  <2>3. CASE ~SubmitRelease /\ ~SubmitReserve
    BY <1>2, <2>3 DEF SubmitStep, SubmitCreate, SubmitItems, SubmitUpload,
          SubmitProvider, UpdateProviderSubmit, SubmitEnqueue,
          RecordQueueFailure, AbortOrphanProviderJob,
          SubmitFails, RecordSubmitFailure, Transition, EnqueueJob, SubmitHeartbeat, Resubmit
  <2>4. QED
    BY <2>1, <2>2, <2>3
<1>3. CASE CancelRead \/ CancelStep \/ DeleteRecord \/ SweepStep
  <2>1. CASE CancelRelease \/ SweepRelease
    <3>1. Releasing
      BY <2>1, Processes DEF CancelRelease, SweepRelease, Releasing
    <3>2. QED
      BY <1>1, <2>1, <3>1 DEF CancelRelease, SweepRelease
  <2>2. CASE ~CancelRelease /\ ~SweepRelease
    BY <1>3, <2>2 DEF CancelRead, CancelStep, CancelProvider, CancelTransition,
          CancelEnqueue, DeleteRecord, SweepStep, SweepList, SweepFail, SweepEnqueue,
          Transition, EnqueueJob
  <2>3. QED
    BY <2>1, <2>2
<1>4. ASSUME NEW w \in Workers, WorkerStep(w)
      PROVE  \/ UNCHANGED holdVars
             \/ SettleCapture(w) /\ CanCapture /\ Capture(job.cost)
             \/ Releasing /\ CanRelease /\ Release /\ UNCHANGED job
  <2>1. CASE QuietStep(w) \/ WorkerTransition(w) \/ WorkerIndex(w) \/ SettleMark(w)
              \/ SettleRecordFailure(w)
    BY <2>1, QuietFrame DEF WorkerTransition, Transition, WorkerIndex, SettleMark,
          SettleRecordFailure
  <2>2. CASE SettleCapture(w)
    BY <2>2 DEF SettleCapture
  <2>3. CASE WorkerRelease(w)
    <3>1. Releasing
      BY <2>3, Processes DEF WorkerRelease, Releasing
    <3>2. QED
      BY <1>1, <2>3, <3>1 DEF WorkerRelease
  <2>4. CASE SettleFailExhausted(w)
    <3>1. pc[w] = "failExhausted" => Releasing
      BY DEF Releasing
    <3>2. QED
      BY <1>1, <2>4, <3>1 DEF SettleFailExhausted
  <2>5. QED
    BY <1>4, <2>1, <2>2, <2>3, <2>4 DEF WorkerStep, QuietStep
<1>5. CASE EnvironmentStep \/ \E p \in Process : Crash(p)
    BY <1>5 DEF EnvironmentStep, MoveDelayed, RecoverActive, LockExpires, JobGrowsStale,
          UpstreamEnds, OutputDeleted, Crash
<1>6. QED
    BY <1>2, <1>3, <1>4, <1>5 DEF Next, EnvironmentStep

\* Who releases the hold knows that it is not captured.
LEMMA ReleasingNotCharged ==
    ASSUME IInv, FewTroubles, Releasing
    PROVE  /\ "capture" \notin claims
           /\ \/ job.status \in Dead
              \/ ~job.named /\ pc["submit"] \notin Progress
              \/ job.status \in Past /\ job.cost > HoldAmount
<1> USE DEF IInv, StructInv, BooksInv
<1>0. job.cost \in Nat /\ HoldAmount \in Nat
    BY CostType, HoldAssumption DEF TypeOK
<1>1. CASE pc["submit"] \in {"release", "releaseOnly"}
  <2>1. ~job.named /\ pc["submit"] \notin Progress
    BY <1>1 DEF NamedInv, Progress
  <2>2. job.status \notin Post
    BY <2>1 DEF NamedInv, Early, Unsubmitted, Dead, Post
  <2>3. QED
    BY <1>1, <2>1, <2>2 DEF ChargeInv
<1>2. CASE \E p \in Process \ {"submit"} : pc[p] = "release"
    BY <1>2 DEF EndInv, ChargeInv, Dead, Post
<1>3. CASE \E w \in Workers : pc[w] = "failExhausted"
  <2>1. job.cost > HoldAmount /\ job.status \in Past
    BY <1>3 DEF ChargeInv, SettleInv, SettleLabels
  <2>2. QED
    BY <1>0, <2>1 DEF ChargeInv
<1>4. QED
    BY <1>1, <1>2, <1>3 DEF Releasing

\* Who captures the hold knows that it is there and not released.
LEMMA CapturingNotReleased ==
    ASSUME IInv, FewTroubles, NEW w \in Workers, pc[w] = "capture"
    PROVE  /\ job.status \in Post /\ job.cost <= HoldAmount
           /\ "hold" \in claims /\ "release" \notin claims
<1> USE DEF IInv, StructInv, BooksInv
<1>0. job.cost \in Nat /\ HoldAmount \in Nat
    BY CostType, HoldAssumption DEF TypeOK
<1>1. job.status \in Post /\ job.cost <= HoldAmount /\ job.named
    BY DEF ChargeInv, SettleInv, WorkerInv, SettleLabels
<1>2. "hold" \in claims
    BY <1>1 DEF NamedInv
<1>3. "release" \notin claims
    BY <1>0, <1>1 DEF ReleaseInv, Post, Dead
<1>4. QED
    BY <1>1, <1>2, <1>3

\* A released hold stays without a use.
LEMMA ReleaseInvStep ==
    ASSUME IInv, FewTroubles, Next
    PROVE  ReleaseInv'
<1> USE DEF IInv, StructInv
<1>0. job \in Job
    BY DEF TypeOK
<1>1. Rely
    BY RelyStep
<1>2. SUFFICES ASSUME "release" \in claims' PROVE ReleaseInv'
    BY DEF ReleaseInv
<1>3. \/ job.status \in Dead
      \/ ~job.named /\ pc["submit"] \notin Progress
      \/ job.status \in Past /\ job.cost > HoldAmount
  <2>1. CASE "release" \in claims
    BY <2>1 DEF BooksInv, ReleaseInv
  <2>2. CASE "release" \notin claims
    <3>1. Releasing
      BY <1>2, <2>2, MoneyWrites DEF holdVars, Reserve, Capture, Move
    <3>2. QED
      BY <3>1, ReleasingNotCharged
  <2>3. QED
    BY <2>1, <2>2
<1>4. CASE ~job.named /\ pc["submit"] \notin Progress
  <2>0. \A label : GoTo("submit", label) => pc'["submit"] = label
    BY MovesOne, Processes
  <2>1. CASE SubmitStep \/ SubmitHeartbeat \/ Resubmit
    <3>1. pc'["submit"] \notin Progress
      BY <1>4, <2>0, <2>1 DEF SubmitStep, SubmitCreate, SubmitReserve, SubmitItems,
            SubmitUpload, SubmitProvider, UpdateProviderSubmit, SubmitEnqueue, RecordQueueFailure,
            AbortOrphanProviderJob, SubmitRelease, SubmitFails, RecordSubmitFailure,
            ReleaseHold, EnqueueJob, SubmitHeartbeat, Resubmit, Progress
    <3>2. QED
      BY <1>4, <3>1, RowWrites DEF ReleaseInv, Progress
  <2>2. CASE ~(SubmitStep \/ SubmitHeartbeat \/ Resubmit)
    <3>1. pc'["submit"] \in {pc["submit"], "done"}
      BY <2>2, CancelMoves, SweepMoves, WorkerMoves, EnvironmentMoves, CrashMoves, Processes
         DEF Next, EnvironmentStep
    <3>2. QED
      BY <1>4, <3>1, RowWrites DEF ReleaseInv, Progress
  <2>3. QED
    BY <2>1, <2>2
<1>5. QED
    BY <1>1, <1>3, <1>4 DEF Rely, ReleaseInv

\* A job whose cost is within its hold is not failed any more once it settles.
LEMMA PostStays ==
    ASSUME IInv, FewTroubles, Next, job.status \in Post, job.cost <= HoldAmount
    PROVE  job'.status \in Post
<1> USE DEF IInv, StructInv
<1>0. job \in Job /\ job.cost \in Nat /\ HoldAmount \in Nat
    BY CostType, HoldAssumption DEF TypeOK
<1>1. /\ job.named /\ upstream = "succeeded"
      /\ pc["submit"] \in {"enqueue", "recordQueue", "abort", "done"}
      /\ job.status \notin Unsubmitted \cup Dead
    BY DEF NamedInv, WorkerInv, Early, Dead, Post, Unsubmitted
<1>2. CASE SubmitStep \/ SubmitHeartbeat \/ Resubmit
  <2>1. CASE SubmitEnqueue \/ RecordQueueFailure \/ Resubmit \/ AbortOrphanProviderJob
    BY <1>0, <2>1 DEF SubmitEnqueue, RecordQueueFailure, Resubmit, AbortOrphanProviderJob, Job
  <2>2. QED
    BY <1>1, <1>2, <2>1 DEF SubmitStep, SubmitCreate, SubmitReserve, SubmitItems, SubmitUpload,
          SubmitProvider, UpdateProviderSubmit, SubmitRelease, SubmitFails, SubmitHeartbeat
<1>3. CASE CancelRead \/ CancelStep \/ DeleteRecord \/ SweepStep
  <2>1. CASE CancelTransition
    BY <1>0, <2>1 DEF CancelTransition, Transition, CanTransition, Post, Terminal, Job
  <2>2. CASE ~CancelTransition
    BY <1>0, <1>1, <1>3, <2>2 DEF CancelRead, CancelStep, CancelProvider, CancelRelease,
          CancelEnqueue, DeleteRecord, SweepStep, SweepList, SweepFail, StaleUnsubmitted,
          SweepRelease, SweepEnqueue, ReleaseHold, EnqueueJob, Job
  <2>3. QED
    BY <2>1, <2>2
<1>4. CASE EnvironmentStep \/ \E p \in Process : Crash(p)
    BY <1>0, <1>4 DEF EnvironmentStep, MoveDelayed, RecoverActive, LockExpires,
          JobGrowsStale, UpstreamEnds, OutputDeleted, Crash, Job, Post
<1>5. ASSUME NEW w \in Workers, WorkerStep(w) PROVE job'.status \in Post
  <2>1. pc[w] # "toFailed"
    <3>1. SUFFICES ASSUME pc[w] = "toFailed" PROVE FALSE
      OBVIOUS
    <3>2. troubles["fail"] > 0
      BY <1>1, <3>1 DEF WorkerInv
    <3>3. troubles["delay"] <= 1
      BY <3>2 DEF FewTroubles, TypeOK, Trouble
    <3>4. QED
      BY <3>1, <3>3 DEF IndexInv
  <2>2. pc[w] # "exhausted"
    BY <1>0 DEF BooksInv, ChargeInv
  <2>3. CASE WorkerTransition(w)
    <3>1. UNCHANGED job
      BY <2>1, <2>2, <2>3, WorkerTransitions DEF TransitionEnd, CanTransition, Post, Terminal
    <3>2. QED
      BY <3>1
  <2>4. CASE QuietStep(w) \/ SettleCapture(w) \/ WorkerRelease(w)
    BY <2>4, QuietFrame DEF SettleCapture, WorkerRelease, ReleaseHold
  <2>5. CASE WorkerIndex(w) \/ SettleMark(w)
    BY <1>0, <2>5 DEF WorkerIndex, SettleMark, Job, Post
  <2>6. CASE SettleRecordFailure(w) \/ SettleFailExhausted(w)
    BY <1>0, <2>6 DEF SettleRecordFailure, SettleFailExhausted, ReleaseHold, CountFailure, Job
  <2>7. QED
    BY <1>5, <2>3, <2>4, <2>5, <2>6 DEF WorkerStep, QuietStep
<1>6. QED
    BY <1>2, <1>3, <1>4, <1>5 DEF Next, EnvironmentStep

\* A settlement that has met fewer than MaxRetries troubles has not been
\* counted MaxRetries times.
LEMMA NotExhausted ==
    ASSUME IInv, FewTroubles, job.cost <= HoldAmount
    PROVE  /\ job.retryCount < MaxRetries
           /\ \A w \in Workers : pc[w] = "recordFailure" => job.retryCount + 1 < MaxRetries
<1>0. /\ job.retryCount \in Nat /\ MaxRetries \in Nat
      /\ troubles["fail"] \in Nat /\ troubles["lost"] \in Nat
    BY JobAssumption DEF IInv, StructInv, TypeOK, Job, Trouble
<1>1. /\ IsFiniteSet(Failing)
      /\ job.retryCount + Cardinality(Failing) <= troubles["fail"] + troubles["lost"]
      /\ troubles["fail"] + troubles["lost"] < MaxRetries
    BY DEF IInv, BooksInv, RetryInv, FewTroubles
<1>2. Cardinality(Failing) \in Nat
    BY <1>1, FS_CardinalityType
<1>3. job.retryCount < MaxRetries
    BY <1>0, <1>1, <1>2
<1>4. ASSUME NEW w \in Workers, pc[w] = "recordFailure"
      PROVE  job.retryCount + 1 < MaxRetries
  <2>1. Failing # {}
    BY <1>4 DEF Failing
  <2>2. Cardinality(Failing) # 0
    BY <1>1, <2>1, FS_EmptySet
  <2>3. QED
    BY <1>0, <1>1, <1>2, <2>2
<1>5. QED
    BY <1>3, <1>4

\* The user is charged for what is settled, and a settlement is given up only when
\* the job costs more than its hold.
LEMMA ChargeStep ==
    ASSUME IInv, FewTroubles, Next
    PROVE  ChargeInv'
<1> USE DEF IInv, StructInv
<1>0. job \in Job /\ job.cost \in Nat /\ HoldAmount \in Nat
    BY CostType, HoldAssumption DEF TypeOK
<1>1. Rely
    BY RelyStep
<1>2. ASSUME job.status \in Post, job.cost <= HoldAmount
      PROVE  job'.status \in Post /\ job'.cost <= HoldAmount
    BY <1>1, <1>2, PostStays DEF Rely, Past
<1>3. ASSUME "capture" \in claims'
      PROVE  job'.status \in Post /\ job'.cost <= HoldAmount /\ "release" \notin claims'
  <2>1. CASE "capture" \in claims
    <3>1. job.status \in Post /\ job.cost <= HoldAmount /\ "release" \notin claims
      BY <2>1 DEF BooksInv, ChargeInv
    <3>2. ~Releasing
      BY <2>1, ReleasingNotCharged
    <3>3. "release" \notin claims'
      BY <3>1, <3>2, MoneyWrites DEF holdVars, Reserve, Capture, Move
    <3>4. QED
      BY <1>2, <3>1, <3>3
  <2>2. CASE "capture" \notin claims
    <3>1. PICK w \in Workers : SettleCapture(w) /\ Capture(job.cost)
      BY <1>3, <2>2, MoneyWrites DEF holdVars, Reserve, Release, Move
    <3>2. /\ job.status \in Post /\ job.cost <= HoldAmount /\ "release" \notin claims
      BY <3>1, CapturingNotReleased DEF SettleCapture
    <3>3. QED
      BY <1>2, <2>2, <3>1, <3>2 DEF Capture, Move
  <2>3. QED
    BY <2>1, <2>2
<1> DEFINE Charges(w) ==
             /\ pc'[w] = "capture" => job'.status \in Post
             /\ pc'[w] \in {"failExhausted", "recordRelease", "exhausted"} =>
                  job'.cost > HoldAmount
<1>4. ASSUME NEW w \in Workers, pc'[w] \in {"idle", pc[w]} PROVE Charges(w)
  <2>1. pc[w] = "capture" => job'.status \in Post
    BY <1>2 DEF BooksInv, ChargeInv, SettleInv
  <2>2. pc[w] \in {"failExhausted", "recordRelease", "exhausted"} => job'.cost > HoldAmount
    BY <1>1 DEF BooksInv, ChargeInv, SettleInv, SettleLabels, Rely
  <2>3. QED
    BY <1>4, <2>1, <2>2
<1>5. ASSUME NEW w \in Workers, WorkerStep(w) PROVE Charges(w)
  <2>0. \A label : GoTo(w, label) => pc'[w] = label
    BY MovesOne, Processes
  <2>1. CASE pc'[w] \notin {"capture", "failExhausted", "recordRelease", "exhausted"}
    BY <2>1
  <2>2. CASE QuietStep(w)
    <3>1. \/ pc'[w] \notin {"capture", "failExhausted", "recordRelease", "exhausted"}
          \/ pc'[w] = "capture" /\ job.status = "settling"
          \/ pc'[w] = "failExhausted" /\ Exhausted
      BY <2>0, <2>2 DEF QuietStep, WorkerReserve, WorkerLock, WorkerConflict,
            WorkerRequeue, WorkerAck, WorkerUnlock, WorkerRead, WorkerProcess, WorkerPoll,
            SettleRead, SettleReread, QueueCall, ReadJob
    <3>2. Exhausted => job.cost > HoldAmount
      <4>1. job.retryCount \in Nat /\ MaxRetries \in Nat
        BY <1>0, JobAssumption DEF Job
      <4>2. QED
        BY <1>0, <4>1, NotExhausted DEF Exhausted
    <3>3. QED
      BY <2>1, <2>2, <3>1, <3>2, QuietFrame DEF Post
  <2>3. CASE \/ WorkerTransition(w) \/ WorkerIndex(w) \/ WorkerRelease(w) \/ SettleCapture(w)
             \/ SettleMark(w)
    <3>1. pc'[w] \notin {"capture", "failExhausted", "recordRelease", "exhausted"}
      BY <2>0, <2>3 DEF WorkerTransition, Transition, WorkerIndex, WorkerRelease, ReleaseHold,
            SettleCapture, SettleMark
    <3>2. QED
      BY <2>1, <3>1
  <2>4. CASE SettleRecordFailure(w)
    <3>1. \/ pc'[w] \in {"reread", "requeue"}
          \/ pc'[w] = "failExhausted" /\ CountFailure.retryCount >= MaxRetries
      BY <2>0, <2>4 DEF SettleRecordFailure
    <3>2. CASE pc'[w] = "failExhausted" /\ CountFailure.retryCount >= MaxRetries
      <4>1. job.cost > HoldAmount
        <5>1. CASE pc[w] = "recordExceeds"
          BY <5>1 DEF SettleInv
        <5>2. CASE pc[w] = "recordFailure"
          <6>1. job.retryCount \in Nat /\ MaxRetries \in Nat
            BY <1>0, JobAssumption DEF Job
          <6>2. job.retryCount < MaxRetries => CountFailure.retryCount = job.retryCount + 1
            BY <1>0 DEF CountFailure, Job
          <6>3. QED
            BY <1>0, <3>2, <5>2, <6>1, <6>2, NotExhausted
        <5>3. QED
          BY <2>4, <5>1, <5>2 DEF SettleRecordFailure
      <4>2. job.status \in Past
        BY <2>4 DEF SettleRecordFailure, SettleInv, SettleLabels
      <4>3. QED
        BY <1>1, <3>2, <4>1, <4>2 DEF Rely
    <3>3. QED
      BY <2>1, <3>1, <3>2
  <2>5. CASE SettleFailExhausted(w)
    <3>1. job.cost > HoldAmount /\ job.status \in Past
      BY <2>5 DEF SettleFailExhausted, BooksInv, ChargeInv, SettleInv, SettleLabels
    <3>2. pc'[w] # "capture"
      BY <2>0, <2>5 DEF SettleFailExhausted, ReleaseHold
    <3>3. QED
      BY <1>1, <3>1, <3>2 DEF Rely
  <2>6. QED
    BY <1>5, <2>2, <2>3, <2>4, <2>5 DEF WorkerStep, QuietStep
<1>6. QED
    BY <1>3, <1>4, <1>5, WorkerStays DEF ChargeInv

\* Every counted or uncounted failure of a capture was a trouble.
LEMMA RetryStep ==
    ASSUME IInv, FewTroubles, Next
    PROVE  RetryInv'
<1> USE DEF IInv, StructInv
<1> DEFINE Sum == troubles["fail"] + troubles["lost"]
<1>0. job \in Job /\ job.cost \in Nat /\ HoldAmount \in Nat /\ job.retryCount \in Nat
    BY CostType, HoldAssumption, JobAssumption DEF TypeOK, Job
<1>1. Rely
    BY RelyStep
<1>2. SUFFICES ASSUME job'.cost <= HoldAmount PROVE RetryInv'
    BY DEF RetryInv
<1>3. \A t \in Trouble : /\ troubles[t] \in Nat /\ troubles'[t] \in Nat
                         /\ troubles[t] <= troubles'[t]
    BY TroublesGrow
<1>4. Sum \in Nat /\ Sum' \in Nat /\ Sum <= Sum'
    BY <1>3 DEF Trouble
<1>5. CASE job.status \notin Past /\ Failing' \subseteq Failing
  <2>1. job.retryCount = 0 /\ Failing = {}
    BY <1>5 DEF SettleInv, Failing, SettleLabels
  <2>2. job'.retryCount = 0
    BY <1>5, <2>1, RowWrites DEF SettleInv, SettleLabels, SettleRecordFailure,
          SettleFailExhausted
  <2>3. Failing' = {}
    BY <1>5, <2>1
  <2>4. QED
    BY <1>4, <2>2, <2>3, FS_EmptySet DEF RetryInv
<1>6. ASSUME job.status \in Past
      PROVE  /\ job.cost <= HoldAmount
             /\ IsFiniteSet(Failing) /\ Cardinality(Failing) \in Nat
             /\ job.retryCount + Cardinality(Failing) <= Sum
  <2>1. job.cost <= HoldAmount
    BY <1>1, <1>2, <1>6 DEF Rely
  <2>2. IsFiniteSet(Failing) /\ job.retryCount + Cardinality(Failing) <= Sum
    BY <2>1 DEF BooksInv, RetryInv
  <2>3. QED
    BY <2>1, <2>2, FS_CardinalityType
<1>7. CASE job.status \in Past /\ Failing' \subseteq Failing /\ job'.retryCount = job.retryCount
  <2>1. /\ IsFiniteSet(Failing') /\ Cardinality(Failing') \in Nat
        /\ Cardinality(Failing') <= Cardinality(Failing)
    BY <1>6, <1>7, FS_Subset, FS_CardinalityType
  <2>2. job'.retryCount + Cardinality(Failing') <= Sum'
    BY <1>0, <1>4, <1>6, <1>7, <2>1
  <2>3. QED
    BY <2>1, <2>2 DEF RetryInv
<1>8. ASSUME NEW w \in Workers, SettleCapture(w) PROVE RetryInv'
  <2>0. \A label : GoTo(w, label) => pc'[w] = label
    BY MovesOne, Processes
  <2>1. pc[w] = "capture" /\ UNCHANGED job
    BY <1>8 DEF SettleCapture
  <2>2. job.status \in Past
    BY <2>1 DEF SettleInv, SettleLabels
  <2>3. \A v \in Workers \ {w} : pc'[v] = pc[v]
    BY <1>8, WorkerMoves, Processes DEF WorkerStep
  <2>5. CASE pc'[w] # "recordFailure"
    <3>1. Failing' \subseteq Failing
      BY <2>3, <2>5 DEF Failing
    <3>2. QED
      BY <1>7, <2>1, <2>2, <3>1
  <2>6. CASE pc'[w] = "recordFailure"
    <3>1. w \notin Failing /\ Failing' = Failing \cup {w}
      BY <2>1, <2>3, <2>6 DEF Failing
    <3>2. CanCapture
      <4>1. "hold" \in claims /\ "release" \notin claims
        BY <2>1, CapturingNotReleased
      <4>2. "capture" \notin claims => frozen = OtherHolds + HoldAmount
        BY <4>1 DEF BooksInv, MoneyInv
      <4>3. QED
        BY <1>0, <4>2, HoldAssumption DEF CanCapture
    <3>3. Suffer("fail") \/ Suffer("lost")
      BY <1>8, <2>0, <2>6, <3>2 DEF SettleCapture, Happens, Outcome
    <3>4. Sum' = Sum + 1
      BY <1>3, <3>3, SufferType DEF Trouble
    <3>5. IsFiniteSet(Failing') /\ Cardinality(Failing') = Cardinality(Failing) + 1
      BY <1>6, <2>2, <3>1, FS_AddElement
    <3>6. job'.retryCount + Cardinality(Failing') <= Sum'
      BY <1>0, <1>4, <1>6, <2>1, <2>2, <3>4, <3>5
    <3>7. QED
      BY <3>5, <3>6 DEF RetryInv
  <2>7. QED
    BY <2>5, <2>6
<1>9. ASSUME NEW w \in Workers, SettleRecordFailure(w) PROVE RetryInv'
  <2>0. \A label : GoTo(w, label) => pc'[w] = label
    BY MovesOne, Processes
  <2>1. pc[w] \in {"recordFailure", "recordExceeds"}
    BY <1>9 DEF SettleRecordFailure
  <2>2. job.status \in Past
    BY <2>1 DEF SettleInv, SettleLabels
  <2>3. pc[w] = "recordFailure"
    BY <1>0, <1>6, <2>1, <2>2 DEF SettleInv
  <2>4. \A v \in Workers \ {w} : pc'[v] = pc[v]
    BY <1>9, WorkerMoves, Processes DEF WorkerStep
  <2>5. w \in Failing /\ Failing' = Failing \ {w}
    <3>1. pc'[w] # "recordFailure"
      BY <1>9, <2>0 DEF SettleRecordFailure
    <3>2. QED
      BY <2>3, <2>4, <3>1 DEF Failing
  <2>6. job'.retryCount \in {job.retryCount, job.retryCount + 1}
    BY <1>0, <1>9 DEF SettleRecordFailure, CountFailure, Job
  <2>7. IsFiniteSet(Failing') /\ Cardinality(Failing') = Cardinality(Failing) - 1
    BY <1>6, <2>2, <2>5, FS_RemoveElement
  <2>8. job'.retryCount + Cardinality(Failing') <= Sum'
    BY <1>0, <1>4, <1>6, <2>2, <2>6, <2>7
  <2>9. QED
    BY <2>7, <2>8 DEF RetryInv
<1>10. ASSUME NEW w \in Workers, SettleFailExhausted(w)
       PROVE  FALSE
  <2>1. job.status \in Past /\ job.cost > HoldAmount
    BY <1>10 DEF SettleFailExhausted, SettleInv, SettleLabels, BooksInv, ChargeInv
  <2>2. QED
    BY <1>0, <1>6, <2>1
<1>11. ASSUME \A w \in Workers : ~SettleCapture(w) /\ ~SettleRecordFailure(w)
                                     /\ ~SettleFailExhausted(w)
       PROVE  RetryInv'
  <2>1. Failing' \subseteq Failing
    <3>1. ASSUME NEW w \in Workers, pc'[w] = "recordFailure" PROVE pc[w] = "recordFailure"
      <4>0. \A label : GoTo(w, label) => pc'[w] = label
        BY MovesOne, Processes
      <4>1. CASE WorkerStep(w)
        <5>1. CASE QuietStep(w)
          BY <3>1, <4>0, <5>1 DEF QuietStep, WorkerReserve, WorkerLock, WorkerConflict,
                WorkerRequeue, WorkerAck, WorkerUnlock, WorkerRead, WorkerProcess, WorkerPoll,
                SettleRead, SettleReread, QueueCall, ReadJob
        <5>2. CASE WorkerTransition(w) \/ WorkerIndex(w) \/ WorkerRelease(w) \/ SettleMark(w)
          BY <3>1, <4>0, <5>2 DEF WorkerTransition, Transition, WorkerIndex, WorkerRelease,
                ReleaseHold, SettleMark
        <5>3. QED
          BY <1>11, <4>1, <5>1, <5>2 DEF WorkerStep, QuietStep
      <4>2. QED
        BY <3>1, <4>1, WorkerStays
    <3>2. QED
      BY <3>1 DEF Failing
  <2>2. CASE job.status \in Past
    BY <1>7, <1>11, <2>1, <2>2, RowWrites
  <2>3. QED
    BY <1>5, <2>1, <2>2
<1>12. QED
    BY <1>8, <1>9, <1>10, <1>11

\* Each transaction moves the job's money once.
LEMMA MoneyStep ==
    ASSUME IInv, FewTroubles, Next
    PROVE  MoneyInv'
<1> USE DEF IInv, StructInv
<1>0. /\ job.cost \in Nat /\ HoldAmount \in Nat \ {0} /\ OtherHolds \in Nat
      /\ InitialBalance \in Nat /\ balance \in Int /\ frozen \in Nat /\ claims \subseteq Claim
    BY CostType, HoldAssumption DEF TypeOK, HoldTypeOK
<1>1. MoneyInv /\ ChargeInv
    BY DEF BooksInv
<1>2. CASE UNCHANGED holdVars
  <2>1. "capture" \in claims => job.status \in Past
    BY <1>1 DEF ChargeInv, Past
  <2>2. "capture" \in claims => job'.cost = job.cost
    BY <2>1, RelyStep DEF Rely
  <2>3. QED
    BY <1>1, <1>2, <2>2 DEF MoneyInv, holdVars
<1>3. CASE pc["submit"] = "reserve" /\ Reserve /\ UNCHANGED job
  <2>1. "hold" \notin claims /\ ~job.named
    BY <1>3 DEF SubmitInv, NamedInv
  <2>2. "capture" \notin claims
    BY <1>1, <2>1 DEF ChargeInv, NamedInv, Early, Unsubmitted, Dead, Post
  <2>3. /\ claims' = claims \cup {"hold"} /\ frozen = OtherHolds
        /\ balance' = balance - HoldAmount /\ frozen' = frozen + HoldAmount
    BY <1>0, <1>1, <1>3, <2>1 DEF Reserve, Move, MoneyInv
  <2>4. QED
    BY <1>0, <1>1, <2>2, <2>3 DEF MoneyInv
<1>4. ASSUME NEW w \in Workers, SettleCapture(w), Capture(job.cost)
      PROVE  MoneyInv'
  <2>1. pc[w] = "capture" /\ UNCHANGED job
    BY <1>4 DEF SettleCapture
  <2>2. "hold" \in claims /\ "release" \notin claims
    BY <2>1, CapturingNotReleased
  <2>3. CASE "capture" \notin claims
    <3>1. /\ claims' = claims \cup {"capture"} /\ frozen = OtherHolds + HoldAmount
          /\ balance' = balance + (HoldAmount - job.cost) /\ frozen' = frozen - HoldAmount
      BY <1>1, <1>4, <2>2, <2>3 DEF Capture, Move, MoneyInv
    <3>2. balance + frozen = InitialBalance + OtherHolds
      BY <1>0, <1>1, <2>3 DEF MoneyInv
    <3>3. frozen' = OtherHolds /\ balance' + frozen' = InitialBalance + OtherHolds - job'.cost
      BY <1>0, <2>1, <3>1, <3>2
    <3>4. QED
      BY <2>1, <3>1, <3>3 DEF MoneyInv
  <2>4. QED
    BY <1>2, <1>4, <2>3 DEF Capture
<1>5. CASE Releasing /\ Release /\ UNCHANGED job
  <2>1. "capture" \notin claims
    BY <1>5, ReleasingNotCharged
  <2>2. CASE "release" \notin claims /\ "hold" \in claims
    <3>1. /\ claims' = claims \cup {"release"} /\ frozen = OtherHolds + HoldAmount
          /\ balance' = balance + HoldAmount /\ frozen' = frozen - HoldAmount
      BY <1>1, <1>5, <2>1, <2>2 DEF Release, Move, MoneyInv
    <3>2. QED
      BY <1>0, <1>1, <2>1, <2>2, <3>1 DEF MoneyInv
  <2>3. CASE "release" \notin claims /\ "hold" \notin claims
    <3>1. claims' = claims \cup {"release"} /\ balance' = balance + 0 /\ frozen' = frozen - 0
      BY <1>5, <2>3 DEF Release, Move
    <3>2. balance' = balance /\ frozen' = frozen
      BY <1>0, <3>1
    <3>3. QED
      BY <1>1, <1>5, <2>1, <2>3, <3>1, <3>2 DEF MoneyInv
  <2>4. QED
    BY <1>2, <1>5, <2>2, <2>3 DEF Release
<1>6. QED
    BY <1>2, <1>3, <1>4, <1>5, MoneyWrites

-----------------------------------------------------------------------------
(* The theorems                                                            *)

\* The invariant holds before the job is submitted.
LEMMA InitIInv == Init => IInv
<1> SUFFICES ASSUME Init PROVE IInv
    OBVIOUS
<1>0. /\ {"submit", "cancel", "sweep"} \subseteq Process
      /\ \A w \in Workers : w \in Process /\ w \notin {"submit", "cancel", "sweep"}
    BY Processes
<1>1. /\ pc["submit"] = "new" /\ pc["cancel"] = "idle" /\ pc["sweep"] = "idle"
      /\ \A w \in Workers : pc[w] = "idle"
      /\ \A p \in Process \ {"submit"} : pc[p] = "idle"
      /\ pc \in [Process -> Label]
    BY <1>0 DEF Init, Label, SubmitLabel, CancelLabel
<1>2. /\ job.status = "none" /\ ~job.named /\ job.retryCount = 0 /\ job.cost = 0
      /\ job \in Job
    BY JobAssumption DEF Init, Job, Status
<1>3. TypeOK
  <2>1. HoldTypeOK /\ QueueTypeOK
    <3>1. claims = {} /\ balance = InitialBalance /\ frozen = OtherHolds
      BY DEF Init, HoldInit
    <3>2. HoldTypeOK
      BY <3>1, HoldAssumption DEF HoldTypeOK
    <3>3. QueueTypeOK
      BY DEF Init, QueueInit, QueueTypeOK
    <3>4. QED
      BY <3>2, <3>3
  <2>2. troubles \in [Trouble -> 0..MaxTroubles] /\ upstream \in Upstream
    BY JobAssumption DEF Init, Upstream
  <2>3. QED
    BY <1>1, <1>2, <2>1, <2>2 DEF TypeOK, SubmitLabel, CancelLabel, SweepLabel, WorkerLabel
<1>4. NamedInv /\ SubmitInv /\ EndInv
    BY <1>1, <1>2 DEF Init, HoldInit, NamedInv, SubmitInv, EndInv, Early, Progress
<1>5. WorkerInv /\ SettleInv
    BY <1>1, <1>2 DEF WorkerInv, SettleInv, ProviderLabels, SettleLabels, Post
<1>6. QueueInv /\ IndexInv
    BY <1>1 DEF Init, QueueInit, QueueInv, Queued, QueueExcludes, Holding, LockExcludes,
          Processing, IndexInv
<1>7. ReleaseInv /\ ChargeInv
    BY <1>1 DEF Init, HoldInit, ReleaseInv, ChargeInv
<1>8. RetryInv
  <2>1. Failing = {}
    BY <1>1 DEF Failing
  <2>2. troubles["fail"] = 0 /\ troubles["lost"] = 0
    BY DEF Init, Trouble
  <2>3. QED
    BY <1>2, <2>1, <2>2, FS_EmptySet DEF RetryInv
<1>9. MoneyInv
    BY HoldAssumption DEF Init, HoldInit, MoneyInv
<1>10. QED
    BY <1>3, <1>4, <1>5, <1>6, <1>7, <1>8, <1>9 DEF IInv, StructInv, BooksInv

\* Every step keeps the structural part.
LEMMA StructStep ==
    ASSUME StructInv, Next
    PROVE  StructInv'
<1>1. TypeOK'
    BY TypeStep DEF StructInv
<1>2. QED
    BY <1>1, NamedStep, SubmitInvStep, EndStep, WorkerInvStep, SettleInvStep DEF StructInv

\* The invariant is inductive.
THEOREM Invariance == Spec => []IInv
<1>1. ASSUME IInv, [Next]_vars PROVE IInv'
  <2>1. CASE Next
    <3>1. StructInv' /\ QueueInv' /\ IndexInv'
      BY <1>1, <2>1, StructStep, QueueStep, IndexStep DEF IInv, StructInv
    <3>2. ASSUME FewTroubles' PROVE FewTroubles
      BY <1>1, <2>1, <3>2, FewBefore DEF IInv, StructInv
    <3>3. BooksInv'
      BY <1>1, <2>1, <3>2, ReleaseInvStep, ChargeStep, RetryStep, MoneyStep DEF BooksInv
    <3>4. QED
      BY <3>1, <3>3 DEF IInv
  <2>2. CASE UNCHANGED vars
    <3>1. UNCHANGED <<balance, frozen, claims, ready, delayed, active, inflight, lock, job,
                      upstream, pc, troubles>>
      BY <2>2 DEF vars, holdVars, queueVars
    <3>2. TypeOK'
      BY <1>1, <3>1 DEF IInv, StructInv, TypeOK, HoldTypeOK, QueueTypeOK
    <3>3. NamedInv' /\ SubmitInv' /\ EndInv' /\ WorkerInv' /\ SettleInv'
      BY <1>1, <3>1 DEF IInv, StructInv, NamedInv, SubmitInv, EndInv, WorkerInv, SettleInv
    <3>4. QueueInv' /\ IndexInv'
      BY <1>1, <3>1 DEF IInv, QueueInv, QueueExcludes, LockExcludes, Queued, Holding,
            Processing, IndexInv
    <3>5. BooksInv'
      BY <1>1, <3>1 DEF IInv, BooksInv, FewTroubles, ReleaseInv, ChargeInv, RetryInv, Failing,
            MoneyInv
    <3>6. QED
      BY <3>2, <3>3, <3>4, <3>5 DEF IInv, StructInv
  <2>3. QED
    BY <1>1, <2>1, <2>2
<1>2. QED
    BY <1>1, InitIInv, PTL DEF Spec

\* The row, the money, the queue, the provider's job and the labels are well
\* formed, whatever goes wrong.
THEOREM TypeCorrect == Spec => []TypeOK
<1>1. IInv => TypeOK
    BY DEF IInv, StructInv
<1>2. QED
    BY <1>1, Invariance, PTL

\* A hold ends once: no interleaving of Submit, Cancel, the recovery and the
\* workers touches the money frozen for other jobs or charges more than the cost.
THEOREM HoldEndsOnceHolds == Spec => []HoldEndsOnce
<1>1. IInv => HoldEndsOnce
  <2>1. SUFFICES ASSUME IInv, FewTroubles
                 PROVE  /\ frozen >= OtherHolds
                        /\ balance + frozen = InitialBalance + OtherHolds
                                                - (IF "capture" \in claims THEN job.cost ELSE 0)
    BY DEF HoldEndsOnce
  <2>2. MoneyInv
    BY <2>1 DEF IInv, BooksInv
  <2>3. frozen >= OtherHolds
    BY <2>2, HoldAssumption DEF MoneyInv
  <2>4. QED
    BY <2>2, <2>3 DEF MoneyInv
<1>2. QED
    BY <1>1, Invariance, PTL

\* The user is charged exactly for the jobs that MarkBatchImageJobSettled completes.
THEOREM ChargedIsCompletedHolds == Spec => []ChargedIsCompleted
<1>1. IInv => ChargedIsCompleted
    BY DEF IInv, StructInv, BooksInv, SettleInv, ChargeInv, ChargedIsCompleted, Post
<1>2. QED
    BY <1>1, Invariance, PTL

-----------------------------------------------------------------------------
(* The recovery of submissions that died                                   *)

\* The recovery is the only one that writes "stale", to a job it has just failed;
\* a job that has ended gets no provider's name.
LEMMA StaleWrites ==
    ASSUME TypeOK, Next
    PROVE  /\ job'.lastError = "stale" => \/ job.lastError = "stale"
                                          \/ ~job'.named /\ job'.status = "failed"
           /\ job.status \in Dead => job'.named = job.named
<1>0. job \in Job
    BY DEF TypeOK
<1>1. CASE SubmitStep \/ SubmitHeartbeat \/ Resubmit
  <2>1. CASE UpdateProviderSubmit
    BY <1>0, <2>1 DEF UpdateProviderSubmit, CanTransition, Dead, Unsubmitted, Terminal, Job
  <2>2. CASE SubmitFails
    BY <1>0, <2>2 DEF SubmitFails, RecordSubmitFailure, EnqueueJob, Job
  <2>3. CASE ~UpdateProviderSubmit /\ ~SubmitFails
    BY <1>0, <1>1, <2>3 DEF SubmitStep, SubmitCreate, SubmitReserve, SubmitItems, SubmitUpload,
          SubmitProvider, SubmitEnqueue,
          RecordQueueFailure, AbortOrphanProviderJob, SubmitRelease, Transition,
          ReleaseHold, SubmitHeartbeat, Resubmit, Job
  <2>4. QED
    BY <2>1, <2>2, <2>3
<1>2. CASE CancelRead \/ CancelStep \/ DeleteRecord \/ SweepStep
    BY <1>0, <1>2 DEF CancelRead, CancelStep, CancelProvider, CancelTransition, CancelRelease,
          CancelEnqueue, DeleteRecord, SweepStep, SweepList, SweepFail, SweepRelease,
          SweepEnqueue, StaleUnsubmitted, Transition, ReleaseHold, EnqueueJob, Job
<1>3. ASSUME NEW w \in Workers, WorkerStep(w)
      PROVE  /\ job'.lastError = "stale" => job.lastError = "stale"
             /\ job'.named = job.named
  <2>1. CASE QuietStep(w)
    BY <2>1, QuietFrame
  <2>2. CASE \/ WorkerTransition(w) \/ WorkerIndex(w) \/ WorkerRelease(w) \/ SettleMark(w)
             \/ SettleCapture(w)
    BY <1>0, <2>2 DEF WorkerTransition, Transition, WorkerIndex, WorkerRelease, ReleaseHold,
          SettleMark, SettleCapture, Job
  <2>3. CASE SettleRecordFailure(w) \/ SettleFailExhausted(w)
    BY <1>0, <2>3 DEF SettleRecordFailure, SettleFailExhausted, ReleaseHold, CountFailure, Job
  <2>4. QED
    BY <1>3, <2>1, <2>2, <2>3 DEF WorkerStep, QuietStep
<1>4. CASE EnvironmentStep \/ \E p \in Process : Crash(p)
    BY <1>0, <1>4 DEF EnvironmentStep, MoveDelayed, RecoverActive, LockExpires,
          JobGrowsStale, UpstreamEnds, OutputDeleted, Crash, Job
<1>5. QED
    BY <1>1, <1>2, <1>3, <1>4 DEF Next, EnvironmentStep

\* Submit alone starts the provider's job, and is then about to store its name.
LEMMA UpstreamStarts ==
    ASSUME TypeOK, Next, upstream' = "running"
    PROVE  \/ upstream = "running"
           \/ pc["submit"] = "provider" /\ pc'["submit"] = "update"
           \/ Suffer("lost")
<1>1. CASE SubmitStep \/ SubmitHeartbeat \/ Resubmit
  <2>1. CASE SubmitProvider
    <3>1. \A label : GoTo("submit", label) => pc'["submit"] = label
      BY MovesOne, Processes
    <3>2. QED
      BY <2>1, <3>1 DEF SubmitProvider, Happens, Outcome
  <2>2. CASE ~SubmitProvider
    BY <1>1, <2>2 DEF SubmitStep, SubmitCreate, SubmitReserve, SubmitItems, SubmitUpload,
          UpdateProviderSubmit, SubmitEnqueue,
          RecordQueueFailure, AbortOrphanProviderJob, ProviderCancel,
          SubmitRelease, SubmitFails, RecordSubmitFailure, Transition, ReleaseHold, EnqueueJob,
          SubmitHeartbeat, Resubmit
  <2>3. QED
    BY <2>1, <2>2
<1>2. CASE CancelRead \/ CancelStep \/ DeleteRecord \/ SweepStep
    BY <1>2 DEF CancelRead, CancelStep, CancelProvider, CancelTransition, CancelRelease,
          CancelEnqueue, DeleteRecord, SweepStep, SweepList, SweepFail, SweepRelease,
          SweepEnqueue, ProviderCancel, Transition, ReleaseHold, EnqueueJob
<1>3. ASSUME NEW w \in Workers, WorkerStep(w) PROVE UNCHANGED upstream
  <2>1. CASE QuietStep(w)
    BY <2>1, QuietFrame
  <2>2. QED
    BY <1>3, <2>1 DEF WorkerStep, QuietStep, WorkerTransition, Transition, WorkerIndex,
          WorkerRelease, ReleaseHold, SettleMark, SettleCapture, SettleRecordFailure,
          SettleFailExhausted
<1>4. CASE EnvironmentStep \/ \E p \in Process : Crash(p)
    BY <1>4 DEF EnvironmentStep, MoveDelayed, RecoverActive, LockExpires, JobGrowsStale,
          UpstreamEnds, OutputDeleted, Crash
<1>5. QED
    BY <1>1, <1>2, <1>3, <1>4 DEF Next, EnvironmentStep

\* As long as no answer is lost, a provider's job without a name is Submit's.
LEMMA SweepStepKeeps ==
    ASSUME StructInv, SweepInv, Next
    PROVE  SweepInv'
<1> USE DEF StructInv
<1>0. job \in Job /\ Rely
    BY RelyStep DEF TypeOK
<1>1. ASSUME job'.lastError = "stale" PROVE ~job'.named /\ job'.status \in Dead
    BY <1>0, <1>1, StaleWrites DEF SweepInv, Rely, Dead
<1>2. ASSUME troubles'["lost"] + troubles'["fail"] = 0, ~job'.named, upstream' = "running"
      PROVE  pc'["submit"] \in {"update", "abort"}
  <2>1. /\ troubles["lost"] = 0 /\ troubles["fail"] = 0
        /\ ~Suffer("lost") /\ ~Suffer("fail")
    <3>1. \A t \in Trouble : /\ troubles[t] \in Nat /\ troubles'[t] \in Nat
                             /\ troubles[t] <= troubles'[t]
      BY TroublesGrow
    <3>2. ASSUME NEW t \in Trouble, Suffer(t) PROVE troubles'[t] = troubles[t] + 1
      BY <3>2, SufferType
    <3>3. QED
      BY <1>2, <3>1, <3>2 DEF Trouble
  <2>2. ~job.named
    BY <1>0, <1>2 DEF Rely, Job
  <2>3. CASE upstream # "running"
    BY <1>2, <2>1, <2>3, UpstreamStarts
  <2>4. CASE upstream = "running"
    <3>1. pc["submit"] \in {"update", "abort"}
      BY <2>1, <2>2, <2>4 DEF SweepInv
    <3>2. CASE UpdateProviderSubmit
      <4>1. \A label : GoTo("submit", label) => pc'["submit"] = label
        BY MovesOne, Processes
      <4>2. QED
        BY <1>0, <1>2, <3>2, <4>1 DEF UpdateProviderSubmit, Job
    <3>3. CASE AbortOrphanProviderJob
      BY <1>2, <2>1, <2>4, <3>3 DEF AbortOrphanProviderJob, ProviderCancel, Happens, Outcome
    <3>4. CASE /\ SubmitStep \/ SubmitHeartbeat \/ Resubmit
               /\ ~UpdateProviderSubmit /\ ~AbortOrphanProviderJob
      BY <3>1, <3>4 DEF SubmitStep, SubmitCreate, SubmitReserve, SubmitItems, SubmitUpload,
            SubmitProvider, SubmitEnqueue,
            RecordQueueFailure, SubmitRelease, SubmitFails, SubmitHeartbeat, Resubmit
    <3>5. CASE ~(SubmitStep \/ SubmitHeartbeat \/ Resubmit)
      <4>1. pc'["submit"] = pc["submit"]
        BY <2>1, <3>5, CancelMoves, SweepMoves, WorkerMoves, EnvironmentMoves, CrashMoves,
           Processes DEF Next, EnvironmentStep
      <4>2. QED
        BY <3>1, <4>1
    <3>6. QED
      BY <3>2, <3>3, <3>4, <3>5
  <2>5. QED
    BY <2>3, <2>4
<1>3. QED
    BY <1>1, <1>2 DEF SweepInv

\* The recovery never refunds a job that goes on running at the provider: a late
\* submission that loses to it stops the provider's job.
THEOREM SweptIsStoppedHolds == Spec => []SweptIsStopped
<1>1. Init => SweepInv
    BY DEF Init, SweepInv
<1>2. IInv /\ SweepInv /\ [Next]_vars => SweepInv'
  <2>1. CASE UNCHANGED vars
    BY <2>1 DEF vars, SweepInv
  <2>2. QED
    BY <2>1, SweepStepKeeps DEF IInv
<1>3. IInv /\ SweepInv => SweptIsStopped
    BY DEF SweepInv, SweptIsStopped, RunsForNothing
<1>4. QED
    BY <1>1, <1>2, <1>3, Invariance, PTL DEF Spec

-----------------------------------------------------------------------------
(* One failed call                                                         *)

\* A step after which one call at most has failed does not lose an answer or a
\* lease, and only the first failure is counted.
LEMMA OneBefore ==
    ASSUME TypeOK, Next, OneFailure'
    PROVE  /\ OneFailure
           /\ ~Suffer("lost") /\ ~Suffer("delay")
           /\ Suffer("fail") => troubles'["fail"] = 1
           /\ troubles["fail"] = 1 => troubles'["fail"] = 1 /\ ~Suffer("fail")
<1>1. \A t \in Trouble : /\ troubles[t] \in Nat /\ troubles'[t] \in Nat
                         /\ troubles[t] <= troubles'[t]
    BY TroublesGrow
<1>2. ASSUME NEW t \in Trouble, Suffer(t) PROVE troubles'[t] = troubles[t] + 1
    BY <1>2, SufferType
<1>3. /\ troubles["lost"] = 0 /\ troubles["delay"] = 0
      /\ troubles'["lost"] = 0 /\ troubles'["delay"] = 0
      /\ troubles["fail"] \in 0..1 /\ troubles'["fail"] \in 0..1
      /\ troubles["fail"] <= troubles'["fail"]
    BY <1>1 DEF OneFailure, Trouble
<1>4. ~Suffer("lost") /\ ~Suffer("delay")
    BY <1>2, <1>3 DEF Trouble
<1>5. Suffer("fail") => troubles'["fail"] = troubles["fail"] + 1
    BY <1>2 DEF Trouble
<1>6. QED
    BY <1>3, <1>4, <1>5 DEF OneFailure

\* One failed call leaves the books and the queue in order.
LEMMA OneIsFew ==
    ASSUME IInv, OneFailure
    PROVE  FewTroubles /\ QueueExcludes
<1>1. \A t \in Trouble : troubles[t] \in Nat
    BY DEF IInv, StructInv, TypeOK
<1>2. troubles["delay"] = 0
    BY <1>1 DEF OneFailure, Trouble
<1>3. FewTroubles
    BY <1>1, JobAssumption DEF OneFailure, FewTroubles, Trouble
<1>4. QED
    BY <1>2, <1>3 DEF IInv, QueueInv

\* What has ended stays ended.
LEMMA EndedStays ==
    ASSUME StructInv, Next, Ended
    PROVE  Ended'
BY RelyStep DEF StructInv, Rely, Ended

\* A release is done, or its call was the one that failed.
LEMMA ReleaseAnswers ==
    ASSUME IInv, Next, OneFailure', Releasing,
           NEW p \in Process, NEW s, NEW e, ReleaseHold(p, s, e)
    PROVE  \/ pc'[p] = s /\ "release" \in claims'
           \/ pc'[p] = e /\ troubles'["fail"] = 1 /\ UNCHANGED holdVars
<1> USE DEF IInv, StructInv
<1>1. OneFailure /\ ~Suffer("lost") /\ (Suffer("fail") => troubles'["fail"] = 1)
    BY OneBefore
<1>2. CanRelease
  <2>1. "capture" \notin claims /\ MoneyInv
    BY <1>1, OneIsFew, ReleasingNotCharged DEF BooksInv
  <2>2. \/ "hold" \notin claims \/ "release" \in claims \/ frozen = OtherHolds + HoldAmount
    BY <2>1 DEF MoneyInv
  <2>3. QED
    BY <2>2, HoldAssumption DEF CanRelease
<1>3. \A label : GoTo(p, label) => pc'[p] = label
    BY MovesOne
<1>4. PICK o \in Outcome :
         /\ Happens(o)
         /\ IF o # "fail" /\ CanRelease THEN Release ELSE UNCHANGED holdVars
         /\ GoTo(p, IF o = "ok" /\ CanRelease THEN s ELSE e)
    BY DEF ReleaseHold
<1>5. CASE o = "ok"
  <2>1. Release /\ pc'[p] = s
    BY <1>2, <1>3, <1>4, <1>5
  <2>2. QED
    BY <2>1 DEF Release, Move, holdVars
<1>6. CASE o = "fail"
    BY <1>1, <1>3, <1>4, <1>6 DEF Happens
<1>7. QED
    BY <1>1, <1>4, <1>5, <1>6 DEF Outcome, Happens

\* Only a worker moves a job into and out of settling, and it has the job alone.
LEMMA SettlingStays ==
    ASSUME IInv, OneFailure, Next, NEW w \in Workers, Holding(w), ~WorkerStep(w)
    PROVE  job'.status = "settling" <=> job.status = "settling"
<1> USE DEF IInv, StructInv
<1>0. job \in Job
    BY DEF TypeOK
<1>1. CASE UNCHANGED job
    BY <1>1
<1>2. CASE SubmitStep \/ SubmitHeartbeat \/ Resubmit
  <2>1. CASE SubmitFails
    BY <1>0, <2>1 DEF SubmitFails, RecordSubmitFailure, EnqueueJob, NamedInv, Early,
          Unsubmitted, Dead, Job
  <2>2. CASE SubmitUpload
    BY <1>0, <2>2 DEF SubmitUpload, Transition, CanTransition, Terminal, Job
  <2>3. CASE UpdateProviderSubmit
    BY <1>0, <2>3 DEF UpdateProviderSubmit, CanTransition, Terminal, Job
  <2>4. CASE SubmitCreate \/ SubmitEnqueue \/ RecordQueueFailure \/ SubmitHeartbeat
    BY <1>0, <2>4 DEF SubmitCreate, SubmitEnqueue,
          RecordQueueFailure, SubmitHeartbeat, SubmitInv, Job
  <2>5. QED
    BY <1>1, <1>2, <2>1, <2>2, <2>3, <2>4 DEF SubmitStep, SubmitReserve, SubmitItems,
          SubmitProvider, AbortOrphanProviderJob, SubmitRelease, ReleaseHold, Resubmit
<1>3. CASE CancelRead \/ CancelStep \/ DeleteRecord \/ SweepStep
    BY <1>0, <1>1, <1>3 DEF CancelRead, CancelStep, CancelProvider, CancelTransition,
          CancelRelease, CancelEnqueue, DeleteRecord, SweepStep, SweepList, SweepFail,
          StaleUnsubmitted, Unsubmitted, SweepRelease, SweepEnqueue, Transition, CanTransition,
          Terminal, ReleaseHold, EnqueueJob, Job
<1>4. ASSUME NEW v \in Workers, WorkerStep(v) PROVE UNCHANGED job
  <2>1. ~Holding(v)
    BY <1>4, OneIsFew DEF QueueExcludes
  <2>2. QuietStep(v)
    BY <1>4, <2>1 DEF Holding, WorkerStep, QuietStep, WorkerRelease, WorkerTransition,
          WorkerIndex, SettleCapture, SettleMark, SettleRecordFailure, SettleFailExhausted
  <2>3. QED
    BY <2>2, QuietFrame
<1>5. CASE EnvironmentStep \/ \E p \in Process : Crash(p)
    BY <1>0, <1>5 DEF EnvironmentStep, MoveDelayed, RecoverActive, LockExpires,
          JobGrowsStale, UpstreamEnds, OutputDeleted, Crash, Job
<1>6. QED
    BY <1>1, <1>2, <1>3, <1>4, <1>5 DEF Next, EnvironmentStep

\* What a worker alone with the job knows of it stays true.
LEMMA RoundStep ==
    ASSUME IInv, RoundInv, Next, OneFailure'
    PROVE  RoundInv'
<1> USE DEF IInv, StructInv
<1>0. job \in Job /\ Rely /\ OneFailure
    BY RelyStep, OneBefore DEF TypeOK
<1>1. Ended => Ended'
    BY EndedStays
<1>2. ASSUME NEW w \in Workers, ~WorkerStep(w) PROVE Round(w)'
  <2>1. pc'[w] \in {"idle", pc[w]}
    BY <1>2, WorkerStays
  <2>2. CASE Holding(w)
    <3>1. job'.status = "settling" <=> job.status = "settling"
      BY <1>0, <1>2, <2>2, SettlingStays
    <3>2. QED
      BY <1>0, <1>1, <2>1, <3>1 DEF RoundInv, Round, Rely, AloneLabels
  <2>3. QED
    BY <2>1, <2>2 DEF Holding, Round, AloneLabels
<1>3. ASSUME NEW w \in Workers, WorkerStep(w) PROVE Round(w)'
  <2>0. /\ \A label : GoTo(w, label) => pc'[w] = label
        /\ Round(w)
    BY MovesOne, Processes DEF RoundInv
  <2>1. CASE QuietStep(w)
    <3>1. UNCHANGED <<claims, job>>
      BY <2>1, QuietFrame
    <3>2. \/ pc'[w] \notin {"process", "exhausted", "reread", "ack"} \cup AloneLabels
          \/ pc'[w] = "process" /\ job.status # "settling"
          \/ pc'[w] \in AloneLabels /\ job.status = "settling"
          \/ pc'[w] = "ack" /\ job.status \in {"completed", "output_deleted"}
          \/ pc'[w] = "ack" /\ job.status = "settling" /\ pc[w] = "process"
          \/ pc'[w] = "ack" /\ job.status \in Terminal /\ pc[w] = "reread"
      BY <2>0, <2>1 DEF QuietStep, WorkerReserve, WorkerLock, WorkerConflict,
            WorkerRequeue, WorkerAck, WorkerUnlock, WorkerRead, WorkerProcess, WorkerPoll,
            SettleRead, SettleReread, QueueCall, ReadJob, AloneLabels, Terminal
    <3>3. job.status \in {"completed", "output_deleted"} => Ended
      BY DEF SettleInv, Ended
    <3>4. QED
      BY <2>0, <3>1, <3>2, <3>3 DEF Round, AloneLabels, Terminal, Ended
  <2>2. CASE WorkerTransition(w)
    <3>1. \/ pc'[w] \in {"requeue", "index", "release"}
          \/ pc'[w] = "reread" /\ pc[w] = "exhausted"
      BY <2>2, WorkerTransitions DEF TransitionEnd
    <3>2. QED
      BY <1>0, <2>0, <3>1 DEF Round, AloneLabels, Rely
  <2>3. CASE WorkerIndex(w)
    <3>1. pc'[w] \in {"requeue", "toSettling", "toFailed"}
      BY <2>0, <2>3 DEF WorkerIndex
    <3>2. QED
      BY <3>1 DEF Round, AloneLabels
  <2>4. CASE WorkerRelease(w)
    <3>1. Releasing
      BY <2>4, Processes DEF WorkerRelease, Releasing
    <3>2. \/ pc'[w] = "ack" /\ "release" \in claims'
          \/ pc'[w] = "requeue"
      BY <2>4, <3>1, ReleaseAnswers, Processes DEF WorkerRelease
    <3>3. QED
      BY <3>2 DEF Round, AloneLabels, Ended
  <2>5. CASE SettleCapture(w)
    <3>1. UNCHANGED job /\ pc[w] = "capture" /\ pc'[w] \in {"markSettled", "recordFailure"}
      BY <2>0, <2>5 DEF SettleCapture
    <3>2. QED
      BY <2>0, <3>1 DEF Round, AloneLabels
  <2>6. CASE SettleMark(w)
    <3>1. pc[w] = "markSettled" /\ pc'[w] \in {"ack", "requeue"}
      BY <2>0, <2>6 DEF SettleMark
    <3>2. Ended
      BY <3>1 DEF SettleInv, Ended
    <3>3. QED
      BY <1>1, <3>1, <3>2 DEF Round, AloneLabels
  <2>7. CASE SettleRecordFailure(w)
    <3>1. /\ pc[w] \in {"recordFailure", "recordExceeds"} /\ job'.status = job.status
          /\ pc'[w] \in {"reread", "requeue", "failExhausted"}
      BY <1>0, <2>0, <2>7 DEF SettleRecordFailure, CountFailure, Job
    <3>2. QED
      BY <2>0, <3>1 DEF Round, AloneLabels
  <2>8. CASE SettleFailExhausted(w)
    <3>1. CASE pc[w] = "failExhausted"
      <4>1. ReleaseHold(w, "exhausted", "recordRelease") /\ UNCHANGED job
        BY <2>8, <3>1 DEF SettleFailExhausted, ReleaseHold
      <4>2. Releasing
        BY <3>1 DEF Releasing
      <4>3. \/ pc'[w] = "exhausted" /\ "release" \in claims'
            \/ pc'[w] = "recordRelease"
        BY <4>1, <4>2, ReleaseAnswers, Processes
      <4>4. QED
        BY <2>0, <3>1, <4>1, <4>3 DEF Round, AloneLabels
    <3>2. CASE pc[w] = "recordRelease"
      <4>1. pc'[w] = "reread" /\ job'.status = job.status
        BY <1>0, <2>0, <2>8, <3>2 DEF SettleFailExhausted, CountFailure, Job
      <4>2. QED
        BY <2>0, <3>2, <4>1 DEF Round, AloneLabels
    <3>3. QED
      BY <2>8, <3>1, <3>2 DEF SettleFailExhausted
  <2>9. QED
    BY <1>3, <2>1, <2>2, <2>3, <2>4, <2>5, <2>6, <2>7, <2>8 DEF WorkerStep, QuietStep
<1>4. QED
    BY <1>2, <1>3 DEF RoundInv

\* What Submit has done when it records that it failed.
LEMMA GiveUpStep ==
    ASSUME IInv, GiveUpInv, Next, OneFailure'
    PROVE  GiveUpInv'
<1> USE DEF IInv, StructInv
<1>0. Rely /\ \A label : GoTo("submit", label) => pc'["submit"] = label
    BY RelyStep, MovesOne, Processes
<1>1. /\ ~Suffer("lost") /\ (Suffer("fail") => troubles'["fail"] = 1)
      /\ troubles["fail"] = 1 => troubles'["fail"] = 1
    BY OneBefore
<1>2. ASSUME pc'["submit"] \notin {"recordFailed", "recordRelease", "retry", "recordQueue"}
      PROVE  GiveUpInv'
    BY <1>2 DEF GiveUpInv
<1>3. ASSUME pc'["submit"] = pc["submit"] PROVE GiveUpInv'
  <2>1. pc["submit"] = "recordFailed" /\ "hold" \notin claims => "hold" \notin claims'
    BY MoneyWrites DEF holdVars, Capture, Release, Move
  <2>2. QED
    BY <1>0, <1>1, <1>3, <2>1 DEF GiveUpInv, Rely
<1>4. CASE SubmitStep \/ SubmitHeartbeat \/ Resubmit
  <2>1. CASE SubmitReserve
    <3>1. pc["submit"] = "reserve" /\ pc'["submit"] \in {"items", "recordFailed"}
      BY <1>0, <2>1 DEF SubmitReserve
    <3>2. pc'["submit"] = "recordFailed" => UNCHANGED holdVars
      BY <1>0, <1>1, <2>1 DEF SubmitReserve, Happens, Outcome
    <3>3. QED
      BY <3>1, <3>2 DEF GiveUpInv, SubmitInv, holdVars
  <2>2. CASE SubmitRelease
    <3>1. Releasing
      BY <2>2 DEF SubmitRelease, Releasing
    <3>2. \/ pc'["submit"] \in {"recordFailed", "done"} /\ "release" \in claims'
          \/ pc'["submit"] = "recordRelease" /\ troubles'["fail"] = 1
      BY <2>2, <3>1, ReleaseAnswers, Processes DEF SubmitRelease
    <3>3. QED
      BY <3>2 DEF GiveUpInv
  <2>3. CASE SubmitFails
    <3>1. \/ pc["submit"] = "recordRelease" /\ pc'["submit"] = "retry"
          \/ pc'["submit"] = "done"
      BY <1>0, <2>3 DEF SubmitFails, RecordSubmitFailure, EnqueueJob
    <3>2. QED
      BY <1>1, <3>1 DEF GiveUpInv
  <2>4. CASE SubmitEnqueue
    <3>1. \/ pc'["submit"] = "done"
          \/ pc'["submit"] = "recordQueue" /\ troubles'["fail"] = 1
      BY <1>0, <1>1, <2>4 DEF SubmitEnqueue, Happens, Outcome
    <3>2. QED
      BY <3>1 DEF GiveUpInv
  <2>5. CASE ~SubmitReserve /\ ~SubmitRelease /\ ~SubmitFails /\ ~SubmitEnqueue
    BY <1>0, <1>2, <1>3, <1>4, <2>5 DEF SubmitStep, SubmitCreate, SubmitItems, SubmitUpload,
          SubmitProvider, UpdateProviderSubmit, RecordQueueFailure, AbortOrphanProviderJob,
          Transition, SubmitHeartbeat, Resubmit
  <2>6. QED
    BY <2>1, <2>2, <2>3, <2>4, <2>5
<1>5. CASE ~(SubmitStep \/ SubmitHeartbeat \/ Resubmit)
  <2>1. pc'["submit"] = pc["submit"]
    BY <1>1, <1>5, CancelMoves, SweepMoves, WorkerMoves, EnvironmentMoves, CrashMoves,
       Processes DEF Next, EnvironmentStep
  <2>2. QED
    BY <1>3, <2>1
<1>6. QED
    BY <1>4, <1>5

\* Only an acknowledgement takes the job out of the queue.
LEMMA QueuedStays ==
    ASSUME IInv, RoundInv, Next, Queued, ~Ended'
    PROVE  Queued'
<1> USE DEF IInv, StructInv
<1>0. ready \in Nat /\ delayed \in BOOLEAN /\ active \in BOOLEAN
    BY DEF TypeOK, QueueTypeOK
<1>1. CASE UNCHANGED <<ready, delayed, active>>
    BY <1>1 DEF Queued
<1>2. CASE UNCHANGED queueVars \/ Enqueue \/ MoveDueDelayed \/ RecoverActive \/ LockExpires
    BY <1>0, <1>2 DEF queueVars, Enqueue, MoveDueDelayed, RecoverActive, RecoverStaleActive,
          LockExpires, JobLockExpires, Queued
<1>3. ASSUME NEW w \in Workers,
             \/ WorkerReserve(w) \/ WorkerLock(w) \/ WorkerConflict(w)
             \/ WorkerRequeue(w) \/ WorkerUnlock(w)
      PROVE  Queued'
    BY <1>0, <1>3 DEF WorkerReserve, WorkerLock, WorkerConflict, WorkerRequeue, WorkerUnlock,
          QueueCall, ReserveJob, TryAcquireJobLock, RequeueAfter, ReleaseJobLock, queueVars,
          Queued
<1>4. ASSUME NEW w \in Workers, WorkerAck(w) PROVE FALSE
  <2>1. Ended
    BY <1>4 DEF WorkerAck, QueueCall, RoundInv, Round
  <2>2. QED
    BY <2>1, EndedStays
<1>5. QED
    BY <1>2, <1>3, <1>4, QueueWrites

\* A call of Enqueue that does not fail leaves the job in the queue.
LEMMA EnqueueQueues ==
    ASSUME IInv, NEW p, NEW next, EnqueueJob(p, next), ~Suffer("fail")
    PROVE  Queued'
<1>1. Enqueue
    BY DEF EnqueueJob, Happens
<1>2. ready \in Nat /\ (inflight => Queued)
    BY DEF IInv, StructInv, TypeOK, QueueTypeOK, QueueInv
<1>3. QED
    BY <1>1, <1>2 DEF Enqueue, Queued

\* Before it gets further than submitted, a job is left to somebody.
LEMMA EarlyIsHanded ==
    ASSUME IInv, GiveUpInv, Next, OneFailure', ~Ended,
           "hold" \in claims \/ pc["submit"] = "reserve",
           job.status \in Early \cup {"submitted"}
    PROVE  \/ job'.status \in Early \cup {"submitted"}
           \/ pc'["cancel"] = "release"
           \/ pc'["sweep"] = "release"
           \/ pc'["submit"] = "retry" /\ troubles'["fail"] = 1
           \/ Queued /\ Queued'
<1> USE DEF IInv, StructInv
<1>0. job \in Job /\ OneFailure /\ ~Suffer("lost")
    BY OneBefore DEF TypeOK
<1>1. CASE job'.status = job.status
    BY <1>1
<1>2. CASE SubmitStep \/ SubmitHeartbeat \/ Resubmit
  <2>1. CASE SubmitFails
    <3>1. pc["submit"] # "recordFailed"
      BY DEF GiveUpInv, Ended
    <3>2. CASE pc["submit"] = "recordRelease" /\ RecordSubmitFailure(FALSE, "retry")
      <4>1. pc'["submit"] = "retry"
        BY <3>2, MovesOne, Processes DEF RecordSubmitFailure
      <4>2. QED
        BY <3>2, <4>1, OneBefore DEF GiveUpInv
    <3>3. QED
      BY <1>1, <2>1, <3>1, <3>2 DEF SubmitFails, EnqueueJob
  <2>2. CASE SubmitCreate \/ SubmitUpload \/ UpdateProviderSubmit \/ SubmitEnqueue
             \/ RecordQueueFailure \/ SubmitHeartbeat
    BY <1>0, <2>2 DEF SubmitCreate, SubmitUpload, UpdateProviderSubmit, SubmitEnqueue,
          RecordQueueFailure, SubmitHeartbeat, Transition, Early, Unsubmitted, Job
  <2>3. QED
    BY <1>1, <1>2, <2>1, <2>2 DEF SubmitStep, SubmitReserve, SubmitItems,
          SubmitProvider, AbortOrphanProviderJob, SubmitRelease, ReleaseHold, Resubmit
<1>3. CASE CancelRead \/ CancelStep \/ DeleteRecord
  <2>1. CASE CancelTransition
    <3>1. TransitionEnd("cancel", "cancelled", "release", "idle", "idle")
      BY <2>1, TransitionEnds, Processes DEF CancelTransition
    <3>2. QED
      BY <1>0, <1>1, <3>1 DEF TransitionEnd
  <2>2. QED
    BY <1>0, <1>1, <1>3, <2>1 DEF CancelRead, CancelStep, CancelProvider, CancelRelease,
          CancelEnqueue, DeleteRecord, ReleaseHold, EnqueueJob, Job
<1>4. CASE SweepStep
  <2>1. CASE SweepFail
    <3>1. \A label : GoTo("sweep", label) => pc'["sweep"] = label
      BY MovesOne, Processes
    <3>2. QED
      BY <1>0, <1>1, <2>1, <3>1 DEF SweepFail, Happens, Outcome
  <2>2. QED
    BY <1>1, <1>4, <2>1 DEF SweepStep, SweepList, SweepRelease, SweepEnqueue, ReleaseHold,
          EnqueueJob
<1>5. ASSUME NEW w \in Workers, WorkerStep(w)
      PROVE  job'.status = job.status \/ (Queued /\ Queued')
  <2>1. CASE QuietStep(w)
    BY <2>1, QuietFrame
  <2>2. CASE ~QuietStep(w)
    <3>1. Holding(w) /\ UNCHANGED queueVars
      BY <1>5, <2>2 DEF Holding, WorkerStep, QuietStep, WorkerRelease, WorkerTransition,
            Transition, WorkerIndex, SettleCapture, SettleMark, SettleRecordFailure,
            SettleFailExhausted, ReleaseHold
    <3>2. Queued
      BY <1>0, <3>1, OneIsFew DEF QueueExcludes, Queued
    <3>3. QED
      BY <3>1, <3>2 DEF queueVars, Queued
  <2>3. QED
    BY <2>1, <2>2
<1>6. CASE EnvironmentStep \/ \E p \in Process : Crash(p)
    BY <1>0, <1>1, <1>6 DEF EnvironmentStep, MoveDelayed, RecoverActive, LockExpires,
          JobGrowsStale, UpstreamEnds, OutputDeleted, Crash, Job, Early, Unsubmitted
<1>7. QED
    BY <1>1, <1>2, <1>3, <1>4, <1>5, <1>6 DEF Next, EnvironmentStep

\* Submit alone makes a job submitted and writes the error of a submitted job.
LEMMA SubmittedWrites ==
    ASSUME TypeOK, SettleInv, Next, job'.status = "submitted"
    PROVE  /\ job.status = "submitted" \/ UpdateProviderSubmit
           /\ job'.lastError = job.lastError \/ RecordQueueFailure
<1>0. job \in Job
    BY DEF TypeOK
<1>1. CASE SubmitStep \/ SubmitHeartbeat \/ Resubmit
  <2>1. CASE SubmitFails
    BY <1>0, <2>1 DEF SubmitFails, RecordSubmitFailure, EnqueueJob, Job
  <2>2. CASE SubmitUpload
    BY <1>0, <2>2 DEF SubmitUpload, Transition, Job
  <2>3. CASE UpdateProviderSubmit \/ RecordQueueFailure
    BY <1>0, <2>3 DEF UpdateProviderSubmit, RecordQueueFailure, Job
  <2>4. CASE ~SubmitFails /\ ~SubmitUpload /\ ~UpdateProviderSubmit /\ ~RecordQueueFailure
    BY <1>0, <1>1, <2>4 DEF SubmitStep, SubmitCreate, SubmitReserve, SubmitItems,
          SubmitProvider, SubmitEnqueue, AbortOrphanProviderJob, SubmitRelease, ReleaseHold,
          SubmitHeartbeat, Resubmit, Job
  <2>5. QED
    BY <2>1, <2>2, <2>3, <2>4
<1>2. CASE CancelRead \/ CancelStep \/ DeleteRecord \/ SweepStep
    BY <1>0, <1>2 DEF CancelRead, CancelStep, CancelProvider, CancelTransition, CancelRelease,
          CancelEnqueue, DeleteRecord, SweepStep, SweepList, SweepFail, SweepRelease,
          SweepEnqueue, Transition, ReleaseHold, EnqueueJob, Job
<1>3. ASSUME NEW w \in Workers, WorkerStep(w)
      PROVE  job.status = "submitted" /\ job'.lastError = job.lastError
  <2>1. CASE QuietStep(w)
    BY <2>1, QuietFrame
  <2>2. CASE WorkerTransition(w)
    <3>1. \E to \in {"running", "indexing", "settling", "failed", "cancelled"} :
             job' \in {job, [job EXCEPT !.status = to, !.stale = FALSE]}
      BY <2>2, WorkerTransitions DEF TransitionEnd
    <3>2. QED
      BY <1>0, <3>1 DEF Job
  <2>3. CASE WorkerIndex(w) \/ WorkerRelease(w) \/ SettleMark(w) \/ SettleCapture(w)
    BY <1>0, <2>3 DEF WorkerIndex, WorkerRelease, ReleaseHold, SettleMark, SettleCapture, Job
  <2>4. CASE SettleRecordFailure(w) \/ SettleFailExhausted(w)
    <3>1. job.status \in Past
      BY <2>4 DEF SettleRecordFailure, SettleFailExhausted, SettleInv, SettleLabels
    <3>2. job'.status = job.status
      BY <1>0, <2>4 DEF SettleRecordFailure, SettleFailExhausted, ReleaseHold, CountFailure, Job
    <3>3. QED
      BY <3>1, <3>2 DEF Past, Post, Dead
  <2>5. QED
    BY <1>3, <2>1, <2>2, <2>3, <2>4 DEF WorkerStep, QuietStep
<1>4. CASE EnvironmentStep \/ \E p \in Process : Crash(p)
    BY <1>0, <1>4 DEF EnvironmentStep, MoveDelayed, RecoverActive, LockExpires,
          JobGrowsStale, UpstreamEnds, OutputDeleted, Crash, Job
<1>5. QED
    BY <1>1, <1>2, <1>3, <1>4 DEF Next, EnvironmentStep

\* A job becomes submitted in the hands of Submit.
LEMMA SubmittedBySubmit ==
    ASSUME IInv, Next, OneFailure', job.status \in Early, job'.status = "submitted"
    PROVE  Unqueued'
<1> USE DEF IInv, StructInv
<1>0. job \in Job /\ ~Suffer("lost")
    BY OneBefore DEF TypeOK
<1>1. UpdateProviderSubmit
    BY SubmittedWrites DEF Early, Unsubmitted
<1>2. \A label : GoTo("submit", label) => pc'["submit"] = label
    BY MovesOne, Processes
<1>3. pc'["submit"] = "enqueue"
    BY <1>0, <1>1, <1>2 DEF UpdateProviderSubmit, Happens, Outcome, Early, Unsubmitted
<1>4. QED
    BY <1>3 DEF Unqueued

\* Submit queues the job it has submitted, or leaves QUEUE_FAILED on the row.
LEMMA UnqueuedStep ==
    ASSUME IInv, GiveUpInv, Next, OneFailure', Unqueued, job'.status = "submitted"
    PROVE  Unqueued' \/ Queued'
<1> USE DEF IInv, StructInv
<1>0. job \in Job /\ ~Suffer("lost") /\ (troubles["fail"] = 1 => ~Suffer("fail"))
    BY OneBefore DEF TypeOK
<1>1. \A label : GoTo("submit", label) => pc'["submit"] = label
    BY MovesOne, Processes
<1>2. CASE RecordQueueFailure
  <2>1. ~Suffer("fail")
    BY <1>0, <1>2 DEF RecordQueueFailure, GiveUpInv
  <2>2. job'.lastError = "submit"
    BY <1>0, <1>2, <2>1 DEF RecordQueueFailure, Happens, Job
  <2>3. QED
    BY <2>2 DEF Unqueued
<1>3. CASE SubmitEnqueue
  <2>1. CASE pc'["submit"] = "recordQueue"
    BY <2>1 DEF Unqueued
  <2>2. CASE Enqueue
    BY <2>2 DEF Enqueue, Queued, TypeOK, QueueTypeOK, QueueInv
  <2>3. QED
    BY <1>1, <1>3, <2>1, <2>2 DEF SubmitEnqueue, Outcome
<1>4. CASE ~RecordQueueFailure /\ ~SubmitEnqueue
  <2>1. job'.lastError = job.lastError
    BY <1>4, SubmittedWrites
  <2>2. CASE pc["submit"] \in {"enqueue", "recordQueue"}
    <3>1. pc'["submit"] = pc["submit"]
      BY <1>0, <1>4, <2>2, CancelMoves, SweepMoves, WorkerMoves, EnvironmentMoves, CrashMoves,
         Processes DEF Next, EnvironmentStep, SubmitStep, SubmitCreate, SubmitReserve,
         SubmitItems, SubmitUpload, SubmitProvider, UpdateProviderSubmit,
         AbortOrphanProviderJob, SubmitRelease, SubmitFails, SubmitHeartbeat, Resubmit
    <3>2. QED
      BY <2>2, <3>1 DEF Unqueued
  <2>3. QED
    BY <2>1, <2>2 DEF Unqueued
<1>5. QED
    BY <1>2, <1>3, <1>4

\* Who has the job hands it on, or ends its hold.
LEMMA HandsStep ==
    ASSUME IInv, HandsInv, GiveUpInv, RoundInv, Next, OneFailure'
    PROVE  HandsInv'
<1> USE DEF IInv, StructInv
<1>0. Rely /\ OneFailure /\ ~Suffer("lost")
    BY RelyStep, OneBefore
<1>1. SUFFICES ASSUME ~Ended', "hold" \in claims' \/ pc'["submit"] = "reserve"
               PROVE  HadBy'
    BY DEF HandsInv
<1>2. ~Ended /\ "release" \notin claims'
    BY <1>1, EndedStays DEF Ended
<1>3. ASSUME Suffer("fail") PROVE troubles'["fail"] = 1
    BY <1>3, OneBefore
<1>4. ASSUME troubles["fail"] = 1 PROVE troubles'["fail"] = 1 /\ ~Suffer("fail")
    BY <1>4, OneBefore
<1>5. \/ HadBy /\ ("hold" \in claims \/ pc["submit"] = "reserve")
      \/ SubmitCreate
  <2>1. "hold" \in claims' => "hold" \in claims \/ pc["submit"] = "reserve"
    BY MoneyWrites DEF holdVars, Capture, Release, Move
  <2>2. CASE pc'["submit"] = "reserve" /\ pc["submit"] # "reserve"
    <3>1. SubmitStep \/ SubmitHeartbeat \/ Resubmit
      BY <1>0, <2>2, CancelMoves, SweepMoves, WorkerMoves, EnvironmentMoves, CrashMoves,
         Processes DEF Next, EnvironmentStep
    <3>2. \A label : GoTo("submit", label) => pc'["submit"] = label
      BY MovesOne, Processes
    <3>3. QED
      BY <2>2, <3>1, <3>2 DEF SubmitStep, SubmitReserve, SubmitItems, SubmitUpload,
            SubmitProvider, UpdateProviderSubmit, SubmitEnqueue,
            RecordQueueFailure, AbortOrphanProviderJob,
            SubmitRelease, SubmitFails, RecordSubmitFailure, Transition, ReleaseHold,
            EnqueueJob, SubmitHeartbeat, Resubmit
  <2>3. QED
    BY <1>1, <1>2, <2>1, <2>2 DEF HandsInv
<1>6. CASE SubmitCreate
  <2>1. job'.status = "created"
    BY <1>6 DEF SubmitCreate, TypeOK, Job
  <2>2. QED
    BY <2>1 DEF HadBy, Early, Unsubmitted
<1>7. CASE Queued
    BY <1>1, <1>7, QueuedStays DEF HadBy
<1>8. CASE /\ job.status \in Early \/ Unqueued
           /\ "hold" \in claims \/ pc["submit"] = "reserve"
  <2>1. job.status \in Early \cup {"submitted"}
    BY <1>8 DEF Unqueued
  <2>2. CASE job'.status = "submitted" /\ job.status \in Early
    BY <2>2, SubmittedBySubmit DEF HadBy
  <2>3. CASE job'.status = "submitted" /\ Unqueued
    BY <2>3, UnqueuedStep DEF HadBy
  <2>4. CASE job'.status # "submitted"
    BY <1>2, <1>8, <2>1, <2>4, EarlyIsHanded DEF HadBy
  <2>5. QED
    BY <1>8, <2>2, <2>3, <2>4
<1>9. CASE pc["cancel"] = "release" \/ (pc["cancel"] = "enqueue" /\ troubles["fail"] = 1)
  <2>1. CASE CancelRelease
    <3>1. Releasing
      BY <2>1, Processes DEF CancelRelease, Releasing
    <3>2. pc'["cancel"] = "enqueue" /\ troubles'["fail"] = 1
      BY <1>2, <2>1, <3>1, ReleaseAnswers, Processes DEF CancelRelease
    <3>3. QED
      BY <3>2 DEF HadBy
  <2>2. CASE CancelEnqueue
    <3>1. ~Suffer("fail") /\ EnqueueJob("cancel", "idle")
      BY <1>4, <1>9, <2>2 DEF CancelEnqueue
    <3>2. QED
      BY <3>1, EnqueueQueues DEF HadBy
  <2>3. CASE ~CancelRelease /\ ~CancelEnqueue
    <3>1. pc'["cancel"] = pc["cancel"]
      BY <1>0, <1>9, <2>3, SubmitMoves, SweepMoves, WorkerMoves, EnvironmentMoves, CrashMoves,
         Processes DEF Next, EnvironmentStep, CancelRead, CancelStep, CancelProvider,
         CancelTransition, DeleteRecord
    <3>2. QED
      BY <1>4, <1>9, <3>1 DEF HadBy
  <2>4. QED
    BY <2>1, <2>2, <2>3
<1>10. CASE pc["sweep"] = "release" \/ (pc["sweep"] = "enqueue" /\ troubles["fail"] = 1)
  <2>1. CASE SweepRelease
    <3>1. Releasing
      BY <2>1, Processes DEF SweepRelease, Releasing
    <3>2. pc'["sweep"] = "enqueue" /\ troubles'["fail"] = 1
      BY <1>2, <2>1, <3>1, ReleaseAnswers, Processes DEF SweepRelease
    <3>3. QED
      BY <3>2 DEF HadBy
  <2>2. CASE SweepEnqueue
    <3>1. ~Suffer("fail") /\ EnqueueJob("sweep", "idle")
      BY <1>4, <1>10, <2>2 DEF SweepEnqueue
    <3>2. QED
      BY <3>1, EnqueueQueues DEF HadBy
  <2>3. CASE ~SweepRelease /\ ~SweepEnqueue
    <3>1. pc'["sweep"] = pc["sweep"]
      BY <1>0, <1>10, <2>3, SubmitMoves, CancelMoves, WorkerMoves, EnvironmentMoves, CrashMoves,
         Processes DEF Next, EnvironmentStep, SweepStep, SweepList, SweepFail
    <3>2. QED
      BY <1>4, <1>10, <3>1 DEF HadBy
  <2>4. QED
    BY <2>1, <2>2, <2>3
<1>11. CASE \/ pc["submit"] \in {"release", "releaseOnly"}
            \/ pc["submit"] \in {"recordRelease", "retry"} /\ troubles["fail"] = 1
  <2>1. CASE SubmitRelease
    <3>1. Releasing
      BY <2>1 DEF SubmitRelease, Releasing
    <3>2. pc'["submit"] = "recordRelease" /\ troubles'["fail"] = 1
      BY <1>2, <2>1, <3>1, ReleaseAnswers, Processes DEF SubmitRelease
    <3>3. QED
      BY <3>2 DEF HadBy
  <2>2. CASE pc["submit"] = "recordRelease" /\ RecordSubmitFailure(FALSE, "retry")
    <3>1. pc'["submit"] = "retry"
      BY <2>2, MovesOne, Processes DEF RecordSubmitFailure
    <3>2. QED
      BY <1>4, <1>11, <2>2, <3>1 DEF HadBy
  <2>3. CASE pc["submit"] = "retry" /\ EnqueueJob("submit", "done")
    <3>1. ~Suffer("fail")
      BY <1>4, <1>11, <2>3
    <3>2. QED
      BY <2>3, <3>1, EnqueueQueues DEF HadBy
  <2>4. CASE ~(SubmitStep \/ SubmitHeartbeat \/ Resubmit)
    <3>1. pc'["submit"] = pc["submit"]
      BY <1>0, <2>4, CancelMoves, SweepMoves, WorkerMoves, EnvironmentMoves, CrashMoves,
         Processes DEF Next, EnvironmentStep
    <3>2. QED
      BY <1>4, <1>11, <3>1 DEF HadBy
  <2>5. QED
    BY <1>11, <2>1, <2>2, <2>3, <2>4 DEF SubmitStep, SubmitCreate, SubmitReserve, SubmitItems,
          SubmitUpload, SubmitProvider, UpdateProviderSubmit, SubmitEnqueue, RecordQueueFailure,
          AbortOrphanProviderJob, SubmitFails, SubmitHeartbeat, Resubmit
<1>12. QED
    BY <1>5, <1>6, <1>7, <1>8, <1>9, <1>10, <1>11 DEF HadBy

\* One failed call does not leak a hold, whichever call of Submit, Cancel, the
\* recovery or a worker it was, or it was the Enqueue of Submit and is on the row.
THEOREM HoldIsPursuedHolds == Spec => []HoldIsPursued
<1>1. Init => PursuitInv
  <2>1. SUFFICES ASSUME Init PROVE HandsInv /\ GiveUpInv /\ RoundInv
    BY DEF PursuitInv
  <2>2. claims = {} /\ pc["submit"] = "new" /\ \A w \in Workers : pc[w] = "idle"
    BY <2>1, Processes DEF Init, HoldInit
  <2>3. QED
    BY <2>2 DEF HandsInv, GiveUpInv, RoundInv, Round, AloneLabels
<1>2. IInv /\ PursuitInv /\ [Next]_vars => PursuitInv'
  <2>1. SUFFICES ASSUME IInv, PursuitInv, [Next]_vars, OneFailure'
                 PROVE  HandsInv' /\ GiveUpInv' /\ RoundInv'
    BY DEF PursuitInv
  <2>2. CASE Next
    <3>1. HandsInv /\ GiveUpInv /\ RoundInv
      BY <2>1, <2>2, OneBefore DEF PursuitInv, IInv, StructInv
    <3>2. QED
      BY <2>1, <2>2, <3>1, HandsStep, GiveUpStep, RoundStep
  <2>3. CASE UNCHANGED vars
    BY <2>1, <2>3 DEF vars, holdVars, queueVars, PursuitInv, OneFailure, HandsInv, HadBy,
          Unqueued, Queued, Ended, GiveUpInv, RoundInv, Round
  <2>4. QED
    BY <2>1, <2>2, <2>3
<1>3. IInv /\ PursuitInv => HoldIsPursued
  <2>1. SUFFICES ASSUME IInv, PursuitInv, Outstanding, "release" \notin claims, OneFailure
                 PROVE  Pursued \/ QueueFailed
    BY DEF HoldIsPursued, OneFailure
  <2>2. MoneyInv /\ frozen # OtherHolds
    BY <2>1, OneIsFew, HoldAssumption DEF IInv, BooksInv, Outstanding
  <2>3. "hold" \in claims /\ ~Ended
    BY <2>1, <2>2 DEF MoneyInv, Ended
  <2>4. HadBy
    BY <2>1, <2>3 DEF PursuitInv, HandsInv
  <2>5. job.status = "none" => pc["submit"] = "new"
    BY <2>1 DEF IInv, StructInv, SubmitInv
  <2>6. QED
    BY <2>4, <2>5 DEF HadBy, Unqueued, Pursued, QueueFailed, Early
<1>4. QED
    BY <1>1, <1>2, <1>3, Invariance, PTL DEF Spec
=============================================================================
