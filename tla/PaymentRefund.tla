---------------------------- MODULE PaymentRefund ----------------------------
(***************************************************************************)
(* Refunding a completed balance order: payment_refund.go.  The amount is  *)
(* taken from the user's balance, the provider is asked to return the      *)
(* money, and the deduction is put back when the provider refuses or only  *)
(* promises; a promised refund is finalized later by an admin.             *)
(*                                                                         *)
(* An admin is one request to the refund or to the refund-query endpoint.  *)
(* Every database statement or transaction and every call of the provider  *)
(* is one step.  Amounts are whole units.                                  *)
(***************************************************************************)
EXTENDS Integers

CONSTANTS
    Admins,          \* concurrent admin requests
    Amount,          \* o.Amount, what the order credited
    OpeningBalance,  \* the user's balance at the start
    Overdraft,       \* bound: how far below zero usage may push the balance
    Faults           \* subset of FaultKinds

\* "rollback": putting a deduction back fails.  "audit": a write or a count of
\* the audit log fails, which the code ignores.  "late_failure": the provider
\* gives up a refund it had accepted.  "bad_answer": its answer to a query is
\* empty, invalid or of an unknown status.  "crash": see Abort.
FaultKinds == {"rollback", "audit", "late_failure", "bad_answer", "crash"}

\* What the books do not survive, remembered for the properties.  "rollback": a
\* deduction could not be put back.  "overwrite": finalizeRefundFailed wrote its
\* status over an order that was being refunded again, or was refunded.
IncidentKinds == {"rollback", "overwrite"}

ASSUME RefundAssumption ==
    /\ Amount \in Nat \ {0}
    /\ OpeningBalance \in Nat
    /\ Overdraft \in Nat
    /\ Faults \subseteq FaultKinds

VARIABLES
    status,        \* the status of the order row
    refundAmount,  \* refund_amount of the order row
    balance,       \* the user's balance
    audits,        \* the actions in the order's audit log, each at most once
    rollbackOK,    \* deductionRollbackOK in the REFUND_PENDING audit row
    gateway,       \* the refund at the provider
    hasTradeNo,    \* the order has a payment_trade_no
    pc,            \* [Admins -> Label]
    plan,          \* [Admins -> Plan], the RefundPlan of the request
    deducted,      \* history: what the order's refunds took, net
    incidents      \* history: which of IncidentKinds have happened

rowVars     == <<status, refundAmount>>
auditVars   == <<audits, rollbackOK>>
outsideVars == <<gateway, hasTradeNo>>
adminVars   == <<pc, plan>>
historyVars == <<deducted, incidents>>
vars == <<rowVars, balance, auditVars, outsideVars, adminVars, historyVars>>

Refundable == {"COMPLETED", "REFUND_REQUESTED", "REFUND_PENDING", "REFUND_FAILED"}
Status == Refundable \cup {"REFUNDING", "REFUNDED", "PARTIALLY_REFUNDED"}
AuditAction == {"REFUND_ROLLBACK_FAILED", "REFUND_PENDING", "REFUND_SUCCESS"}
GatewayStatus == {"none", "pending", "returned"}

\* The next call of the request.  Between claim and one of markOk, restore,
\* setFailed and setPending the request owns the order.
OwnerLabels == {"checkAudit", "deduct", "gwRefund", "rollbackFailed", "rollbackPending",
                "markOk", "restore", "setFailed", "setPending"}
Label == OwnerLabels \cup
         {"idle", "prepDeduct", "claim", "auditPending",
          "pendingDetail", "queryRefund", "finalizeOk", "finalizeFailed"}

Plan == [requested  : BOOLEAN,         \* p.Order.Status, as read, is REFUND_REQUESTED
         amount     : 1..Amount,       \* p.RefundAmount
         toDeduct   : 0..Amount,       \* p.BalanceToDeduct
         rollbackOK : BOOLEAN]

RowTypeOK ==
    /\ status \in Status
    /\ refundAmount \in 0..Amount
    /\ balance \in Int
    /\ audits \in SUBSET AuditAction
    /\ rollbackOK \in BOOLEAN
    /\ gateway \in GatewayStatus
    /\ hasTradeNo \in BOOLEAN
    /\ deducted \in Int
    /\ incidents \subseteq IncidentKinds

AdminTypeOK ==
    /\ pc \in [Admins -> Label]
    /\ plan \in [Admins -> Plan]

TypeOK == RowTypeOK /\ AdminTypeOK

NoPlan == [requested |-> FALSE, amount |-> Amount, toDeduct |-> 0, rollbackOK |-> TRUE]

Init ==
    /\ status = "COMPLETED"
    /\ refundAmount = 0
    /\ balance = OpeningBalance
    /\ audits = {}
    /\ rollbackOK = TRUE
    /\ gateway = "none"
    /\ hasTradeNo \in BOOLEAN
    /\ pc = [a \in Admins |-> "idle"]
    /\ plan = [a \in Admins |-> NoPlan]
    /\ deducted = 0
    /\ incidents = {}

-----------------------------------------------------------------------------

Goto(a, label) ==
    /\ pc' = [pc EXCEPT ![a] = label]
    /\ UNCHANGED plan

Return(a) ==
    /\ pc' = [pc EXCEPT ![a] = "idle"]
    /\ plan' = [plan EXCEPT ![a] = NoPlan]

\* writeAuditLog: (order_id, action) is unique, an error is only logged.
WriteAudit(action) ==
    \/ audits' = audits \cup {action}
    \/ "audit" \in Faults /\ UNCHANGED audits

\* Variant with a defect: a deficit is deducted as well.
AvailableUnclamped(amount) == IF balance < amount THEN balance ELSE amount

\* What DeductAvailableBalance takes when asked for `amount`.
Available(amount) == IF balance <= 0 THEN 0 ELSE IF balance < amount THEN balance ELSE amount

Deduct(amount) ==
    /\ balance' = balance - amount
    /\ deducted' = deducted + amount
    /\ UNCHANGED incidents

FinalStatus(amount) == IF amount < Amount THEN "PARTIALLY_REFUNDED" ELSE "REFUNDED"

-----------------------------------------------------------------------------
(* The user, and the provider                                              *)

\* RequestRefund by the user.
RequestRefund ==
    /\ status = "COMPLETED"
    /\ balance >= Amount
    /\ status' = "REFUND_REQUESTED"
    /\ refundAmount' = Amount
    /\ UNCHANGED <<balance, auditVars, outsideVars, adminVars, historyVars>>

\* Usage is charged meanwhile; DeductBalance may overdraw.
Spend ==
    /\ balance > -Overdraft
    /\ balance' = balance - 1
    /\ UNCHANGED <<rowVars, auditVars, outsideVars, adminVars, historyVars>>

\* The provider carries out, or gives up, a refund it had accepted.
GatewaySettles ==
    /\ gateway = "pending"
    /\ \/ gateway' = "returned"
       \/ "late_failure" \in Faults /\ gateway' = "none"
    /\ UNCHANGED <<rowVars, balance, auditVars, hasTradeNo, adminVars, historyVars>>

-----------------------------------------------------------------------------
(* PrepareRefund and ExecuteRefund                                         *)

PrepareRefund(a) ==
    /\ pc[a] = "idle"
    /\ status \in Refundable
    /\ \E amount \in 1..Amount, deduct \in BOOLEAN :
          /\ plan' = [plan EXCEPT ![a] = [NoPlan EXCEPT !.requested = status = "REFUND_REQUESTED",
                                                         !.amount = amount]]
          /\ pc' = [pc EXCEPT ![a] = IF deduct THEN "prepDeduct" ELSE "claim"]
    /\ UNCHANGED <<rowVars, balance, auditVars, outsideVars, historyVars>>

\* The balance is read; a request without `force` ends when it is too small.
\* A forced request whose read fails deducts nothing.
PrepDeduct(a) ==
    /\ pc[a] = "prepDeduct"
    /\ UNCHANGED <<rowVars, balance, auditVars, outsideVars, historyVars>>
    /\ \/ /\ balance < plan[a].amount
          /\ Return(a)
       \/ /\ plan' = [plan EXCEPT ![a].toDeduct = Available(plan[a].amount)]
          /\ pc' = [pc EXCEPT ![a] = "claim"]
       \/ Goto(a, "claim")

\* Variant with a defect: the status is not part of the update's condition.
ClaimUnconditionally(a) ==
    /\ pc[a] = "claim"
    /\ status' = "REFUNDING"
    /\ Goto(a, IF plan[a].toDeduct > 0 THEN "checkAudit" ELSE "gwRefund")
    /\ UNCHANGED <<refundAmount, balance, auditVars, outsideVars, historyVars>>

\* ExecuteRefund takes the order by a conditional update.
ClaimRefund(a) ==
    /\ pc[a] = "claim"
    /\ IF status \in Refundable
       THEN /\ status' = "REFUNDING"
            /\ Goto(a, IF plan[a].toDeduct > 0 THEN "checkAudit" ELSE "gwRefund")
       ELSE /\ Return(a)
            /\ UNCHANGED status
    /\ UNCHANGED <<refundAmount, balance, auditVars, outsideVars, historyVars>>

\* An earlier attempt whose rollback failed has deducted already.  A count
\* that fails reads as zero.
CheckRollbackAudit(a) ==
    /\ pc[a] = "checkAudit"
    /\ \/ /\ "REFUND_ROLLBACK_FAILED" \in audits
          /\ plan' = [plan EXCEPT ![a].toDeduct = 0]
          /\ pc' = [pc EXCEPT ![a] = "gwRefund"]
       \/ /\ "REFUND_ROLLBACK_FAILED" \notin audits \/ "audit" \in Faults
          /\ Goto(a, "deduct")
    /\ UNCHANGED <<rowVars, balance, auditVars, outsideVars, historyVars>>

DeductBalance(a) ==
    /\ pc[a] = "deduct"
    /\ \/ LET taken == Available(plan[a].toDeduct) IN
          /\ Deduct(taken)
          /\ plan' = [plan EXCEPT ![a].toDeduct = taken]
          /\ pc' = [pc EXCEPT ![a] = "gwRefund"]
       \/ /\ Goto(a, "restore")
          /\ UNCHANGED <<balance, historyVars>>
    /\ UNCHANGED <<rowVars, auditVars, outsideVars>>

\* Variant with a defect: a pending answer counts as a success.
PendingTakenForSuccess(a) ==
    /\ pc[a] = "gwRefund"
    /\ Goto(a, "markOk")
    /\ \/ ~hasTradeNo /\ UNCHANGED gateway
       \/ hasTradeNo /\ gateway' \in {"pending", "returned"}
    /\ UNCHANGED <<rowVars, balance, auditVars, hasTradeNo, historyVars>>

\* Without a trade number the provider is not asked.  An error may hide a
\* refund the provider accepted or carried out.  A provider does not return
\* the money of an order twice.
GwRefund(a) ==
    /\ pc[a] = "gwRefund"
    /\ \/ /\ ~hasTradeNo
          /\ Goto(a, "markOk")
          /\ UNCHANGED gateway
       \/ /\ hasTradeNo
          /\ gateway' = "returned"
          /\ Goto(a, "markOk")
       \/ /\ hasTradeNo
          /\ gateway # "returned"
          /\ gateway' = "pending"
          /\ Goto(a, "rollbackPending")
       \/ /\ hasTradeNo
          /\ gateway' \in IF gateway = "returned" THEN {gateway}
                          ELSE {gateway, "pending", "returned"}
          /\ Goto(a, "rollbackFailed")
    /\ UNCHANGED <<rowVars, balance, auditVars, hasTradeNo, historyVars>>

\* Variant with a defect: the deduction is kept when the provider refused.
RollbackForgotten(a) ==
    /\ pc[a] \in {"rollbackFailed", "rollbackPending"}
    /\ Goto(a, IF pc[a] = "rollbackPending" THEN "setPending" ELSE "restore")
    /\ UNCHANGED <<rowVars, balance, auditVars, outsideVars, historyVars>>

\* RollbackRefund, in handleGwFail and in markRefundPending.
RollbackRefund(a) ==
    /\ pc[a] \in {"rollbackFailed", "rollbackPending"}
    /\ \/ /\ Deduct(-plan[a].toDeduct)
          /\ Goto(a, IF pc[a] = "rollbackPending" THEN "setPending" ELSE "restore")
          /\ UNCHANGED audits
       \/ /\ plan[a].toDeduct > 0
          /\ "rollback" \in Faults
          /\ WriteAudit("REFUND_ROLLBACK_FAILED")
          /\ plan' = [plan EXCEPT ![a].rollbackOK = FALSE]
          /\ pc' = [pc EXCEPT ![a] = IF pc[a] = "rollbackPending" THEN "setPending"
                                     ELSE "setFailed"]
          /\ incidents' = incidents \cup {"rollback"}
          /\ UNCHANGED <<balance, deducted>>
    /\ UNCHANGED <<rowVars, rollbackOK, outsideVars>>

MarkRefundOk(a) ==
    /\ pc[a] = "markOk"
    /\ status' = FinalStatus(plan[a].amount)
    /\ refundAmount' = plan[a].amount
    /\ WriteAudit("REFUND_SUCCESS")
    /\ Return(a)
    /\ UNCHANGED <<balance, rollbackOK, outsideVars, historyVars>>

\* markRefundPending, after its rollback.
MarkRefundPending(a) ==
    /\ pc[a] = "setPending"
    /\ status' = "REFUND_PENDING"
    /\ refundAmount' = plan[a].amount
    /\ Goto(a, "auditPending")
    /\ UNCHANGED <<balance, auditVars, outsideVars, historyVars>>

\* Only the first REFUND_PENDING row is ever stored.
AuditRefundPending(a) ==
    /\ pc[a] = "auditPending"
    /\ WriteAudit("REFUND_PENDING")
    /\ rollbackOK' = IF "REFUND_PENDING" \in audits' \ audits
                     THEN plan[a].rollbackOK ELSE rollbackOK
    /\ Return(a)
    /\ UNCHANGED <<rowVars, balance, outsideVars, historyVars>>

RestoreStatus(a) ==
    /\ pc[a] = "restore"
    /\ status' = IF plan[a].requested THEN "REFUND_REQUESTED" ELSE "COMPLETED"
    /\ Return(a)
    /\ UNCHANGED <<refundAmount, balance, auditVars, outsideVars, historyVars>>

\* The REFUND_FAILED write of handleGwFail.
MarkRefundFailed(a) ==
    /\ pc[a] = "setFailed"
    /\ status' = "REFUND_FAILED"
    /\ Return(a)
    /\ UNCHANGED <<refundAmount, balance, auditVars, outsideVars, historyVars>>

-----------------------------------------------------------------------------
(* QueryAndFinalizeRefund                                                  *)

QueryAndFinalizeRefund(a) ==
    /\ pc[a] = "idle"
    /\ status = "REFUND_PENDING"
    /\ plan' = [plan EXCEPT ![a] = [NoPlan EXCEPT !.amount = refundAmount]]
    /\ pc' = [pc EXCEPT ![a] = "pendingDetail"]
    /\ UNCHANGED <<rowVars, balance, auditVars, outsideVars, historyVars>>

\* latestRefundPendingDetail, and the deduction the plan derives from it: an
\* audit row that is missing or cannot be read counts as a rollback that
\* succeeded, and the whole refund is deducted whatever was asked for.
LatestRefundPendingDetail(a) ==
    /\ pc[a] = "pendingDetail"
    /\ \E ok \in (IF "REFUND_PENDING" \in audits THEN {rollbackOK} ELSE {TRUE})
                 \cup (IF "audit" \in Faults THEN {TRUE} ELSE {}) :
          plan' = [plan EXCEPT ![a].toDeduct = IF ok THEN plan[a].amount ELSE 0]
    /\ pc' = [pc EXCEPT ![a] = "queryRefund"]
    /\ UNCHANGED <<rowVars, balance, auditVars, outsideVars, historyVars>>

\* A refund the provider does not know or has refused counts as failed, and so
\* does an answer that is invalid or of an unknown status, whatever it is about.
QueryRefund(a) ==
    /\ pc[a] = "queryRefund"
    /\ \/ gateway = "returned" /\ Goto(a, "finalizeOk")
       \/ gateway = "pending" /\ Return(a)
       \/ /\ gateway = "none" \/ "bad_answer" \in Faults
          /\ Goto(a, "finalizeFailed")
    /\ UNCHANGED <<rowVars, balance, auditVars, outsideVars, historyVars>>

\* Variant with a defect: the order is not claimed again in the transaction.
FinalizeUnconditionally(a) ==
    /\ pc[a] = "finalizeOk"
    /\ status' = FinalStatus(plan[a].amount)
    /\ refundAmount' = plan[a].amount
    /\ Deduct(Available(plan[a].toDeduct))
    /\ audits' = audits \cup {"REFUND_SUCCESS"}
    /\ Return(a)
    /\ UNCHANGED <<rollbackOK, outsideVars>>

\* One transaction: claim, deduction, final status and audit row, which here
\* must not exist yet.
FinalizePendingRefundSuccess(a) ==
    /\ pc[a] = "finalizeOk"
    /\ IF status = "REFUND_PENDING" /\ "REFUND_SUCCESS" \notin audits
       THEN /\ status' = FinalStatus(plan[a].amount)
            /\ refundAmount' = plan[a].amount
            /\ Deduct(Available(plan[a].toDeduct))
            /\ audits' = audits \cup {"REFUND_SUCCESS"}
       ELSE UNCHANGED <<rowVars, balance, audits, historyVars>>
    /\ Return(a)
    /\ UNCHANGED <<rollbackOK, outsideVars>>

\* The row is written by its id alone, whatever it shows by now.
FinalizeRefundFailed(a) ==
    /\ pc[a] = "finalizeFailed"
    /\ status' = "REFUND_FAILED"
    /\ incidents' = incidents \cup (IF status \in Refundable THEN {} ELSE {"overwrite"})
    /\ Return(a)
    /\ UNCHANGED <<refundAmount, balance, auditVars, outsideVars, deducted>>

-----------------------------------------------------------------------------

\* The request ends early: its process dies, or a call fails whose error it
\* returns (or ignores at the end) without undoing anything.
Abort(a) ==
    /\ "crash" \in Faults
    /\ pc[a] # "idle"
    /\ Return(a)
    /\ UNCHANGED <<rowVars, balance, auditVars, outsideVars, historyVars>>

Execute(a) ==
    \/ PrepareRefund(a)
    \/ PrepDeduct(a)
    \/ ClaimRefund(a)
    \/ CheckRollbackAudit(a)
    \/ DeductBalance(a)
    \/ GwRefund(a)
    \/ RollbackRefund(a)
    \/ MarkRefundOk(a)
    \/ MarkRefundPending(a)
    \/ AuditRefundPending(a)
    \/ RestoreStatus(a)
    \/ MarkRefundFailed(a)

Finalize(a) ==
    \/ QueryAndFinalizeRefund(a)
    \/ LatestRefundPendingDetail(a)
    \/ QueryRefund(a)
    \/ FinalizePendingRefundSuccess(a)
    \/ FinalizeRefundFailed(a)

Next ==
    \/ RequestRefund \/ Spend \/ GatewaySettles
    \/ \E a \in Admins : Execute(a) \/ Finalize(a) \/ Abort(a)

Spec == Init /\ [][Next]_vars

-----------------------------------------------------------------------------
(* Properties                                                              *)

\* However often a refund is retried, promised by the provider and finalized,
\* the user never loses more than the order credited: what the finalization is
\* tested for (RejectsStaleCallerBeforeSecondDeduction).
NeverDeductedTwice == deducted <= Amount

\* ... which the claim of ExecuteRefund, the rollbacks and the transaction of
\* finalizePendingRefundSuccess ensure under every fault, lost audit rows and
\* late refusals of the provider included, until a rollback fails or a late
\* failure is written over a running or final refund.
OneDeduction == incidents = {} => NeverDeductedTwice

\* As long as a refund is neither running nor final the user has the whole
\* balance: a refused or merely promised refund is put back before the order
\* may be refunded again (handleGwFail, markRefundPending, restoreStatus), with
\* the same two exceptions.
HeldOnlyWhileRefunding == incidents = {} /\ status \in Refundable => deducted = 0

\* An order shows REFUNDED only when the provider did return the money, not
\* when it promised to, whichever request wrote it (finishRefund,
\* QueryAndFinalizeRefund); orders without a trade number are refunded by hand.
RefundedIsReturned ==
    status \in {"REFUNDED", "PARTIALLY_REFUNDED"} /\ hasTradeNo => gateway = "returned"

\* Only finalizeRefundFailed reopens a final refund: before it has written over
\* an order that was not refundable, no late claim, restoreStatus, rollback or
\* markRefundPending of another request changes the status of a refunded order,
\* whatever fails.
RefundedIsFinal ==
    [][(status \in {"REFUNDED", "PARTIALLY_REFUNDED"} /\ "overwrite" \notin incidents')
          => status' = status]_vars
=============================================================================
