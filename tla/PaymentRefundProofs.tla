------------------------- MODULE PaymentRefundProofs -------------------------
(***************************************************************************)
(* Proofs about PaymentRefund for any number of admins, any amounts and    *)
(* all faults.  The types and the promise to the payer hold whatever       *)
(* happens; that one request owns the order holds until a late failure is  *)
(* written over it, and what is taken from the balance is right until then *)
(* or until a rollback fails.                                              *)
(***************************************************************************)
EXTENDS PaymentRefund, TLAPS

\* Where the owner of the order has taken plan.toDeduct from the balance.
HoldingLabels == {"gwRefund", "rollbackFailed", "rollbackPending", "markOk"}

\* At most one request owns the order, and while it does the row says so.
OwnerInv ==
    /\ \A a \in Admins : pc[a] \in OwnerLabels => status = "REFUNDING"
    /\ \A a, b \in Admins : pc[a] \in OwnerLabels /\ pc[b] \in OwnerLabels => a = b

\* What was taken: the owner's deduction, nothing while the order may be
\* refunded (again), never more than the order credited.
DeductionInv ==
    /\ deducted \in 0..Amount
    /\ status \in Refundable => deducted = 0
    /\ \A a \in Admins :
          /\ pc[a] \in HoldingLabels => deducted = plan[a].toDeduct
          /\ pc[a] \in OwnerLabels \ HoldingLabels => deducted = 0

\* A refund that can be finalized has an amount ...
AmountInv == status = "REFUND_PENDING" => refundAmount > 0

\* ... and an order with a trade number is on its way to a final status only
\* when the provider has returned the money.
ReturnedInv ==
    hasTradeNo =>
        /\ status \in {"REFUNDED", "PARTIALLY_REFUNDED"} => gateway = "returned"
        /\ \A a \in Admins : pc[a] \in {"markOk", "finalizeOk"} => gateway = "returned"

IInv ==
    /\ TypeOK /\ AmountInv /\ ReturnedInv
    /\ "overwrite" \notin incidents => OwnerInv
    /\ incidents = {} => DeductionInv

-----------------------------------------------------------------------------

\* DeductAvailableBalance takes at most what it is asked for.
LEMMA AvailableBound ==
    ASSUME balance \in Int, NEW amount \in 0..Amount
    PROVE  Available(amount) \in 0..Amount /\ Available(amount) \in Int
<1>1. Available(amount) \in 0..amount
    BY RefundAssumption DEF Available
<1>2. QED
    BY <1>1, RefundAssumption

\* Updating one field of a plan keeps its type.
LEMMA PlanUpdate ==
    ASSUME AdminTypeOK, NEW a \in Admins
    PROVE  /\ plan[a].toDeduct \in 0..Amount /\ plan[a].toDeduct \in Int
           /\ plan[a].amount \in 0..Amount /\ plan[a].amount > 0
           /\ plan[a].rollbackOK \in BOOLEAN
           /\ \A n \in 0..Amount : [plan EXCEPT ![a].toDeduct = n] \in [Admins -> Plan]
           /\ [plan EXCEPT ![a].rollbackOK = FALSE] \in [Admins -> Plan]
<1>1. plan[a] \in Plan
    BY DEF AdminTypeOK
<1>2. \A n \in 0..Amount : [plan[a] EXCEPT !.toDeduct = n] \in Plan
    BY <1>1 DEF Plan
<1>3. [plan[a] EXCEPT !.rollbackOK = FALSE] \in Plan
    BY <1>1 DEF Plan
<1>4. plan[a].toDeduct \in 0..Amount /\ plan[a].amount \in 1..Amount
    BY <1>1 DEF Plan
<1>5. /\ plan[a].toDeduct \in Int
      /\ plan[a].amount \in 0..Amount /\ plan[a].amount > 0
    BY <1>4, RefundAssumption
<1>6. plan[a].rollbackOK \in BOOLEAN
    BY <1>1 DEF Plan
<1>7. QED
    BY <1>2, <1>3, <1>4, <1>5, <1>6 DEF AdminTypeOK

\* What a request can take from the balance is within the order's amount.
LEMMA PlanBound ==
    ASSUME TypeOK, NEW a \in Admins
    PROVE  /\ Available(plan[a].toDeduct) \in 0..Amount /\ Available(plan[a].toDeduct) \in Int
           /\ Available(plan[a].amount) \in 0..Amount
<1>1. plan[a].toDeduct \in 0..Amount /\ plan[a].amount \in 0..Amount /\ balance \in Int
    BY PlanUpdate DEF TypeOK, RowTypeOK
<1>2. QED
    BY <1>1, AvailableBound

\* A request that starts has a plan, and one that returns has none.
LEMMA PlanReset ==
    /\ NoPlan \in Plan
    /\ \A q \in BOOLEAN, n \in 1..Amount : [NoPlan EXCEPT !.requested = q, !.amount = n] \in Plan
    /\ \A n \in 1..Amount : [NoPlan EXCEPT !.amount = n] \in Plan
<1>1. Amount \in 1..Amount /\ 0 \in 0..Amount
    BY RefundAssumption
<1>2. NoPlan \in Plan
    BY <1>1 DEF NoPlan, Plan
<1>3. \A q \in BOOLEAN, n \in 1..Amount : [NoPlan EXCEPT !.requested = q, !.amount = n] \in Plan
    BY <1>2 DEF Plan
<1>4. \A n \in 1..Amount : [NoPlan EXCEPT !.amount = n] \in Plan
    BY <1>2 DEF Plan
<1>5. QED
    BY <1>2, <1>3, <1>4

\* Every step keeps the types of the requests ...
LEMMA AdminTypeStep ==
    ASSUME TypeOK, AmountInv, Next
    PROVE  AdminTypeOK'
<1> USE DEF TypeOK
<1>1. CASE RequestRefund \/ Spend \/ GatewaySettles
    BY <1>1 DEF RequestRefund, Spend, GatewaySettles, AdminTypeOK, adminVars
<1>2. ASSUME NEW a \in Admins, NEW label \in Label, Goto(a, label) PROVE AdminTypeOK'
    BY <1>2 DEF Goto, AdminTypeOK
<1>3. ASSUME NEW a \in Admins, Return(a) PROVE AdminTypeOK'
  <2>1. "idle" \in Label
    BY DEF Label
  <2>2. QED
    BY <1>3, <2>1, PlanReset DEF Return, AdminTypeOK
<1>4. ASSUME NEW a \in Admins, NEW label \in Label, NEW n \in 0..Amount,
             pc' = [pc EXCEPT ![a] = label], plan' = [plan EXCEPT ![a].toDeduct = n]
      PROVE  AdminTypeOK'
    BY <1>4, PlanUpdate DEF AdminTypeOK
<1>5. ASSUME NEW a \in Admins, Execute(a) PROVE AdminTypeOK'
  <2>1. CASE PrepareRefund(a)
    <3>1. {"prepDeduct", "claim"} \subseteq Label
      BY DEF Label
    <3>2. PICK amount \in 1..Amount, deduct \in BOOLEAN :
             /\ plan' = [plan EXCEPT ![a] = [NoPlan EXCEPT !.requested = status = "REFUND_REQUESTED",
                                                            !.amount = amount]]
             /\ pc' = [pc EXCEPT ![a] = IF deduct THEN "prepDeduct" ELSE "claim"]
      BY <2>1 DEF PrepareRefund
    <3>3. plan' \in [Admins -> Plan]
      BY <2>1, <3>2, PlanReset DEF PrepareRefund, AdminTypeOK
    <3>4. pc' \in [Admins -> Label]
      BY <3>1, <3>2 DEF AdminTypeOK
    <3>5. QED
      BY <3>3, <3>4 DEF AdminTypeOK
  <2>2. CASE PrepDeduct(a)
    <3>1. Available(plan[a].amount) \in 0..Amount
      BY PlanBound
    <3>2. "claim" \in Label
      BY DEF Label
    <3>3. QED
      BY <2>2, <3>1, <3>2, <1>2, <1>3, <1>4 DEF PrepDeduct
  <2>3. CASE ClaimRefund(a) \/ GwRefund(a) \/ MarkRefundPending(a)
    <3>1. Return(a) \/ \E label \in Label : Goto(a, label)
      BY <2>3 DEF ClaimRefund, GwRefund, MarkRefundPending, Label, OwnerLabels
    <3>2. QED
      BY <3>1, <1>2, <1>3
  <2>4. CASE CheckRollbackAudit(a)
    <3>1. {"gwRefund", "deduct"} \subseteq Label /\ 0 \in 0..Amount
      BY RefundAssumption DEF Label, OwnerLabels
    <3>2. QED
      BY <2>4, <3>1, <1>2, <1>4 DEF CheckRollbackAudit
  <2>5. CASE DeductBalance(a)
    <3>1. Available(plan[a].toDeduct) \in 0..Amount
      BY PlanBound
    <3>2. {"gwRefund", "restore"} \subseteq Label
      BY DEF Label, OwnerLabels
    <3>3. QED
      BY <2>5, <3>1, <3>2, <1>2, <1>4 DEF DeductBalance
  <2>6. CASE RollbackRefund(a)
    <3>1. {"setPending", "restore", "setFailed"} \subseteq Label
      BY DEF Label, OwnerLabels
    <3>2. QED
      BY <2>6, <3>1, <1>2, PlanUpdate DEF RollbackRefund, AdminTypeOK
  <2>7. CASE \/ MarkRefundOk(a) \/ AuditRefundPending(a) \/ RestoreStatus(a)
             \/ MarkRefundFailed(a)
    BY <2>7, <1>3 DEF MarkRefundOk, AuditRefundPending, RestoreStatus, MarkRefundFailed
  <2>8. QED
    BY <1>5, <2>1, <2>2, <2>3, <2>4, <2>5, <2>6, <2>7 DEF Execute
<1>6. ASSUME NEW a \in Admins, Finalize(a) \/ Abort(a) PROVE AdminTypeOK'
  <2>1. CASE QueryAndFinalizeRefund(a)
    <3>1. "pendingDetail" \in Label /\ refundAmount \in 1..Amount
      BY <2>1 DEF QueryAndFinalizeRefund, AmountInv, RowTypeOK, Label
    <3>2. QED
      BY <2>1, <3>1, PlanReset DEF QueryAndFinalizeRefund, AdminTypeOK
  <2>2. CASE LatestRefundPendingDetail(a)
    <3>0. "queryRefund" \in Label
      BY DEF Label
    <3>1a. 0 \in 0..Amount
      BY RefundAssumption
    <3>1b. plan[a].amount \in 0..Amount
      BY PlanUpdate DEF TypeOK
    <3>1. 0 \in 0..Amount /\ plan[a].amount \in 0..Amount
      BY <3>1a, <3>1b
    <3>2. PICK n \in 0..Amount : plan' = [plan EXCEPT ![a].toDeduct = n]
      BY <2>2, <3>1 DEF LatestRefundPendingDetail
    <3>3. QED
      BY <2>2, <3>0, <3>2, <1>4 DEF LatestRefundPendingDetail
  <2>3. CASE QueryRefund(a)
    <3>1. {"finalizeOk", "finalizeFailed"} \subseteq Label
      BY DEF Label
    <3>2. QED
      BY <2>3, <3>1, <1>2, <1>3 DEF QueryRefund, RowTypeOK, GatewayStatus
  <2>4. CASE FinalizePendingRefundSuccess(a) \/ FinalizeRefundFailed(a) \/ Abort(a)
    BY <2>4, <1>3 DEF FinalizePendingRefundSuccess, FinalizeRefundFailed, Abort
  <2>5. QED
    BY <1>6, <2>1, <2>2, <2>3, <2>4 DEF Finalize
<1>7. QED
    BY <1>1, <1>5, <1>6 DEF Next

\* ... and of everything else.
LEMMA RowTypeStep ==
    ASSUME TypeOK, Next
    PROVE  RowTypeOK'
<1> USE RefundAssumption DEF TypeOK, RowTypeOK, IncidentKinds
<1> USE DEF rowVars, auditVars, outsideVars, historyVars
<1>1. CASE RequestRefund \/ Spend \/ GatewaySettles
  <2>1. CASE RequestRefund
    <3>1. Amount \in 0..Amount /\ "REFUND_REQUESTED" \in Status
      BY DEF Status, Refundable
    <3>2. QED
      BY <2>1, <3>1 DEF RequestRefund
  <2>2. CASE Spend
    BY <2>2 DEF Spend
  <2>3. CASE GatewaySettles
    BY <2>3 DEF GatewaySettles, GatewayStatus
  <2>4. QED
    BY <1>1, <2>1, <2>2, <2>3
<1>2. ASSUME NEW a \in Admins,
             \/ PrepareRefund(a) \/ PrepDeduct(a) \/ ClaimRefund(a) \/ CheckRollbackAudit(a)
             \/ QueryAndFinalizeRefund(a) \/ LatestRefundPendingDetail(a) \/ QueryRefund(a)
             \/ Abort(a)
      PROVE  RowTypeOK'
    BY <1>2 DEF PrepareRefund, PrepDeduct, ClaimRefund, CheckRollbackAudit, Abort,
          QueryAndFinalizeRefund, LatestRefundPendingDetail, QueryRefund, Status
<1>3. ASSUME NEW a \in Admins, DeductBalance(a) \/ GwRefund(a) PROVE RowTypeOK'
  <2>1. Available(plan[a].toDeduct) \in Int
    BY PlanBound, PlanUpdate
  <2>2. QED
    BY <1>3, <2>1 DEF DeductBalance, Deduct, GwRefund, GatewayStatus
<1>4. ASSUME NEW a \in Admins, RollbackRefund(a) PROVE RowTypeOK'
  <2>1. audits' \in SUBSET AuditAction
    BY <1>4 DEF RollbackRefund, WriteAudit, AuditAction
  <2>2. plan[a].toDeduct \in Int
    BY PlanUpdate
  <2>3. balance' \in Int /\ deducted' \in Int
    BY <1>4, <2>2 DEF RollbackRefund, Deduct
  <2>4. incidents' \subseteq IncidentKinds
    BY <1>4 DEF RollbackRefund, Deduct
  <2>5. QED
    BY <1>4, <2>1, <2>3, <2>4 DEF RollbackRefund
<1>5. ASSUME NEW a \in Admins, MarkRefundOk(a) \/ MarkRefundPending(a) \/ AuditRefundPending(a)
      PROVE  RowTypeOK'
    BY <1>5, PlanUpdate DEF MarkRefundOk, FinalStatus, MarkRefundPending,
          AuditRefundPending, WriteAudit, AuditAction, Status, Refundable
<1>6. ASSUME NEW a \in Admins, RestoreStatus(a) \/ MarkRefundFailed(a) \/ FinalizeRefundFailed(a)
      PROVE  RowTypeOK'
    BY <1>6 DEF RestoreStatus, MarkRefundFailed, FinalizeRefundFailed, Status, Refundable
<1>7. ASSUME NEW a \in Admins, FinalizePendingRefundSuccess(a) PROVE RowTypeOK'
  <2>1. Available(plan[a].toDeduct) \in Int /\ plan[a].amount \in 0..Amount
    BY PlanBound, PlanUpdate
  <2>2. QED
    <3>1. audits' \in SUBSET AuditAction /\ status' \in Status
      BY <1>7 DEF FinalizePendingRefundSuccess, FinalStatus, AuditAction, Status
    <3>2. balance' \in Int /\ deducted' \in Int /\ refundAmount' \in 0..Amount
      BY <1>7, <2>1 DEF FinalizePendingRefundSuccess, Deduct
    <3>3. UNCHANGED incidents
      BY <1>7 DEF FinalizePendingRefundSuccess, Deduct
    <3>4. QED
      BY <1>7, <3>1, <3>2, <3>3 DEF FinalizePendingRefundSuccess
<1>8. QED
    BY <1>1, <1>2, <1>3, <1>4, <1>5, <1>6, <1>7 DEF Next, Execute, Finalize

\* What happened stays remembered.
LEMMA IncidentsGrow ==
    ASSUME Next
    PROVE  incidents \subseteq incidents'
<1> USE DEF historyVars, Deduct
<1>1. CASE RequestRefund \/ Spend \/ GatewaySettles
    BY <1>1 DEF RequestRefund, Spend, GatewaySettles
<1>2. ASSUME NEW a \in Admins, Execute(a) PROVE incidents \subseteq incidents'
    BY <1>2 DEF Execute, PrepareRefund, PrepDeduct, ClaimRefund, CheckRollbackAudit,
          DeductBalance, GwRefund, RollbackRefund, MarkRefundOk, MarkRefundPending,
          AuditRefundPending, RestoreStatus, MarkRefundFailed
<1>3. ASSUME NEW a \in Admins, Finalize(a) \/ Abort(a) PROVE incidents \subseteq incidents'
    BY <1>3 DEF Finalize, QueryAndFinalizeRefund, LatestRefundPendingDetail, QueryRefund,
          FinalizePendingRefundSuccess, FinalizeRefundFailed, Abort
<1>4. QED
    BY <1>1, <1>2, <1>3 DEF Next

\* The claim is exclusive, and only the owner writes the row, until a late
\* failure is written over it.
LEMMA OwnerStep ==
    ASSUME TypeOK, OwnerInv, Next, "overwrite" \notin incidents'
    PROVE  OwnerInv'
<1> USE DEF TypeOK, RowTypeOK, AdminTypeOK, OwnerInv, OwnerLabels, Goto, Return
<1> USE DEF rowVars, adminVars
<1>1. CASE RequestRefund \/ Spend \/ GatewaySettles
    BY <1>1 DEF RequestRefund, Spend, GatewaySettles
<1>2. ASSUME NEW a \in Admins,
             \/ PrepareRefund(a) \/ PrepDeduct(a) \/ QueryAndFinalizeRefund(a)
             \/ LatestRefundPendingDetail(a) \/ QueryRefund(a) \/ Abort(a)
             \/ AuditRefundPending(a)
      PROVE  OwnerInv'
  <2>1. UNCHANGED status /\ pc'[a] \notin OwnerLabels
    BY <1>2 DEF PrepareRefund, PrepDeduct, QueryAndFinalizeRefund, AuditRefundPending,
                LatestRefundPendingDetail, QueryRefund, Abort, GatewayStatus
  <2>2. \A b \in Admins \ {a} : pc'[b] = pc[b]
    BY <1>2 DEF PrepareRefund, PrepDeduct, QueryAndFinalizeRefund, AuditRefundPending,
                LatestRefundPendingDetail, QueryRefund, Abort, GatewayStatus
  <2>3. QED
    BY <2>1, <2>2
<1>3. ASSUME NEW a \in Admins, ClaimRefund(a) PROVE OwnerInv'
    BY <1>3 DEF ClaimRefund, Refundable
<1>4. ASSUME NEW a \in Admins,
             CheckRollbackAudit(a) \/ DeductBalance(a) \/ GwRefund(a) \/ RollbackRefund(a)
      PROVE  OwnerInv'
    BY <1>4 DEF CheckRollbackAudit, DeductBalance, GwRefund, RollbackRefund
<1>5. ASSUME NEW a \in Admins,
             \/ MarkRefundOk(a) \/ MarkRefundPending(a) \/ RestoreStatus(a)
             \/ MarkRefundFailed(a)
      PROVE  OwnerInv'
    BY <1>5 DEF MarkRefundOk, MarkRefundPending, RestoreStatus, MarkRefundFailed
<1>6. ASSUME NEW a \in Admins, FinalizePendingRefundSuccess(a) \/ FinalizeRefundFailed(a)
      PROVE  OwnerInv'
    BY <1>6 DEF FinalizePendingRefundSuccess, FinalizeRefundFailed, Refundable
<1>7. QED
    BY <1>1, <1>2, <1>3, <1>4, <1>5, <1>6 DEF Next, Execute, Finalize

\* The deduction follows the owner: taken once, put back before the order may
\* be claimed again.
LEMMA DeductionStep ==
    ASSUME TypeOK, OwnerInv, DeductionInv, Next, incidents' = {}
    PROVE  DeductionInv'
<1>1. ASSUME NEW a \in Admins, \A b \in Admins \ {a} : pc[b] \notin OwnerLabels /\ pc'[b] = pc[b],
             deducted' \in 0..Amount,
             status' \in Refundable => deducted' = 0,
             pc'[a] \in HoldingLabels => deducted' = plan'[a].toDeduct,
             pc'[a] \in OwnerLabels \ HoldingLabels => deducted' = 0
      PROVE  DeductionInv'
    BY <1>1 DEF DeductionInv, HoldingLabels, OwnerLabels
<1>2. CASE RequestRefund \/ Spend \/ GatewaySettles
    BY <1>2 DEF RequestRefund, Spend, GatewaySettles, Refundable, DeductionInv, rowVars,
                adminVars, historyVars
<1>3. ASSUME NEW a \in Admins,
             \/ PrepareRefund(a) \/ PrepDeduct(a) \/ QueryAndFinalizeRefund(a)
             \/ LatestRefundPendingDetail(a) \/ QueryRefund(a) \/ Abort(a)
             \/ AuditRefundPending(a)
      PROVE  DeductionInv'
  <2> USE DEF TypeOK, AdminTypeOK, RowTypeOK, Goto, Return, rowVars, historyVars
  <2>1. UNCHANGED <<status, deducted>> /\ pc'[a] \notin OwnerLabels
    BY <1>3 DEF PrepareRefund, PrepDeduct, QueryAndFinalizeRefund, AuditRefundPending,
                LatestRefundPendingDetail, QueryRefund, Abort, GatewayStatus, OwnerLabels
  <2>2. \A b \in Admins \ {a} : pc'[b] = pc[b] /\ plan'[b] = plan[b]
    BY <1>3 DEF PrepareRefund, PrepDeduct, QueryAndFinalizeRefund, AuditRefundPending,
                LatestRefundPendingDetail, QueryRefund, Abort, GatewayStatus
  <2>3. QED
    BY <2>1, <2>2 DEF OwnerLabels, HoldingLabels, DeductionInv
<1>4. ASSUME NEW a \in Admins, ClaimRefund(a) PROVE DeductionInv'
  <2>1. CASE status \in Refundable
    <3>0. \A b \in Admins : pc[b] \notin OwnerLabels
      BY <2>1 DEF OwnerInv, Refundable
    <3>1. \A b \in Admins \ {a} : pc'[b] = pc[b]
      BY <1>4, <2>1 DEF ClaimRefund, Goto, TypeOK, AdminTypeOK
    <3>2. deducted = 0 /\ UNCHANGED deducted /\ 0 \in 0..Amount
      BY <1>4, <2>1, RefundAssumption DEF ClaimRefund, DeductionInv, historyVars
    <3>3. pc'[a] = "gwRefund" => plan'[a].toDeduct = 0
      <4>1. plan[a].toDeduct \in 0..Amount
        BY PlanUpdate DEF TypeOK
      <4>2. pc'[a] = "gwRefund" => ~(plan[a].toDeduct > 0)
        BY <1>4, <2>1 DEF ClaimRefund, Goto, TypeOK, AdminTypeOK
      <4>3. QED
        BY <1>4, <2>1, <4>1, <4>2, RefundAssumption DEF ClaimRefund, Goto
    <3>4. pc'[a] \in {"gwRefund", "checkAudit"}
      BY <1>4, <2>1 DEF ClaimRefund, Goto, TypeOK, AdminTypeOK
    <3>5. QED
      BY <1>1, <3>0, <3>1, <3>2, <3>3, <3>4 DEF HoldingLabels
  <2>2. CASE status \notin Refundable
    BY <1>4, <2>2 DEF ClaimRefund, Return, DeductionInv, TypeOK, AdminTypeOK, HoldingLabels,
                      OwnerLabels, historyVars
  <2>3. QED
    BY <2>1, <2>2
<1>5. ASSUME NEW a \in Admins,
             \/ CheckRollbackAudit(a) \/ DeductBalance(a) \/ GwRefund(a) \/ RollbackRefund(a)
             \/ MarkRefundOk(a) \/ MarkRefundPending(a) \/ RestoreStatus(a)
             \/ MarkRefundFailed(a)
      PROVE  DeductionInv'
  <2>1. \A b \in Admins \ {a} : pc[b] \notin OwnerLabels
    BY <1>5 DEF CheckRollbackAudit, DeductBalance, GwRefund, RollbackRefund, MarkRefundOk,
          MarkRefundPending, RestoreStatus, MarkRefundFailed, OwnerInv, OwnerLabels
  <2>0. PICK label : pc' = [pc EXCEPT ![a] = label]
    BY <1>5 DEF CheckRollbackAudit, DeductBalance, GwRefund, RollbackRefund, MarkRefundOk,
          MarkRefundPending, RestoreStatus, MarkRefundFailed, Goto, Return
  <2>2. \A b \in Admins \ {a} : pc'[b] = pc[b]
    BY <2>0 DEF TypeOK, AdminTypeOK
  <2>3a. status = "REFUNDING"
    BY <1>5 DEF CheckRollbackAudit, DeductBalance, GwRefund, RollbackRefund, MarkRefundOk,
          MarkRefundPending, RestoreStatus, MarkRefundFailed, OwnerInv, OwnerLabels
  <2>3. status = "REFUNDING" /\ deducted \in 0..Amount
    BY <2>3a DEF DeductionInv
  <2>4. pc \in [Admins -> Label] /\ plan \in [Admins -> Plan]
    BY DEF TypeOK, AdminTypeOK
  <2>5. CASE CheckRollbackAudit(a)
    <3>1. deducted = 0 /\ UNCHANGED <<status, deducted>>
      BY <2>5 DEF CheckRollbackAudit, DeductionInv, OwnerLabels, HoldingLabels, rowVars, historyVars
    <3>2. \/ pc'[a] = "gwRefund" /\ plan'[a].toDeduct = 0
          \/ pc'[a] = "deduct"
      BY <2>4, <2>5 DEF CheckRollbackAudit, Goto, Plan
    <3>3. QED
      BY <1>1, <2>1, <2>2, <2>3, <3>1, <3>2 DEF HoldingLabels, Refundable
  <2>6. CASE DeductBalance(a)
    <3>1. deducted = 0 /\ UNCHANGED status
      BY <2>6 DEF DeductBalance, DeductionInv, OwnerLabels, HoldingLabels, rowVars, historyVars
    <3>2. \/ /\ pc'[a] = "gwRefund"
             /\ plan'[a].toDeduct = Available(plan[a].toDeduct)
             /\ deducted' = deducted + Available(plan[a].toDeduct)
          \/ pc'[a] = "restore" /\ UNCHANGED deducted
      BY <2>4, <2>6 DEF DeductBalance, Deduct, Goto, Plan, historyVars
    <3>3. \/ pc'[a] = "gwRefund" /\ plan'[a].toDeduct = deducted' /\ deducted' \in 0..Amount
          \/ pc'[a] = "restore" /\ UNCHANGED deducted
      BY <3>1, <3>2, PlanBound
    <3>4. QED
      BY <1>1, <2>1, <2>2, <2>3, <3>1, <3>3 DEF HoldingLabels, Refundable
  <2>7. CASE GwRefund(a)
    <3>1. deducted = plan[a].toDeduct /\ UNCHANGED <<status, deducted, plan>>
      BY <2>7 DEF GwRefund, Goto, DeductionInv, HoldingLabels, rowVars, historyVars
    <3>2. pc'[a] \in {"markOk", "rollbackPending", "rollbackFailed"}
      BY <2>4, <2>7 DEF GwRefund, Goto
    <3>3. QED
      BY <1>1, <2>1, <2>2, <2>3, <3>1, <3>2 DEF HoldingLabels, Refundable
  <2>8. CASE RollbackRefund(a)
    <3>1. deducted = plan[a].toDeduct /\ UNCHANGED status
      BY <2>8 DEF RollbackRefund, DeductionInv, HoldingLabels, rowVars, historyVars
    <3>2. deducted' = deducted + (-plan[a].toDeduct) /\ pc'[a] \in {"setPending", "restore"}
      BY <2>4, <2>8 DEF RollbackRefund, Deduct, Goto
    <3>3. deducted' = 0 /\ 0 \in 0..Amount
      BY <2>3, <3>1, <3>2, RefundAssumption
    <3>4. QED
      BY <1>1, <2>1, <2>2, <3>2, <3>3 DEF HoldingLabels
  <2>9. CASE MarkRefundOk(a)
    <3>1. UNCHANGED deducted /\ status' \notin Refundable
      BY <2>9 DEF MarkRefundOk, FinalStatus, Refundable, historyVars
    <3>2. pc'[a] = "idle"
      BY <2>4, <2>9 DEF MarkRefundOk, Return
    <3>3. QED
      BY <1>1, <2>1, <2>2, <2>3, <3>1, <3>2 DEF HoldingLabels, OwnerLabels
  <2>10. CASE MarkRefundPending(a) \/ RestoreStatus(a) \/ MarkRefundFailed(a)
    <3>1. deducted = 0 /\ UNCHANGED deducted
      BY <2>10 DEF MarkRefundPending, RestoreStatus, MarkRefundFailed, DeductionInv,
                   HoldingLabels, OwnerLabels, historyVars
    <3>2. pc'[a] \in {"idle", "auditPending"}
      BY <2>4, <2>10 DEF MarkRefundPending, RestoreStatus, MarkRefundFailed, Return, Goto
    <3>3. QED
      BY <1>1, <2>1, <2>2, <2>3, <3>1, <3>2 DEF HoldingLabels, OwnerLabels
  <2>11. QED
    BY <1>5, <2>5, <2>6, <2>7, <2>8, <2>9, <2>10
<1>6. ASSUME NEW a \in Admins, FinalizePendingRefundSuccess(a) PROVE DeductionInv'
  <2>1. CASE status = "REFUND_PENDING" /\ "REFUND_SUCCESS" \notin audits
    <3>1. \A b \in Admins : pc[b] \notin OwnerLabels
      BY <2>1 DEF OwnerInv
    <3>2. deducted = 0
      BY <2>1 DEF DeductionInv, Refundable
    <3>3. deducted' \in 0..Amount
      BY <1>6, <2>1, <3>2, PlanBound DEF FinalizePendingRefundSuccess, Deduct
    <3>4. status' \notin Refundable
      BY <1>6, <2>1 DEF FinalizePendingRefundSuccess, FinalStatus, Refundable
    <3>5. pc'[a] = "idle" /\ \A b \in Admins \ {a} : pc'[b] = pc[b]
      BY <1>6 DEF FinalizePendingRefundSuccess, Return, TypeOK, AdminTypeOK
    <3>6. QED
      BY <1>1, <3>1, <3>3, <3>4, <3>5 DEF HoldingLabels, OwnerLabels
  <2>2. CASE ~(status = "REFUND_PENDING" /\ "REFUND_SUCCESS" \notin audits)
    BY <1>6, <2>2 DEF FinalizePendingRefundSuccess, Return, DeductionInv, TypeOK,
          AdminTypeOK, HoldingLabels, OwnerLabels, rowVars, historyVars
  <2>3. QED
    BY <2>1, <2>2
<1>7. ASSUME NEW a \in Admins, FinalizeRefundFailed(a) PROVE DeductionInv'
  <2>1. status \in Refundable /\ UNCHANGED deducted
    BY <1>7 DEF FinalizeRefundFailed
  <2>2. deducted = 0 /\ \A b \in Admins : pc[b] \notin OwnerLabels
    BY <2>1 DEF DeductionInv, OwnerInv, Refundable
  <2>3. pc'[a] = "idle" /\ \A b \in Admins \ {a} : pc'[b] = pc[b]
    BY <1>7 DEF FinalizeRefundFailed, Return, TypeOK, AdminTypeOK
  <2>4. QED
    BY <1>1, <2>1, <2>2, <2>3 DEF DeductionInv, HoldingLabels, OwnerLabels
<1>8. QED
    BY <1>2, <1>3, <1>4, <1>5, <1>6, <1>7 DEF Next, Execute, Finalize

\* Only markRefundPending makes an order pending, with the amount of its plan.
LEMMA AmountStep ==
    ASSUME TypeOK, AmountInv, Next
    PROVE  AmountInv'
<1> USE DEF AmountInv, rowVars
<1>1. CASE RequestRefund \/ Spend \/ GatewaySettles
    BY <1>1 DEF RequestRefund, Spend, GatewaySettles
<1>2. ASSUME NEW a \in Admins, MarkRefundPending(a) PROVE AmountInv'
    BY <1>2, PlanUpdate DEF MarkRefundPending, TypeOK
<1>3. ASSUME NEW a \in Admins, Execute(a), ~MarkRefundPending(a) PROVE AmountInv'
    BY <1>3 DEF Execute, PrepareRefund, PrepDeduct, ClaimRefund, CheckRollbackAudit,
          DeductBalance, GwRefund, RollbackRefund, MarkRefundOk, FinalStatus,
          AuditRefundPending, RestoreStatus, MarkRefundFailed
<1>4. ASSUME NEW a \in Admins, Finalize(a) \/ Abort(a) PROVE AmountInv'
    BY <1>4 DEF Finalize, QueryAndFinalizeRefund, LatestRefundPendingDetail, QueryRefund,
          FinalizePendingRefundSuccess, FinalStatus, FinalizeRefundFailed, Abort
<1>5. QED
    BY <1>1, <1>2, <1>3, <1>4 DEF Next

\* The provider never takes returned money back, and a request goes on to a
\* final status only after it was told that the money is returned.
LEMMA ReturnedStep ==
    ASSUME TypeOK, ReturnedInv, Next
    PROVE  ReturnedInv'
<1> USE DEF ReturnedInv, rowVars, outsideVars, adminVars
<1>1. CASE RequestRefund \/ Spend \/ GatewaySettles
    BY <1>1 DEF RequestRefund, Spend, GatewaySettles
<1>2. ASSUME NEW a \in Admins, Execute(a) \/ Finalize(a) \/ Abort(a) PROVE ReturnedInv'
  <2>1. pc \in [Admins -> Label] /\ gateway \in GatewayStatus
    BY DEF TypeOK, AdminTypeOK, RowTypeOK
  <2>2. UNCHANGED hasTradeNo
    BY <1>2 DEF Execute, PrepareRefund, PrepDeduct, ClaimRefund, CheckRollbackAudit,
          DeductBalance, GwRefund, RollbackRefund, MarkRefundOk, MarkRefundPending,
          AuditRefundPending, RestoreStatus, MarkRefundFailed, Finalize,
          QueryAndFinalizeRefund, LatestRefundPendingDetail, QueryRefund,
          FinalizePendingRefundSuccess, FinalizeRefundFailed, Abort
  <2>3. \A b \in Admins \ {a} : pc'[b] = pc[b]
    BY <1>2, <2>1 DEF Execute, PrepareRefund, PrepDeduct, ClaimRefund, CheckRollbackAudit,
          DeductBalance, GwRefund, RollbackRefund, MarkRefundOk, MarkRefundPending,
          AuditRefundPending, RestoreStatus, MarkRefundFailed, Finalize,
          QueryAndFinalizeRefund, LatestRefundPendingDetail, QueryRefund,
          FinalizePendingRefundSuccess, FinalizeRefundFailed, Abort, Goto, Return, GatewayStatus
  <2>4. hasTradeNo /\ gateway = "returned" => gateway' = "returned"
    BY <1>2 DEF Execute, PrepareRefund, PrepDeduct, ClaimRefund, CheckRollbackAudit,
          DeductBalance, GwRefund, RollbackRefund, MarkRefundOk, MarkRefundPending,
          AuditRefundPending, RestoreStatus, MarkRefundFailed, Finalize,
          QueryAndFinalizeRefund, LatestRefundPendingDetail, QueryRefund,
          FinalizePendingRefundSuccess, FinalizeRefundFailed, Abort
  <2>5. hasTradeNo /\ pc'[a] \in {"markOk", "finalizeOk"} => gateway' = "returned"
    <3>1. CASE Execute(a)
      BY <2>1, <3>1 DEF Execute, PrepareRefund, PrepDeduct, ClaimRefund, CheckRollbackAudit,
            DeductBalance, GwRefund, RollbackRefund, MarkRefundOk, MarkRefundPending,
            AuditRefundPending, RestoreStatus, MarkRefundFailed, Goto, Return
    <3>2. CASE Finalize(a) \/ Abort(a)
      BY <2>1, <3>2 DEF Finalize, QueryAndFinalizeRefund, LatestRefundPendingDetail,
            QueryRefund, FinalizePendingRefundSuccess, FinalizeRefundFailed, Abort, Goto,
            Return, GatewayStatus
    <3>3. QED
      BY <1>2, <3>1, <3>2
  <2>6. status' = status \/ status' \notin {"REFUNDED", "PARTIALLY_REFUNDED"}
           \/ pc[a] \in {"markOk", "finalizeOk"}
    BY <1>2 DEF Execute, PrepareRefund, PrepDeduct, ClaimRefund, CheckRollbackAudit,
          DeductBalance, GwRefund, RollbackRefund, MarkRefundOk, MarkRefundPending,
          AuditRefundPending, RestoreStatus, MarkRefundFailed, Finalize,
          QueryAndFinalizeRefund, LatestRefundPendingDetail, QueryRefund,
          FinalizePendingRefundSuccess, FinalizeRefundFailed, Abort
  <2>7. QED
    BY <2>2, <2>3, <2>4, <2>5, <2>6
<1>3. QED
    BY <1>1, <1>2 DEF Next

-----------------------------------------------------------------------------
(* Theorems                                                                *)

\* The initial states satisfy the inductive invariant ...
LEMMA InitIInv == Init => IInv
<1> SUFFICES ASSUME Init PROVE IInv
    OBVIOUS
<1>0. 0 \in 0..Amount /\ 0 \in Int /\ OpeningBalance \in Int
    BY RefundAssumption
<1>1. RowTypeOK
    BY <1>0 DEF Init, RowTypeOK, Status, Refundable, AuditAction, GatewayStatus
<1>2. AdminTypeOK
    BY PlanReset DEF Init, AdminTypeOK, Label
<1>3. OwnerInv /\ AmountInv /\ ReturnedInv
    BY DEF Init, OwnerInv, OwnerLabels, AmountInv, ReturnedInv
<1>4. DeductionInv
    BY RefundAssumption DEF Init, DeductionInv, OwnerLabels, HoldingLabels
<1>5. QED
    BY <1>1, <1>2, <1>3, <1>4 DEF IInv, TypeOK

\* ... and every step keeps it.
LEMMA NextIInv == IInv /\ [Next]_vars => IInv'
<1>1. ASSUME IInv, Next PROVE IInv'
  <2>1. TypeOK' /\ AmountInv' /\ ReturnedInv'
    BY <1>1, AdminTypeStep, RowTypeStep, AmountStep, ReturnedStep DEF IInv, TypeOK
  <2>2. ASSUME "overwrite" \notin incidents' PROVE OwnerInv'
    <3>1. "overwrite" \notin incidents
      BY <1>1, <2>2, IncidentsGrow
    <3>2. QED
      BY <1>1, <2>2, <3>1, OwnerStep DEF IInv
  <2>3. ASSUME incidents' = {} PROVE DeductionInv'
    <3>1. incidents = {}
      BY <1>1, <2>3, IncidentsGrow
    <3>2. TypeOK /\ OwnerInv /\ DeductionInv
      BY <1>1, <3>1 DEF IInv
    <3>3. QED
      BY <1>1, <2>3, <3>2, DeductionStep
  <2>4. QED
    BY <2>1, <2>2, <2>3 DEF IInv
<1>2. ASSUME IInv, UNCHANGED vars PROVE IInv'
    BY <1>2 DEF vars, rowVars, auditVars, outsideVars, adminVars, historyVars, IInv, TypeOK,
          RowTypeOK, AdminTypeOK, OwnerInv, DeductionInv, AmountInv, ReturnedInv
<1>3. QED
    BY <1>1, <1>2

\* The inductive invariant holds under all faults and for any number of
\* concurrent and crashing requests.
THEOREM Invariance == Spec => []IInv
BY InitIInv, NextIInv, PTL DEF Spec

\* Under all faults the order row, the audit log and the plans of the requests
\* stay well formed; a finalized refund takes its amount from a row that has one.
THEOREM TypeCorrect == Spec => []TypeOK
<1>1. IInv => TypeOK
    BY DEF IInv
<1>2. QED
    BY <1>1, Invariance, PTL

\* The user never loses more than the order credited, until a rollback fails or
\* a late failure is written over a running or final refund.
THEOREM NoDoubleDeduction == Spec => []OneDeduction
<1>1. IInv => OneDeduction
    BY RefundAssumption DEF IInv, DeductionInv, OneDeduction, NeverDeductedTwice
<1>2. QED
    BY <1>1, Invariance, PTL

\* An order that may be refunded (again) holds nothing of the balance, with the
\* same exceptions.
THEOREM HeldWhileRefunding == Spec => []HeldOnlyWhileRefunding
<1>1. IInv => HeldOnlyWhileRefunding
    BY DEF IInv, DeductionInv, HeldOnlyWhileRefunding
<1>2. QED
    BY <1>1, Invariance, PTL

\* Under all faults an order is shown refunded only when the provider has
\* returned the money (finishRefund, QueryAndFinalizeRefund).
THEOREM RefundedIsReturnedHolds == Spec => []RefundedIsReturned
<1>1. IInv => RefundedIsReturned
    BY DEF IInv, ReturnedInv, RefundedIsReturned
<1>2. QED
    BY <1>1, Invariance, PTL

\* Under all faults finalizeRefundFailed is the first to reopen a final refund:
\* nothing else does before it has written over an order.
THEOREM RefundFinal == Spec => RefundedIsFinal
<1>1. ASSUME IInv, Next, status \in {"REFUNDED", "PARTIALLY_REFUNDED"},
             "overwrite" \notin incidents'
      PROVE  status' = status
  <2>1. \A a \in Admins : pc[a] \notin OwnerLabels
    BY <1>1, IncidentsGrow DEF IInv, OwnerInv
  <2>2. ASSUME NEW a \in Admins, Execute(a) PROVE UNCHANGED status
    BY <1>1, <2>1, <2>2 DEF Execute, PrepareRefund, PrepDeduct, ClaimRefund, Refundable,
          CheckRollbackAudit, DeductBalance, GwRefund, RollbackRefund, MarkRefundOk,
          MarkRefundPending, AuditRefundPending, RestoreStatus, MarkRefundFailed,
          OwnerLabels, rowVars
  <2>3. ASSUME NEW a \in Admins, Finalize(a) \/ Abort(a) PROVE UNCHANGED status
    BY <1>1, <2>1, <2>3 DEF Finalize, QueryAndFinalizeRefund, LatestRefundPendingDetail,
          QueryRefund, FinalizePendingRefundSuccess, FinalizeRefundFailed, Refundable,
          Abort, rowVars
  <2>4. QED
    BY <1>1, <2>2, <2>3 DEF Next, RequestRefund, Spend, GatewaySettles, rowVars
<1>2. IInv /\ [Next]_vars =>
        [(status \in {"REFUNDED", "PARTIALLY_REFUNDED"} /\ "overwrite" \notin incidents')
            => status' = status]_vars
    BY <1>1
<1>3. QED
    BY <1>2, Invariance, PTL DEF Spec, RefundedIsFinal
=============================================================================
