----------------------- MODULE PaymentFulfillmentProofs -----------------------
(***************************************************************************)
(* Proofs about PaymentFulfillment for every set of orders and workers.    *)
(***************************************************************************)
EXTENDS PaymentFulfillment, TLAPS

-----------------------------------------------------------------------------
(* Type correctness                                                        *)

\* The moves of a worker keep the types of the handler state.
LEMMA GotoType ==
    ASSUME HandlerTypeOK, NEW w \in Workers, NEW label \in Label,
           job[w].order \in Orders, label = "cancel" => job[w].cancelTo # "none",
           Goto(w, label)
    PROVE  HandlerTypeOK'
BY DEF HandlerTypeOK, Goto

\* So does the start of a handler ...
LEMMA StartType ==
    ASSUME HandlerTypeOK, NEW w \in Workers, NEW o \in Orders, NEW label \in Label \ {"cancel"},
           NEW source \in Source, NEW cancelTo \in CancelTo,
           Start(w, o, label, source, cancelTo)
    PROVE  HandlerTypeOK'
<1>1. job' \in [Workers -> Job]
    BY DEF HandlerTypeOK, Start, Job
<1>2. QED
    BY <1>1 DEF HandlerTypeOK, Start

\* ... and its end, which may acknowledge the notification.
LEMMA ReturnType ==
    ASSUME HandlerTypeOK, NEW w \in Workers, NEW ok, job[w].order \in Orders,
           acked \in [Orders -> BOOLEAN], Return(w, ok)
    PROVE  HandlerTypeOK' /\ acked' \in [Orders -> BOOLEAN]
<1>1. NoJob \in Job /\ "idle" \in Label
    BY DEF NoJob, Job, Source, CancelTo, Label
<1>2. job' \in [Workers -> Job] /\ pc' \in [Workers -> Label]
    BY <1>1 DEF HandlerTypeOK, Return
<1>3. \A v \in Workers :
         /\ pc'[v] # "idle" => job'[v].order \in Orders
         /\ pc'[v] = "cancel" => job'[v].cancelTo # "none"
    BY DEF HandlerTypeOK, Return
<1>4. acked' \in [Orders -> BOOLEAN]
    BY DEF Return
<1>5. QED
    BY <1>2, <1>3, <1>4 DEF HandlerTypeOK

\* Every step of every handler keeps the types.
LEMMA TypeStep == TypeOK /\ [Next]_vars => TypeOK'
<1> SUFFICES ASSUME TypeOK, [Next]_vars PROVE TypeOK'
    OBVIOUS
<1> USE DEF rowVars, ledgerVars, outsideVars, handlerVars, Label, LookupLabels,
        PaidLabels, DeliverLabels, SettleLabels, LeaseLabels
<1>1. CASE UNCHANGED vars
    BY <1>1 DEF vars, TypeOK, RowTypeOK, LedgerTypeOK, OutsideTypeOK, HandlerTypeOK
<1>2. ASSUME NEW o \in Orders, Outside(o) PROVE TypeOK'
    BY <1>2 DEF Outside, Pay, TimeOut, Tick, GatewayStatus,
                TypeOK, RowTypeOK, LedgerTypeOK, OutsideTypeOK, HandlerTypeOK
<1>3. ASSUME NEW o \in Orders, Creation(o) PROVE TypeOK'
    BY <1>3 DEF Creation, CreateOrder, CreatePayment, InvokeProvider, InvokeProviderFails,
                CreateOrderDies, SetStatus, Touch, Status, GatewayStatus,
                TypeOK, RowTypeOK, LedgerTypeOK, OutsideTypeOK, HandlerTypeOK
<1>4. ASSUME NEW w \in Workers, NEW o \in Orders, Request(w, o) PROVE TypeOK'
  <2>1. /\ UNCHANGED <<rowVars, ledgerVars, outsideVars, creating>>
        /\ \E label \in Label \ {"cancel"}, source \in Source, cancelTo \in CancelTo :
              Start(w, o, label, source, cancelTo)
    BY <1>4 DEF Request, Notify, CancelOrder, ExpireTimedOutOrder, Source, CancelTo,
                ReconcilePendingOrder, VerifyOrder, RetryFulfillment
  <2>2. HandlerTypeOK'
    BY <2>1, StartType DEF TypeOK
  <2>3. QED
    BY <2>1, <2>2 DEF TypeOK, RowTypeOK, LedgerTypeOK, OutsideTypeOK
<1>5. ASSUME NEW w \in Workers, NEW o \in Orders,
             CheckPaid(w, o) \/ Confirm(w, o) \/ Fulfil(w, o) \/ Fault(w, o)
      PROVE  TypeOK'
  <2> USE DEF CheckPaid, QueryOrder, QueryOrderFails, PersistTradeNo, CancelCore,
          Confirm, ConfirmPayment, ToPaid, AlreadyProcessed,
          Fulfil, ExecuteFulfillment, AcquireLease, AcquireMissed, ReloadLease,
          LookupCode, CreateCode, Redeem, CheckAssigned, AssignSubscription,
          InvalidateCache, ApplyAffiliateRebate, MarkCompleted, CompleteMissed,
          MarkFailed, Fault, ReturnsError, LosesRead, DeliveryFails, Crash
  <2>1. job[w].order = o /\ pc[w] # "idle"
    BY <1>5 DEF At
  <2>2. HandlerTypeOK' /\ OutsideTypeOK'
    <3>1. \/ \E label \in Label :
                /\ Goto(w, label)
                /\ label = "cancel" => job[w].cancelTo # "none"
                /\ UNCHANGED acked
          \/ \E ok \in BOOLEAN : Return(w, ok)
      BY <1>5 DEF TypeOK, LedgerTypeOK, CodeStatus
    <3>2. HandlerTypeOK' /\ acked' \in [Orders -> BOOLEAN]
      BY <2>1, <3>1, GotoType, ReturnType DEF TypeOK, OutsideTypeOK
    <3>3. gateway' \in [Orders -> GatewayStatus] /\ UNCHANGED <<due, creating>>
      BY <1>5 DEF TypeOK, OutsideTypeOK, GatewayStatus
    <3>4. QED
      BY <3>2, <3>3 DEF TypeOK, OutsideTypeOK
  <2>3. RowTypeOK'
    <3>1. CASE UNCHANGED rowVars
      BY <3>1 DEF TypeOK, RowTypeOK
    <3>2. CASE PersistTradeNo(w, o)
      BY <3>2 DEF Touch, TypeOK, RowTypeOK
    <3>3. CASE CancelCore(w, o)
      <4>1. job[w].cancelTo \in Status
        BY <3>3 DEF At, TypeOK, HandlerTypeOK, Job, CancelTo, Status
      <4>2. QED
        BY <3>3, <4>1 DEF SetStatus, Touch, TypeOK, RowTypeOK
    <3>4. CASE ToPaid(w, o) \/ AcquireLease(w, o)
      BY <3>4 DEF SetStatus, Touch, TypeOK, RowTypeOK, Status
    <3>5. CASE ReloadLease(w, o)
      <4>1. holders[o] \cup {w} \in SUBSET Workers
        BY DEF TypeOK, RowTypeOK
      <4>2. QED
        BY <3>5, <4>1 DEF TypeOK, RowTypeOK
    <3>6. CASE MarkCompleted(w, o)
      BY <3>6 DEF SetStatus, Touch, TypeOK, RowTypeOK, Status
    <3>7. CASE MarkFailed(w, o)
      BY <3>7 DEF SetStatus, Touch, ReleaseLease, TypeOK, RowTypeOK, Status
    <3>8. CASE CompleteMissed(w, o) \/ Crash(w, o)
      BY <3>8 DEF ReleaseLease, TypeOK, RowTypeOK
    <3>9. QED
      BY <1>5, <3>1, <3>2, <3>3, <3>4, <3>5, <3>6, <3>7, <3>8
  <2>4. LedgerTypeOK'
    <3>1. CASE UNCHANGED ledgerVars
      BY <3>1 DEF TypeOK, LedgerTypeOK
    <3>2. CASE CreateCode(w, o)
      BY <3>2 DEF TypeOK, LedgerTypeOK, CodeStatus
    <3>3. deliveries[o] + 1 \in Nat /\ rebates[o] + 1 \in Nat
      BY DEF TypeOK, LedgerTypeOK
    <3>4. CASE Redeem(w, o)
      BY <3>3, <3>4 DEF TypeOK, LedgerTypeOK, CodeStatus
    <3>5. CASE AssignSubscription(w, o)
      BY <3>3, <3>5 DEF TypeOK, LedgerTypeOK
    <3>6. CASE ApplyAffiliateRebate(w, o)
      BY <3>3, <3>6 DEF TypeOK, LedgerTypeOK, RebateStatus
    <3>7. QED
      BY <1>5, <3>1, <3>2, <3>4, <3>5, <3>6
  <2>5. QED
    BY <2>2, <2>3, <2>4 DEF TypeOK
<1>6. QED
    BY <1>1, <1>2, <1>3, <1>4, <1>5 DEF Next

-----------------------------------------------------------------------------
(* The inductive invariant                                                 *)

\* The record that makes delivery idempotent: the redeem code is used, or the
\* SUBSCRIPTION_ASSIGNED audit row exists.
Granted(o) == IF o \in SubOrders THEN assigned[o] ELSE code[o] = "used"

LedgerInv ==
    \A o \in Orders :
        /\ deliveries[o] = IF Granted(o) THEN 1 ELSE 0
        /\ rebates[o] = IF rebate[o] = "applied" THEN 1 ELSE 0
        /\ Granted(o) => gateway[o] = "paid"

\* An order can be FAILED and delivered without paid_at: its creation failed
\* after the provider had it, and the payment came all the same.
RowInv ==
    \A o \in Orders :
        /\ paidAt[o] => gateway[o] = "paid"
        /\ paidAt[o] \/ Granted(o) => status[o] \in PaidStatus
        /\ status[o] = "ABSENT" => gateway[o] = "none" /\ o \notin creating
        /\ status[o] = "COMPLETED" => Granted(o) /\ rebate[o] # "none"

\* What a worker may rely on at its place in the handler, whatever the other
\* workers did since it last looked.
WorkerOK(w) ==
    /\ pc[w] \in PaidLabels \cup LeaseLabels => gateway[job[w].order] = "paid"
    /\ pc[w] \in LeaseLabels \cup {"reload"} => status[job[w].order] \in PaidStatus
    /\ pc[w] \in {"lookupCode", "createCode", "redeem"} => job[w].order \notin SubOrders
    /\ pc[w] \in {"checkAssigned", "assign", "invalidateCache"} =>
          job[w].order \in SubOrders
    /\ pc[w] \in SettleLabels \cup {"invalidateCache"} => Granted(job[w].order)
    /\ pc[w] \in {"markCompleted", "completeMissed"} => rebate[job[w].order] # "none"

WorkerInv == \A w \in Workers : WorkerOK(w)

IInv == TypeOK /\ LedgerInv /\ RowInv /\ WorkerInv

\* Which actions write the delivery records: the others leave them alone.
LedgerWrite(w, o) ==
    \/ CreateCode(w, o)
    \/ Redeem(w, o)
    \/ AssignSubscription(w, o)
    \/ ApplyAffiliateRebate(w, o)

\* The delivery records change by these actions only.
LEMMA LedgerWriters ==
    ASSUME Next
    PROVE  UNCHANGED ledgerVars \/ \E w \in Workers, o \in Orders : LedgerWrite(w, o)
<1> USE DEF rowVars, ledgerVars, outsideVars, handlerVars
<1>1. ASSUME NEW o \in Orders, Outside(o) \/ Creation(o) PROVE UNCHANGED ledgerVars
    BY <1>1 DEF Outside, Pay, TimeOut, Tick, Creation, CreateOrder, CreatePayment,
                InvokeProvider, InvokeProviderFails, CreateOrderDies
<1>2. ASSUME NEW w \in Workers, NEW o \in Orders,
             Request(w, o) \/ CheckPaid(w, o) \/ Confirm(w, o) \/ Fault(w, o)
      PROVE  UNCHANGED ledgerVars
    BY <1>2 DEF Request, Notify, CancelOrder, ExpireTimedOutOrder,
                ReconcilePendingOrder, VerifyOrder, RetryFulfillment,
                CheckPaid, QueryOrder, QueryOrderFails, PersistTradeNo, CancelCore,
                Confirm, ConfirmPayment, ToPaid, AlreadyProcessed,
                Fault, ReturnsError, LosesRead, DeliveryFails, Crash
<1>3. ASSUME NEW w \in Workers, NEW o \in Orders, Fulfil(w, o)
      PROVE  UNCHANGED ledgerVars \/ LedgerWrite(w, o)
    BY <1>3 DEF Fulfil, LedgerWrite, ExecuteFulfillment, AcquireLease, AcquireMissed,
                ReloadLease, LookupCode, CheckAssigned, InvalidateCache,
                MarkCompleted, CompleteMissed, MarkFailed
<1>4. QED
    BY <1>1, <1>2, <1>3 DEF Next

\* Which actions change the order at the provider.
LEMMA GatewayWriters ==
    ASSUME Next
    PROVE  \/ UNCHANGED gateway
           \/ \E o \in Orders : Pay(o) \/ CreatePayment(o)
           \/ \E w \in Workers, o \in Orders : QueryOrder(w, o)
<1> USE DEF rowVars, ledgerVars, outsideVars, handlerVars
<1>1. ASSUME NEW o \in Orders, Outside(o) \/ Creation(o)
      PROVE  UNCHANGED gateway \/ Pay(o) \/ CreatePayment(o)
    BY <1>1 DEF Outside, TimeOut, Tick, Creation, CreateOrder, InvokeProvider,
                InvokeProviderFails, CreateOrderDies
<1>2. ASSUME NEW w \in Workers, NEW o \in Orders,
             Request(w, o) \/ CheckPaid(w, o) \/ Confirm(w, o) \/ Fault(w, o)
      PROVE  UNCHANGED gateway \/ QueryOrder(w, o)
    BY <1>2 DEF Request, Notify, CancelOrder, ExpireTimedOutOrder,
                ReconcilePendingOrder, VerifyOrder, RetryFulfillment,
                CheckPaid, QueryOrderFails, PersistTradeNo, CancelCore,
                Confirm, ConfirmPayment, ToPaid, AlreadyProcessed,
                Fault, ReturnsError, LosesRead, DeliveryFails, Crash
<1>3. ASSUME NEW w \in Workers, NEW o \in Orders, Fulfil(w, o)
      PROVE  UNCHANGED gateway
    BY <1>3 DEF Fulfil, ExecuteFulfillment, AcquireLease, AcquireMissed,
                ReloadLease, LookupCode, CreateCode, Redeem, CheckAssigned,
                AssignSubscription, InvalidateCache, ApplyAffiliateRebate,
                MarkCompleted, CompleteMissed, MarkFailed
<1>4. QED
    BY <1>1, <1>2, <1>3 DEF Next

\* A payment, a delivery record and a rebate decision are never taken back.
LEMMA Stability ==
    ASSUME IInv, Next, NEW o \in Orders
    PROVE  /\ gateway[o] = "paid" => gateway'[o] = "paid"
           /\ Granted(o) => Granted(o)'
           /\ rebate[o] # "none" => rebate'[o] # "none"
<1>1. gateway[o] = "paid" => gateway'[o] = "paid"
    BY GatewayWriters DEF IInv, TypeOK, OutsideTypeOK, RowInv, Pay, CreatePayment,
                          QueryOrder
<1>2. (Granted(o) => Granted(o)') /\ (rebate[o] # "none" => rebate'[o] # "none")
  <2>1. CASE UNCHANGED ledgerVars
    BY <2>1 DEF ledgerVars, Granted
  <2>2. ASSUME NEW w \in Workers, NEW x \in Orders, LedgerWrite(w, x)
        PROVE  (Granted(o) => Granted(o)') /\ (rebate[o] # "none" => rebate'[o] # "none")
    BY <2>2 DEF LedgerWrite, IInv, TypeOK, LedgerTypeOK, Granted, CreateCode, Redeem,
                AssignSubscription, ApplyAffiliateRebate
  <2>3. QED
    BY <2>1, <2>2, LedgerWriters
<1>3. QED
    BY <1>1, <1>2

\* Deliveries and rebates are counted exactly once per record.
LEMMA LedgerStep ==
    ASSUME IInv, Next
    PROVE  LedgerInv'
<1> USE DEF IInv, TypeOK, LedgerTypeOK, LedgerInv, Granted
<1>1. CASE UNCHANGED ledgerVars
    BY <1>1, Stability DEF ledgerVars
<1>2. ASSUME NEW w \in Workers, NEW o \in Orders, CreateCode(w, o) PROVE LedgerInv'
    BY <1>2 DEF CreateCode, outsideVars
<1>3. ASSUME NEW w \in Workers, NEW o \in Orders, Redeem(w, o) PROVE LedgerInv'
  <2>1. gateway[o] = "paid" /\ o \notin SubOrders
    BY <1>3 DEF Redeem, At, WorkerInv, WorkerOK, PaidLabels, LeaseLabels, DeliverLabels
  <2>2. QED
    BY <1>3, <2>1 DEF Redeem, outsideVars
<1>4. ASSUME NEW w \in Workers, NEW o \in Orders, AssignSubscription(w, o) PROVE LedgerInv'
  <2>1. gateway[o] = "paid" /\ o \in SubOrders
    BY <1>4 DEF AssignSubscription, At, WorkerInv, WorkerOK, PaidLabels,
                LeaseLabels, DeliverLabels
  <2>2. QED
    BY <1>4, <2>1 DEF AssignSubscription, outsideVars
<1>5. ASSUME NEW w \in Workers, NEW o \in Orders, ApplyAffiliateRebate(w, o)
      PROVE  LedgerInv'
    BY <1>5 DEF ApplyAffiliateRebate, outsideVars
<1>6. QED
    BY <1>1, <1>2, <1>3, <1>4, <1>5, LedgerWriters DEF LedgerWrite

\* Which actions write the status, paid_at or the creation in flight.
LEMMA RowWriters ==
    ASSUME Next
    PROVE  \/ UNCHANGED <<status, paidAt, creating>>
           \/ \E o \in Orders : Creation(o)
           \/ \E w \in Workers, o \in Orders :
                 \/ CancelCore(w, o) \/ ToPaid(w, o) \/ AcquireLease(w, o)
                 \/ MarkCompleted(w, o) \/ MarkFailed(w, o)
<1> USE DEF rowVars, ledgerVars, outsideVars, handlerVars
<1>1. ASSUME NEW o \in Orders, Outside(o)
      PROVE  UNCHANGED <<status, paidAt, creating>>
    BY <1>1 DEF Outside, Pay, TimeOut, Tick
<1>2. ASSUME NEW w \in Workers, NEW o \in Orders,
             Request(w, o) \/ CheckPaid(w, o) \/ Confirm(w, o) \/ Fault(w, o)
      PROVE  UNCHANGED <<status, paidAt, creating>> \/ CancelCore(w, o) \/ ToPaid(w, o)
    BY <1>2 DEF Request, Notify, CancelOrder, ExpireTimedOutOrder,
                ReconcilePendingOrder, VerifyOrder, RetryFulfillment,
                CheckPaid, QueryOrder, QueryOrderFails, PersistTradeNo,
                Confirm, ConfirmPayment, AlreadyProcessed,
                Fault, ReturnsError, LosesRead, DeliveryFails, Crash
<1>3. ASSUME NEW w \in Workers, NEW o \in Orders, Fulfil(w, o)
      PROVE  \/ UNCHANGED <<status, paidAt, creating>>
             \/ AcquireLease(w, o) \/ MarkCompleted(w, o) \/ MarkFailed(w, o)
    BY <1>3 DEF Fulfil, ExecuteFulfillment, AcquireMissed,
                ReloadLease, LookupCode, CreateCode, Redeem, CheckAssigned,
                AssignSubscription, InvalidateCache, ApplyAffiliateRebate,
                CompleteMissed
<1>4. QED
    BY <1>1, <1>2, <1>3 DEF Next

\* No write decided on an older read takes a paid order back, and only a failing
\* creation hides a completion.
LEMMA StatusStays ==
    ASSUME TypeOK, Next, NEW o \in Orders, status[o] \in PaidStatus
    PROVE  /\ status'[o] \in PaidStatus
           /\ (status[o] = "COMPLETED" /\ o \notin creating) => status'[o] = "COMPLETED"
<1> USE DEF TypeOK, RowTypeOK, PaidStatus
<1>1. CASE UNCHANGED <<status, paidAt, creating>>
    BY <1>1
<1>2. ASSUME NEW x \in Orders, Creation(x)
      PROVE  \/ UNCHANGED status
             \/ status[x] = "ABSENT" /\ SetStatus(x, "PENDING")
             \/ x \in creating /\ SetStatus(x, "FAILED")
    BY <1>2 DEF Creation, CreateOrder, CreatePayment, InvokeProvider,
                InvokeProviderFails, CreateOrderDies, rowVars
<1>3. ASSUME NEW w \in Workers, NEW x \in Orders,
             \/ CancelCore(w, x) \/ ToPaid(w, x) \/ AcquireLease(w, x)
             \/ MarkCompleted(w, x) \/ MarkFailed(w, x)
      PROVE  \/ UNCHANGED status
             \/ status[x] \notin PaidStatus /\ \E s : SetStatus(x, s)
             \/ status[x] # "COMPLETED" /\ \E s \in {"RECHARGING", "FAILED", "COMPLETED"} :
                                                SetStatus(x, s)
    BY <1>3 DEF CancelCore, ToPaid, Payable, AcquireLease, LeaseFree, MarkCompleted,
                MarkFailed, HoldsLease, rowVars
<1>4. QED
    BY <1>1, <1>2, <1>3, RowWriters DEF SetStatus

\* The row invariant: in particular no status write hides a payment.
LEMMA RowStep ==
    ASSUME IInv, Next
    PROVE  RowInv'
<1> USE DEF IInv, TypeOK, RowTypeOK, OutsideTypeOK, RowInv, PaidStatus
<1>1. ASSUME NEW o \in Orders, Granted(o)'
      PROVE  status'[o] \in PaidStatus
  <2>1. CASE Granted(o)
    BY <2>1, StatusStays
  <2>2. ASSUME NEW w \in Workers, NEW x \in Orders, LedgerWrite(w, x), ~Granted(o)
        PROVE  status'[o] \in PaidStatus
    <3>1. /\ x = o
          /\ pc[w] \in {"redeem", "assign"}
          /\ job[w].order = x
      BY <1>1, <2>2 DEF LedgerWrite, CreateCode, Redeem, AssignSubscription,
            ApplyAffiliateRebate, At, Granted, LedgerTypeOK
    <3>2. QED
      BY <3>1, StatusStays DEF WorkerInv, WorkerOK, LeaseLabels, DeliverLabels
  <2>3. QED
    BY <1>1, <2>1, <2>2, LedgerWriters DEF ledgerVars, Granted
<1>2. ASSUME NEW o \in Orders, paidAt'[o]
      PROVE  gateway'[o] = "paid" /\ status'[o] \in PaidStatus
  <2>1. CASE paidAt[o]
    BY <2>1, Stability, StatusStays
  <2>2. ASSUME NEW w \in Workers, NEW x \in Orders, ToPaid(w, x), ~paidAt[o]
        PROVE  gateway'[o] = "paid" /\ status'[o] \in PaidStatus
    <3>1. gateway[x] = "paid"
      BY <2>2 DEF ToPaid, At, WorkerInv, WorkerOK, PaidLabels
    <3>2. QED
      BY <1>2, <2>2, <3>1, Stability DEF ToPaid, SetStatus, rowVars
  <2>3. UNCHANGED paidAt \/ \E w \in Workers, x \in Orders : ToPaid(w, x)
    BY RowWriters DEF Creation, CreateOrder, CreatePayment, InvokeProvider,
          InvokeProviderFails, CreateOrderDies, CancelCore, AcquireLease,
          MarkCompleted, MarkFailed, rowVars
  <2>4. QED
    BY <1>2, <2>1, <2>2, <2>3
<1>3. \/ UNCHANGED status
      \/ \E x \in Orders, s \in Status \ {"ABSENT", "COMPLETED"} : SetStatus(x, s)
      \/ \E w \in Workers, x \in Orders : MarkCompleted(w, x) /\ SetStatus(x, "COMPLETED")
  <2>1. ASSUME NEW x \in Orders, Creation(x)
        PROVE  \/ UNCHANGED status
               \/ \E s \in Status \ {"ABSENT", "COMPLETED"} : SetStatus(x, s)
    BY <2>1 DEF Creation, CreateOrder, CreatePayment, InvokeProvider,
                InvokeProviderFails, CreateOrderDies, rowVars, Status
  <2>2. ASSUME NEW w \in Workers, NEW x \in Orders,
               CancelCore(w, x) \/ ToPaid(w, x) \/ AcquireLease(w, x) \/ MarkFailed(w, x)
        PROVE  \/ UNCHANGED status
               \/ \E s \in Status \ {"ABSENT", "COMPLETED"} : SetStatus(x, s)
    BY <2>2 DEF CancelCore, ToPaid, AcquireLease, MarkFailed, rowVars, Status, At,
                HandlerTypeOK, Job, CancelTo
  <2>3. ASSUME NEW w \in Workers, NEW x \in Orders, MarkCompleted(w, x)
        PROVE  UNCHANGED status \/ SetStatus(x, "COMPLETED")
    BY <2>3 DEF MarkCompleted
  <2>4. QED
    BY <2>1, <2>2, <2>3, RowWriters
<1>4. ASSUME NEW o \in Orders, status'[o] = "ABSENT"
      PROVE  gateway'[o] = "none" /\ o \notin creating'
  <2>1. status[o] = "ABSENT"
    BY <1>3, <1>4 DEF SetStatus
  <2>2. gateway'[o] = "none"
    BY <2>1, GatewayWriters DEF Pay, CreatePayment, QueryOrder
  <2>3. o \notin creating'
    BY <1>4, <2>1, RowWriters DEF Creation, CreateOrder, CreatePayment, InvokeProvider,
          InvokeProviderFails, CreateOrderDies, CancelCore, ToPaid, AcquireLease,
          MarkCompleted, MarkFailed, SetStatus
  <2>4. QED
    BY <2>2, <2>3
<1>5. ASSUME NEW o \in Orders, status'[o] = "COMPLETED"
      PROVE  (Granted(o) /\ rebate[o] # "none")'
  <2>1. CASE status[o] = "COMPLETED"
    BY <2>1, Stability
  <2>2. CASE status[o] # "COMPLETED"
    <3>1. PICK w \in Workers : MarkCompleted(w, o)
      BY <1>3, <1>5, <2>2 DEF SetStatus
    <3>2. Granted(o) /\ rebate[o] # "none"
      BY <3>1 DEF MarkCompleted, At, WorkerInv, WorkerOK, SettleLabels
    <3>3. QED
      BY <3>2, Stability
  <2>3. QED
    BY <2>1, <2>2
<1>6. QED
    BY <1>1, <1>2, <1>4, <1>5

\* A step of worker w moves only w.
LEMMA OthersStay ==
    ASSUME TypeOK, NEW w \in Workers, NEW o \in Orders,
           Request(w, o) \/ CheckPaid(w, o) \/ Confirm(w, o) \/ Fulfil(w, o) \/ Fault(w, o)
    PROVE  \A v \in Workers \ {w} : pc'[v] = pc[v] /\ job'[v] = job[v]
<1> USE DEF TypeOK, HandlerTypeOK, Goto, Return, Start
<1>1. CASE Request(w, o)
    BY <1>1 DEF Request, Notify, CancelOrder, ExpireTimedOutOrder,
                ReconcilePendingOrder, VerifyOrder, RetryFulfillment
<1>2. CASE CheckPaid(w, o) \/ Confirm(w, o) \/ Fault(w, o)
    BY <1>2 DEF CheckPaid, QueryOrder, QueryOrderFails, PersistTradeNo, CancelCore,
                Confirm, ConfirmPayment, ToPaid, AlreadyProcessed,
                Fault, ReturnsError, LosesRead, DeliveryFails, Crash
<1>3. CASE Fulfil(w, o)
    BY <1>3 DEF Fulfil, ExecuteFulfillment, AcquireLease, AcquireMissed,
                ReloadLease, LookupCode, CreateCode, Redeem, CheckAssigned,
                AssignSubscription, InvalidateCache, ApplyAffiliateRebate,
                MarkCompleted, CompleteMissed, MarkFailed
<1>4. QED
    BY <1>1, <1>2, <1>3

\* What a worker relies on holds at its next place as well.
LEMMA WorkerStep ==
    ASSUME IInv, Next
    PROVE  WorkerInv'
<1> USE DEF IInv, TypeOK, PaidLabels, LeaseLabels, DeliverLabels, SettleLabels
<1>1. ASSUME NEW v \in Workers, UNCHANGED <<pc[v], job[v]>>
      PROVE  WorkerOK(v)'
    BY <1>1, Stability, StatusStays DEF HandlerTypeOK, WorkerInv, WorkerOK
<1>2. ASSUME NEW o \in Orders, Outside(o) \/ Creation(o) PROVE WorkerInv'
  <2>1. UNCHANGED <<pc, job>>
    BY <1>2 DEF Outside, Pay, TimeOut, Tick, Creation, CreateOrder, CreatePayment,
                InvokeProvider, InvokeProviderFails, CreateOrderDies, handlerVars
  <2>2. QED
    BY <1>1, <2>1 DEF WorkerInv
<1>3. ASSUME NEW w \in Workers, NEW o \in Orders,
             Request(w, o) \/ CheckPaid(w, o) \/ Confirm(w, o) \/ Fulfil(w, o) \/ Fault(w, o)
      PROVE  WorkerInv'
  <2> USE DEF HandlerTypeOK, WorkerOK, At, Goto, Return, Start, Granted
  <2>1. CASE Request(w, o)
    <3>1. \/ pc'[w] \in {"confirm", "query"}
          \/ pc'[w] = "execute" /\ job'[w].order = o /\ gateway'[o] = "paid"
      BY <2>1, Stability DEF Request, Notify, CancelOrder, ExpireTimedOutOrder,
            ReconcilePendingOrder, VerifyOrder, RetryFulfillment, RowInv
    <3>2. WorkerOK(w)'
      BY <3>1
    <3>3. QED
      BY <1>1, <2>1, <3>2, OthersStay DEF WorkerInv
  <2>2. CASE CheckPaid(w, o)
    <3>1. pc'[w] \in {"idle", "persist", "confirm", "cancel"}
      BY <2>2 DEF CheckPaid, QueryOrder, QueryOrderFails, PersistTradeNo, CancelCore
    <3>2. WorkerOK(w)'
      BY <3>1
    <3>3. QED
      BY <1>1, <2>2, <3>2, OthersStay DEF WorkerInv
  <2>3. CASE Confirm(w, o)
    <3>1. \/ pc'[w] = "idle"
          \/ /\ pc'[w] \in {"toPaid", "alreadyProcessed", "execute"}
             /\ job'[w].order = o
             /\ gateway[o] = "paid"
      BY <2>3 DEF Confirm, ConfirmPayment, ToPaid, AlreadyProcessed,
                  NotificationAccepted, WorkerInv
    <3>2. WorkerOK(w)'
      BY <3>1, Stability
    <3>3. QED
      BY <1>1, <2>3, <3>2, OthersStay DEF WorkerInv
  <2>4. CASE Fulfil(w, o)
    <3>1. job[w].order = o /\ gateway[o] = "paid" /\ gateway'[o] = "paid"
      BY <2>4, Stability DEF Fulfil, WorkerInv, ExecuteFulfillment, AcquireLease,
            AcquireMissed, ReloadLease, LookupCode, CreateCode, Redeem, CheckAssigned,
            AssignSubscription, InvalidateCache, ApplyAffiliateRebate,
            MarkCompleted, CompleteMissed, MarkFailed
    <3>2. pc'[w] \in LeaseLabels \cup {"reload"} => status'[o] \in PaidStatus
      <4>1. CASE pc[w] \in LeaseLabels \cup {"reload"}
        BY <3>1, <4>1, StatusStays DEF WorkerInv
      <4>2. CASE AcquireLease(w, o)
        BY <4>2 DEF AcquireLease, SetStatus, RowTypeOK, PaidStatus
      <4>3. CASE ExecuteFulfillment(w, o) \/ AcquireMissed(w, o)
        BY <4>3 DEF ExecuteFulfillment, AcquireMissed
      <4>4. QED
        BY <2>4, <4>1, <4>2, <4>3 DEF Fulfil, ReloadLease, LookupCode, CreateCode, Redeem,
              CheckAssigned, AssignSubscription, InvalidateCache, ApplyAffiliateRebate,
              MarkCompleted, CompleteMissed, MarkFailed
    <3>3. SUFFICES WorkerOK(w)'
      BY <1>1, <2>4, OthersStay DEF WorkerInv
    <3>4. CASE ExecuteFulfillment(w, o) \/ AcquireLease(w, o) \/ AcquireMissed(w, o)
      BY <3>1, <3>2, <3>4 DEF ExecuteFulfillment, AcquireLease, AcquireMissed
    <3>5. CASE ReloadLease(w, o)
      BY <3>1, <3>2, <3>5 DEF ReloadLease
    <3>6. CASE LookupCode(w, o) \/ CreateCode(w, o)
      BY <3>1, <3>2, <3>6, Stability DEF LookupCode, CreateCode, LedgerTypeOK, CodeStatus,
                                         WorkerInv
    <3>7. CASE Redeem(w, o)
      BY <3>1, <3>2, <3>7 DEF Redeem, LedgerTypeOK, WorkerInv
    <3>8. CASE CheckAssigned(w, o) \/ AssignSubscription(w, o) \/ InvalidateCache(w, o)
      BY <3>1, <3>2, <3>8, Stability DEF CheckAssigned, AssignSubscription,
                                         InvalidateCache, LedgerTypeOK, WorkerInv, ledgerVars
    <3>9. CASE ApplyAffiliateRebate(w, o)
      BY <3>1, <3>2, <3>9, Stability DEF ApplyAffiliateRebate, LedgerTypeOK, WorkerInv
    <3>10. CASE MarkCompleted(w, o) \/ CompleteMissed(w, o) \/ MarkFailed(w, o)
      BY <3>1, <3>2, <3>10, Stability DEF MarkCompleted, CompleteMissed, MarkFailed, WorkerInv
    <3>11. QED
      BY <2>4, <3>4, <3>5, <3>6, <3>7, <3>8, <3>9, <3>10 DEF Fulfil
  <2>5. CASE Fault(w, o)
    <3>1. pc'[w] = "idle" \/ (pc'[w] = "markFailed" /\ job'[w].order = o /\ gateway[o] = "paid")
      BY <2>5 DEF Fault, ReturnsError, LosesRead, DeliveryFails, Crash, WorkerInv
    <3>2. pc'[w] = "markFailed" => status'[o] \in PaidStatus
      BY <2>5, StatusStays DEF Fault, ReturnsError, LosesRead, DeliveryFails, Crash, WorkerInv
    <3>3. WorkerOK(w)'
      BY <3>1, <3>2, Stability
    <3>4. QED
      BY <1>1, <2>5, <3>3, OthersStay DEF WorkerInv
  <2>6. QED
    BY <1>3, <2>1, <2>2, <2>3, <2>4, <2>5
<1>4. QED
    BY <1>2, <1>3 DEF Next

-----------------------------------------------------------------------------
(* Theorems                                                                *)

\* The initial states satisfy the inductive invariant ...
LEMMA InitIInv == Init => IInv
BY OrdersAssumption DEF Init, IInv, TypeOK, RowTypeOK, LedgerTypeOK, OutsideTypeOK,
      HandlerTypeOK, LedgerInv, RowInv, WorkerInv, WorkerOK, Granted, Status,
      CodeStatus, RebateStatus, GatewayStatus, Label, LookupLabels, PaidLabels,
      DeliverLabels, SettleLabels, LeaseLabels, Job, NoJob, Source, CancelTo

\* ... and every step keeps it.
LEMMA NextIInv == IInv /\ [Next]_vars => IInv'
<1>1. ASSUME IInv, Next PROVE IInv'
    BY <1>1, TypeStep, LedgerStep, RowStep, WorkerStep DEF IInv
<1>2. ASSUME IInv, UNCHANGED vars PROVE IInv'
    BY <1>2 DEF vars, rowVars, ledgerVars, outsideVars, handlerVars, IInv, TypeOK,
      RowTypeOK, LedgerTypeOK, OutsideTypeOK, HandlerTypeOK, LedgerInv, RowInv,
      WorkerInv, WorkerOK, Granted
<1>3. QED
    BY <1>1, <1>2

\* The inductive invariant holds in every reachable state.
THEOREM Invariance == Spec => []IInv
BY InitIInv, NextIInv, PTL DEF Spec

\* The order row, the delivery records and the handlers keep their types.
THEOREM TypeCorrect == Spec => []TypeOK
<1>1. IInv => TypeOK
    BY DEF IInv
<1>2. QED
    BY <1>1, Invariance, PTL

\* A balance credit, a subscription extension and an inviter rebate happen at
\* most once per order, for any number of workers, retries and crashes.
THEOREM AtMostOnce == Spec => []DeliveredAtMostOnce
<1>1. ASSUME IInv, NEW o \in Orders
      PROVE  deliveries[o] <= 1 /\ rebates[o] <= 1
  <2>1. deliveries[o] \in {0, 1} /\ rebates[o] \in {0, 1}
    BY <1>1 DEF IInv, LedgerInv
  <2>2. QED
    BY <2>1
<1>2. IInv => DeliveredAtMostOnce
    BY <1>1 DEF DeliveredAtMostOnce
<1>3. QED
    BY <1>2, Invariance, PTL

\* Nothing is delivered for an order that was not paid with the right amount.
THEOREM OnlyIfPaid == Spec => []DeliveredOnlyIfPaid
<1>1. IInv => DeliveredOnlyIfPaid
    BY DEF IInv, LedgerInv, DeliveredOnlyIfPaid
<1>2. QED
    BY <1>1, Invariance, PTL

\* COMPLETED means delivered, and the rebate decided.
THEOREM Settled == Spec => []CompletedIsSettled
<1>1. IInv => CompletedIsSettled
    BY DEF IInv, LedgerInv, RowInv, CompletedIsSettled
<1>2. QED
    BY <1>1, Invariance, PTL

\* A paid or delivered order stays paid and, once created, a completed one
\* completed, for any number of racing cancels, expiries, creations and retries.
THEOREM PaidFinal == Spec => PaidIsFinal
<1>1. ASSUME IInv, Next, NEW o \in Orders
      PROVE  /\ (paidAt[o] \/ deliveries[o] > 0) => status'[o] \in PaidStatus
             /\ (status[o] = "COMPLETED" /\ o \notin creating) => status'[o] = "COMPLETED"
  <2>1. deliveries[o] > 0 => Granted(o)
    BY <1>1 DEF IInv, LedgerInv
  <2>2. paidAt[o] \/ deliveries[o] > 0 => status[o] \in PaidStatus
    BY <1>1, <2>1 DEF IInv, RowInv
  <2>3. QED
    BY <1>1, <2>2, StatusStays DEF IInv, PaidStatus
<1>2. IInv /\ [Next]_vars =>
        [\A o \in Orders :
          /\ paidAt[o] \/ deliveries[o] > 0 => status'[o] \in PaidStatus
          /\ status[o] = "COMPLETED" /\ o \notin creating => status'[o] = "COMPLETED"]_vars
    BY <1>1
<1>3. QED
    BY <1>2, Invariance, PTL DEF Spec, PaidIsFinal

-----------------------------------------------------------------------------
(* The service implements PaymentPromise                                   *)

\* A step that moves a promise variable is one of three; it moves only that one.
LEMMA PromiseStep ==
    ASSUME IInv, [Next]_vars
    PROVE  [Promise!PromiseNext]_(Promise!promiseVars)
<1> DEFINE received == [o \in Orders |-> gateway[o] = "paid"]
           completed == [o \in Orders |-> status[o] = "COMPLETED" /\ o \notin creating]
<1> USE DEF Promise!PromiseNext, Promise!promiseVars
<1>1. CASE UNCHANGED vars
    BY <1>1 DEF vars, rowVars, ledgerVars, outsideVars
<1>2. CASE Next
  <2>1. \/ UNCHANGED received
        \/ /\ UNCHANGED <<deliveries, completed>>
           /\ \E o \in Orders : Promise!Receive(o)
    <3>1. ASSUME NEW o \in Orders, Pay(o)
          PROVE  UNCHANGED received \/ Promise!Receive(o)
      BY <3>1 DEF Pay, rowVars, ledgerVars, IInv, TypeOK, OutsideTypeOK, Promise!Receive
    <3>2. ASSUME NEW o \in Orders, CreatePayment(o) PROVE UNCHANGED received
      BY <3>2 DEF CreatePayment, IInv, TypeOK, OutsideTypeOK, RowInv
    <3>3. ASSUME NEW w \in Workers, NEW o \in Orders, QueryOrder(w, o)
          PROVE  UNCHANGED received
      BY <3>3 DEF QueryOrder, IInv, TypeOK, OutsideTypeOK
    <3>4. QED
      BY <1>2, <3>1, <3>2, <3>3, GatewayWriters DEF Promise!Receive
  <2>2. \/ UNCHANGED deliveries
        \/ /\ UNCHANGED <<received, completed>>
           /\ \E o \in Orders : Promise!Deliver(o)
    <3>1. ASSUME NEW w \in Workers, NEW o \in Orders, Redeem(w, o) \/ AssignSubscription(w, o)
          PROVE  UNCHANGED deliveries \/ Promise!Deliver(o)
      <4>1. gateway[o] = "paid"
        BY <3>1 DEF Redeem, AssignSubscription, At, IInv, WorkerInv, WorkerOK,
                    PaidLabels, LeaseLabels, DeliverLabels
      <4>2. UNCHANGED deliveries \/ (~Granted(o) /\ deliveries' = [deliveries EXCEPT ![o] = @ + 1])
        BY <3>1 DEF Redeem, AssignSubscription, Granted, At, IInv, WorkerInv, WorkerOK,
                    DeliverLabels
      <4>3. ~Granted(o) => deliveries[o] = 0
        BY DEF IInv, LedgerInv
      <4>4. UNCHANGED <<status, gateway, creating>>
        BY <3>1 DEF Redeem, AssignSubscription, rowVars, outsideVars
      <4>5. QED
        BY <4>1, <4>2, <4>3, <4>4, 0 + 1 = 1 DEF Promise!Deliver, IInv, TypeOK, LedgerTypeOK
    <3>2. ASSUME NEW w \in Workers, NEW o \in Orders,
                 CreateCode(w, o) \/ ApplyAffiliateRebate(w, o)
          PROVE  UNCHANGED deliveries
      BY <3>2 DEF CreateCode, ApplyAffiliateRebate
    <3>3. QED
      BY <1>2, <3>1, <3>2, LedgerWriters DEF LedgerWrite, ledgerVars, Promise!Deliver
  <2>3. \/ UNCHANGED completed
        \/ /\ UNCHANGED <<received, deliveries>>
           /\ \E o \in Orders : Promise!Complete(o)
    <3>1. ASSUME NEW o \in Orders, Creation(o)
          PROVE  UNCHANGED completed \/ Promise!Complete(o)
      <4>1. CASE CreateOrder(o)
        BY <4>1 DEF CreateOrder, SetStatus, IInv, TypeOK, RowTypeOK, OutsideTypeOK
      <4>2. CASE CreatePayment(o)
        BY <4>2 DEF CreatePayment, rowVars
      <4>3. CASE InvokeProviderFails(o)
        BY <4>3 DEF InvokeProviderFails, SetStatus, IInv, TypeOK, RowTypeOK, OutsideTypeOK
      <4>4. CASE InvokeProvider(o) \/ CreateOrderDies(o)
        <5>1. /\ UNCHANGED <<status, gateway, deliveries>>
              /\ creating' = creating \ {o}
              /\ o \in creating
          BY <4>4 DEF InvokeProvider, CreateOrderDies, rowVars, ledgerVars, outsideVars
        <5>2. CASE status[o] # "COMPLETED"
          BY <5>1, <5>2
        <5>3. CASE status[o] = "COMPLETED"
          <6>1. deliveries[o] = 1
            BY <5>3 DEF IInv, RowInv, LedgerInv
          <6>2. completed' = [completed EXCEPT ![o] = TRUE]
            BY <5>1, <5>3
          <6>3. QED
            BY <5>1, <6>1, <6>2 DEF Promise!Complete
        <5>4. QED
          BY <5>2, <5>3
      <4>5. QED
        BY <3>1, <4>1, <4>2, <4>3, <4>4 DEF Creation
    <3>2. ASSUME NEW w \in Workers, NEW o \in Orders,
                 CancelCore(w, o) \/ ToPaid(w, o) \/ AcquireLease(w, o) \/ MarkFailed(w, o)
          PROVE  UNCHANGED completed
      <4>1. \/ UNCHANGED status
            \/ status[o] # "COMPLETED" /\ \E s \in Status \ {"COMPLETED"} : SetStatus(o, s)
        BY <3>2 DEF CancelCore, ToPaid, Payable, AcquireLease, LeaseFree, MarkFailed,
              HoldsLease, rowVars, IInv, TypeOK, HandlerTypeOK, Job, CancelTo, At, Status
      <4>2. UNCHANGED creating
        BY <3>2 DEF CancelCore, ToPaid, AcquireLease, MarkFailed
      <4>3. QED
        BY <4>1, <4>2 DEF SetStatus, IInv, TypeOK, RowTypeOK
    <3>3. ASSUME NEW w \in Workers, NEW o \in Orders, MarkCompleted(w, o)
          PROVE  UNCHANGED completed \/ Promise!Complete(o)
      <4>1. Granted(o) /\ deliveries[o] = 1
        BY <3>3 DEF MarkCompleted, At, IInv, WorkerInv, WorkerOK, SettleLabels, LedgerInv
      <4>2. QED
        BY <3>3, <4>1 DEF MarkCompleted, HoldsLease, SetStatus, ledgerVars, IInv, TypeOK,
                          RowTypeOK, Promise!Complete
    <3>4. QED
      BY <1>2, <3>1, <3>2, <3>3, RowWriters DEF Promise!Complete
  <2>4. QED
    BY <2>1, <2>2, <2>3
<1>3. QED
    BY <1>1, <1>2

\* PaymentFulfillment implements PaymentPromise: for each order the money is
\* received, then the goods are handed out once, then the order is completed.
THEOREM Refinement == Spec => ImplementsPromise
<1>1. Init => Promise!PromiseInit
    BY DEF Init, Promise!PromiseInit
<1>2. QED
    BY <1>1, PromiseStep, Invariance, PTL DEF Spec, ImplementsPromise, Promise!PromiseSpec
=============================================================================
