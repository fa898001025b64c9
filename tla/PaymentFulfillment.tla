-------------------------- MODULE PaymentFulfillment --------------------------
(***************************************************************************)
(* Payment orders from creation to delivery: payment_order.go (creation),  *)
(* payment_order_lifecycle.go (cancelling, expiring and reconciling an     *)
(* order with the payment provider) and payment_fulfillment.go (provider   *)
(* notifications, the fulfilment lease, delivery of the balance or of the  *)
(* subscription, the affiliate rebate).                                    *)
(*                                                                         *)
(* A worker is one run of a handler: a webhook request, a user or admin    *)
(* request, one order of the background sweep.  Every database statement   *)
(* or transaction of a handler is one step, so the steps of two workers    *)
(* interleave between any two of them.                                     *)
(*                                                                         *)
(* updated_at is abstracted to what the code compares it with.  Every      *)
(* UPDATE of an order row refreshes it (ent/schema/payment_order.go:168),  *)
(* so a lease version is current exactly until the next write of the row:  *)
(* holders[o] is the set of workers whose lease.version equals the row's   *)
(* updated_at.  stale[o] says that updated_at is at least five minutes     *)
(* old; the lease duration and the grace period after expiry are both five *)
(* minutes (payment_fulfillment.go:31, payment_service.go:42).             *)
(***************************************************************************)
EXTENDS Naturals

CONSTANTS
    Orders,          \* payment orders
    Workers,         \* concurrent handler runs
    NoOrder,         \* the order of an idle worker
    SubOrders,       \* the orders whose order_type is "subscription"
    BackfillOrders,  \* orders whose provider returns on query a trade number
                     \* that is not the reference it was queried by (Alipay...)
    Disturbances     \* subset of {"stall", "lost_read"}, see Tick and LosesRead

ASSUME OrdersAssumption ==
    /\ NoOrder \notin Orders
    /\ SubOrders \subseteq Orders
    /\ BackfillOrders \subseteq Orders
    /\ Disturbances \subseteq {"stall", "lost_read"}

VARIABLES
    \* the payment_orders row
    status,     \* [Orders -> Status]
    paidAt,     \* [Orders -> BOOLEAN], paid_at is set
    tradeNo,    \* [Orders -> BOOLEAN], the provider's trade number is stored
    stale,      \* [Orders -> BOOLEAN], updated_at is five minutes old or more
    holders,    \* [Orders -> SUBSET Workers], lease.version = updated_at
    \* what the order delivers
    code,       \* [Orders -> CodeStatus], the redeem code PAY-<id>-<nonce>
    assigned,   \* [Orders -> BOOLEAN], audit row SUBSCRIPTION_ASSIGNED
    deliveries, \* [Orders -> Nat], balance credits or extensions committed
    rebate,     \* [Orders -> RebateStatus], audit row AFFILIATE_REBATE_*
    rebates,    \* [Orders -> Nat], inviter rebates accrued
    \* outside the service
    gateway,    \* [Orders -> GatewayStatus], the order at the provider
    due,        \* [Orders -> BOOLEAN], expires_at has passed
    acked,      \* [Orders -> BOOLEAN], a webhook was answered with success
    \* handlers in flight
    creating,   \* SUBSET Orders, CreateOrder between its insert and its return
    pc,         \* [Workers -> Label]
    job         \* [Workers -> Job]

rowVars     == <<status, paidAt, tradeNo, stale, holders>>
ledgerVars  == <<code, assigned, deliveries, rebate, rebates>>
outsideVars == <<gateway, due, acked>>
handlerVars == <<pc, job>>
vars == <<rowVars, ledgerVars, outsideVars, creating, handlerVars>>

Status == {"ABSENT", "PENDING", "PAID", "RECHARGING", "COMPLETED",
           "EXPIRED", "CANCELLED", "FAILED"}
PaidStatus    == {"PAID", "RECHARGING", "FAILED", "COMPLETED"}
CodeStatus    == {"none", "unused", "used"}
RebateStatus  == {"none", "applied", "skipped"}
GatewayStatus == {"none", "open", "closed", "paid", "mismatch"}

\* Where a worker is: the call it is about to make.
LookupLabels  == {"query", "persist", "confirm", "cancel"}
PaidLabels    == {"toPaid", "alreadyProcessed", "execute", "acquire",
                  "acquireMissed", "reload"}
DeliverLabels == {"lookupCode", "createCode", "redeem", "checkAssigned", "assign",
                  "invalidateCache"}
SettleLabels  == {"rebate", "markCompleted", "completeMissed"}
LeaseLabels   == DeliverLabels \cup SettleLabels \cup {"markFailed"}
Label == {"idle"} \cup LookupLabels \cup PaidLabels \cup LeaseLabels

Source == {"none", "webhook", "check", "retry"}
\* The status cancelCore writes when the provider says the order is unpaid;
\* "none" for reconcilePaid, which never cancels.
CancelTo == {"none", "CANCELLED", "EXPIRED"}

Job == [order    : Orders \cup {NoOrder},
        source   : Source,
        cancelTo : CancelTo,
        backfill : BOOLEAN]  \* the row read at the start had no trade number

NoJob == [order |-> NoOrder, source |-> "none", cancelTo |-> "none",
          backfill |-> FALSE]

RowTypeOK ==
    /\ status \in [Orders -> Status]
    /\ paidAt \in [Orders -> BOOLEAN]
    /\ tradeNo \in [Orders -> BOOLEAN]
    /\ stale \in [Orders -> BOOLEAN]
    /\ holders \in [Orders -> SUBSET Workers]

LedgerTypeOK ==
    /\ code \in [Orders -> CodeStatus]
    /\ assigned \in [Orders -> BOOLEAN]
    /\ deliveries \in [Orders -> Nat]
    /\ rebate \in [Orders -> RebateStatus]
    /\ rebates \in [Orders -> Nat]

OutsideTypeOK ==
    /\ gateway \in [Orders -> GatewayStatus]
    /\ due \in [Orders -> BOOLEAN]
    /\ acked \in [Orders -> BOOLEAN]
    /\ creating \in SUBSET Orders

HandlerTypeOK ==
    /\ pc \in [Workers -> Label]
    /\ job \in [Workers -> Job]
    /\ \A w \in Workers :
          /\ pc[w] # "idle" => job[w].order \in Orders
          /\ pc[w] = "cancel" => job[w].cancelTo # "none"

TypeOK == RowTypeOK /\ LedgerTypeOK /\ OutsideTypeOK /\ HandlerTypeOK

Init ==
    /\ status = [o \in Orders |-> "ABSENT"]
    /\ paidAt = [o \in Orders |-> FALSE]
    /\ tradeNo = [o \in Orders |-> FALSE]
    /\ stale = [o \in Orders |-> FALSE]
    /\ holders = [o \in Orders |-> {}]
    /\ code = [o \in Orders |-> "none"]
    /\ assigned = [o \in Orders |-> FALSE]
    /\ deliveries = [o \in Orders |-> 0]
    /\ rebate = [o \in Orders |-> "none"]
    /\ rebates = [o \in Orders |-> 0]
    /\ gateway = [o \in Orders |-> "none"]
    /\ due = [o \in Orders |-> FALSE]
    /\ acked = [o \in Orders |-> FALSE]
    /\ creating = {}
    /\ pc = [w \in Workers |-> "idle"]
    /\ job = [w \in Workers |-> NoJob]

-----------------------------------------------------------------------------
(* Row writes and worker moves                                             *)

\* Any UPDATE of the row: updated_at becomes now, no earlier lease version
\* equals it any more.
Touch(o) ==
    /\ stale' = [stale EXCEPT ![o] = FALSE]
    /\ holders' = [holders EXCEPT ![o] = {}]

SetStatus(o, s) ==
    /\ status' = [status EXCEPT ![o] = s]
    /\ Touch(o)

Goto(w, label) ==
    /\ pc' = [pc EXCEPT ![w] = label]
    /\ UNCHANGED job

Start(w, o, label, source, cancelTo) ==
    /\ pc[w] = "idle"
    /\ pc' = [pc EXCEPT ![w] = label]
    /\ job' = [job EXCEPT ![w] =
                 [order |-> o, source |-> source, cancelTo |-> cancelTo,
                  backfill |-> o \in BackfillOrders /\ ~tradeNo[o]]]

\* The handler returns.  The webhook endpoint answers the provider with
\* success exactly when HandlePaymentNotification returned no error.
Return(w, ok) ==
    /\ pc' = [pc EXCEPT ![w] = "idle"]
    /\ job' = [job EXCEPT ![w] = NoJob]
    /\ acked' = IF ok /\ job[w].source = "webhook"
                THEN [acked EXCEPT ![job[w].order] = TRUE]
                ELSE acked

ReleaseLease(w) ==
    holders' = [o \in Orders |-> holders[o] \ {w}]

\* Worker w is about to make the call `label` for order o.
At(w, o, label) == pc[w] = label /\ job[w].order = o

-----------------------------------------------------------------------------
(* Creating an order, and what happens outside the service                 *)

CreateOrder(o) ==
    /\ status[o] = "ABSENT"
    /\ SetStatus(o, "PENDING")
    /\ creating' = creating \cup {o}
    /\ UNCHANGED <<paidAt, tradeNo, ledgerVars, outsideVars, handlerVars>>

\* The provider creates the order, whether or not its answer arrives: from
\* here on it can be paid there.
CreatePayment(o) ==
    /\ o \in creating
    /\ gateway[o] = "none"
    /\ gateway' = [gateway EXCEPT ![o] = "open"]
    /\ UNCHANGED <<rowVars, ledgerVars, due, acked, creating, handlerVars>>

\* The row keeps the payment details, and the request succeeds.
InvokeProvider(o) ==
    /\ o \in creating
    /\ gateway[o] # "none"
    /\ Touch(o)
    /\ creating' = creating \ {o}
    /\ UNCHANGED <<status, paidAt, tradeNo, ledgerVars, outsideVars, handlerVars>>

\* invokeProvider failed before, in or after CreatePayment, the update of the
\* row included: FAILED is written whatever the order is by now, here and at
\* the provider.
InvokeProviderFails(o) ==
    /\ o \in creating
    /\ SetStatus(o, "FAILED")
    /\ creating' = creating \ {o}
    /\ UNCHANGED <<paidAt, tradeNo, ledgerVars, outsideVars, handlerVars>>

\* The request dies, or the error of the FAILED write is ignored.
CreateOrderDies(o) ==
    /\ o \in creating
    /\ creating' = creating \ {o}
    /\ UNCHANGED <<rowVars, ledgerVars, outsideVars, handlerVars>>

\* The user pays: the amount of the order, or another one (a transfer the
\* provider reports with a different amount, merchant or currency).
Pay(o) ==
    /\ gateway[o] = "open"
    /\ \E result \in {"paid", "mismatch"} :
          gateway' = [gateway EXCEPT ![o] = result]
    /\ UNCHANGED <<rowVars, ledgerVars, due, acked, creating, handlerVars>>

TimeOut(o) ==
    /\ status[o] # "ABSENT"
    /\ ~due[o]
    /\ due' = [due EXCEPT ![o] = TRUE]
    /\ UNCHANGED <<rowVars, ledgerVars, gateway, acked, creating, handlerVars>>

\* Five minutes pass since the last write of the row.  Without "stall" no
\* worker is that slow between taking the lease and giving it up.
Tick(o) ==
    /\ status[o] # "ABSENT"
    /\ ~stale[o]
    /\ \/ "stall" \in Disturbances
       \/ \A w \in Workers : pc[w] \in LeaseLabels \cup {"reload"} => job[w].order # o
    /\ stale' = [stale EXCEPT ![o] = TRUE]
    /\ UNCHANGED <<status, paidAt, tradeNo, holders, ledgerVars, outsideVars,
                   creating, handlerVars>>

-----------------------------------------------------------------------------
(* Entry points                                                            *)

\* Variant with a defect: only orders that wait for a payment are looked up.
NotifyOpenOrders(w, o) ==
    /\ gateway[o] \in {"paid", "mismatch"}
    /\ status[o] \in {"PENDING", "CANCELLED", "EXPIRED"}
    /\ Start(w, o, "confirm", "webhook", "none")
    /\ UNCHANGED <<rowVars, ledgerVars, outsideVars, creating>>

\* A webhook, first or repeated: the provider sends it again until it is
\* acknowledged, and may duplicate it at any time.
Notify(w, o) ==
    /\ gateway[o] \in {"paid", "mismatch"}
    /\ Start(w, o, "confirm", "webhook", "none")
    /\ UNCHANGED <<rowVars, ledgerVars, outsideVars, creating>>

\* CancelOrder and AdminCancelOrder.
CancelOrder(w, o) ==
    /\ status[o] = "PENDING"
    /\ Start(w, o, "query", "check", "CANCELLED")
    /\ UNCHANGED <<rowVars, ledgerVars, outsideVars, creating>>

\* One order of ExpireTimedOutOrders.
ExpireTimedOutOrder(w, o) ==
    /\ status[o] = "PENDING"
    /\ due[o]
    /\ Start(w, o, "query", "check", "EXPIRED")
    /\ UNCHANGED <<rowVars, ledgerVars, outsideVars, creating>>

\* One order of ReconcilePendingPaymentOrders.
ReconcilePendingOrder(w, o) ==
    /\ status[o] = "PENDING"
    /\ ~due[o]
    /\ Start(w, o, "query", "check", "none")
    /\ UNCHANGED <<rowVars, ledgerVars, outsideVars, creating>>

\* VerifyOrderByOutTradeNo, and the resume-token lookup.
VerifyOrder(w, o) ==
    /\ status[o] \in {"PENDING", "EXPIRED"}
    /\ Start(w, o, "query", "check", "none")
    /\ UNCHANGED <<rowVars, ledgerVars, outsideVars, creating>>

\* Variant with a defect: any FAILED order may be retried.
RetryWithoutPaidAt(w, o) ==
    /\ status[o] \in {"FAILED", "PAID", "RECHARGING"}
    /\ Start(w, o, "execute", "retry", "none")
    /\ UNCHANGED <<rowVars, ledgerVars, outsideVars, creating>>

\* RetryFulfillment by an admin.
RetryFulfillment(w, o) ==
    /\ paidAt[o]
    /\ status[o] \in {"FAILED", "PAID", "RECHARGING"}
    /\ Start(w, o, "execute", "retry", "none")
    /\ UNCHANGED <<rowVars, ledgerVars, outsideVars, creating>>

-----------------------------------------------------------------------------
(* checkPaid and cancelCore                                                *)

\* The provider is asked for the order.  Unpaid: cancelling also closes the
\* order at the provider, best effort.
QueryOrder(w, o) ==
    /\ At(w, o, "query")
    /\ UNCHANGED <<rowVars, ledgerVars, due, creating>>
    /\ \/ /\ gateway[o] \in {"paid", "mismatch"}
          /\ Goto(w, IF job[w].backfill THEN "persist" ELSE "confirm")
          /\ UNCHANGED <<gateway, acked>>
       \/ /\ gateway[o] \notin {"paid", "mismatch"}
          /\ job[w].cancelTo = "none"
          /\ Return(w, TRUE)
          /\ UNCHANGED gateway
       \/ /\ gateway[o] \notin {"paid", "mismatch"}
          /\ job[w].cancelTo # "none"
          /\ Goto(w, "cancel")
          /\ \/ UNCHANGED gateway
             \/ /\ gateway[o] = "open"
                /\ gateway' = [gateway EXCEPT ![o] = "closed"]
          /\ UNCHANGED acked

\* Variant with a defect: a failed query ends every caller as if unpaid.
QueryErrorCancels(w, o) ==
    /\ At(w, o, "query")
    /\ Goto(w, "cancel")
    /\ UNCHANGED <<rowVars, ledgerVars, outsideVars, creating>>

\* Variant with a defect: a failed query ends the sweep of the order.
QueryErrorSkips(w, o) ==
    /\ At(w, o, "query")
    /\ Return(w, TRUE)
    /\ UNCHANGED <<rowVars, ledgerVars, gateway, due, creating>>

\* No provider, no answer, or a paid answer whose amount is invalid twice.
QueryOrderFails(w, o) ==
    /\ At(w, o, "query")
    /\ IF job[w].cancelTo = "none"
       THEN Return(w, TRUE)
       ELSE Goto(w, "cancel") /\ UNCHANGED acked
    /\ UNCHANGED <<rowVars, ledgerVars, gateway, due, creating>>

\* The upstream trade number is stored whatever the status is by now.
PersistTradeNo(w, o) ==
    /\ At(w, o, "persist")
    /\ \/ /\ Touch(o)
          /\ tradeNo' = [tradeNo EXCEPT ![o] = TRUE]
       \/ UNCHANGED <<stale, holders, tradeNo>>   \* the error is only logged
    /\ Goto(w, "confirm")
    /\ UNCHANGED <<status, paidAt, ledgerVars, outsideVars, creating>>

\* Variant with a defect: the write is not conditional on PENDING.
CancelUnconditionally(w, o) ==
    /\ At(w, o, "cancel")
    /\ SetStatus(o, job[w].cancelTo)
    /\ Return(w, TRUE)
    /\ UNCHANGED <<paidAt, tradeNo, ledgerVars, gateway, due, creating>>

\* The conditional write at the end of cancelCore.
CancelCore(w, o) ==
    /\ At(w, o, "cancel")
    /\ IF status[o] = "PENDING"
       THEN SetStatus(o, job[w].cancelTo)
       ELSE UNCHANGED <<status, stale, holders>>
    /\ Return(w, TRUE)
    /\ UNCHANGED <<paidAt, tradeNo, ledgerVars, gateway, due, creating>>

-----------------------------------------------------------------------------
(* Notification, PAID, and the fulfilment lease                            *)

\* Variant with a defect: the amount is not compared.
AnyPaymentAccepted(o) == gateway[o] \in {"paid", "mismatch"}

\* Provider key, snapshot metadata and amount agree with the order.
NotificationAccepted(o) == gateway[o] = "paid"

ConfirmPayment(w, o) ==
    /\ At(w, o, "confirm")
    /\ IF NotificationAccepted(o)
       THEN Goto(w, "toPaid") /\ UNCHANGED acked
       ELSE Return(w, FALSE)
    /\ UNCHANGED <<rowVars, ledgerVars, gateway, due, creating>>

\* Orders that a late payment may still turn into PAID.
Payable(o) ==
    \/ status[o] \in {"PENDING", "CANCELLED"}
    \/ status[o] = "EXPIRED" /\ ~stale[o]

ToPaid(w, o) ==
    /\ At(w, o, "toPaid")
    /\ IF Payable(o)
       THEN /\ SetStatus(o, "PAID")
            /\ paidAt' = [paidAt EXCEPT ![o] = TRUE]
            /\ tradeNo' = [tradeNo EXCEPT ![o] = TRUE]
            /\ Goto(w, "execute")
       ELSE /\ Goto(w, "alreadyProcessed")
            /\ UNCHANGED rowVars
    /\ UNCHANGED <<ledgerVars, outsideVars, creating>>

\* Anything else, a payment after the grace period included, is
\* acknowledged without further work.
AlreadyProcessed(w, o) ==
    /\ At(w, o, "alreadyProcessed")
    /\ IF status[o] \in {"FAILED", "PAID", "RECHARGING"}
       THEN Goto(w, "execute") /\ UNCHANGED acked
       ELSE Return(w, TRUE)
    /\ UNCHANGED <<rowVars, ledgerVars, gateway, due, creating>>

\* executeFulfillment and the checks of Execute{Balance,Subscription}Fulfillment.
ExecuteFulfillment(w, o) ==
    /\ At(w, o, "execute")
    /\ IF status[o] \in {"PAID", "FAILED", "RECHARGING"}
       THEN Goto(w, "acquire") /\ UNCHANGED acked
       ELSE Return(w, status[o] = "COMPLETED")
    /\ UNCHANGED <<rowVars, ledgerVars, gateway, due, creating>>

LeaseFree(o) ==
    \/ status[o] \in {"PAID", "FAILED"}
    \/ status[o] = "RECHARGING" /\ stale[o]

AcquireLease(w, o) ==
    /\ At(w, o, "acquire")
    /\ IF LeaseFree(o)
       THEN SetStatus(o, "RECHARGING") /\ Goto(w, "reload")
       ELSE Goto(w, "acquireMissed") /\ UNCHANGED <<status, stale, holders>>
    /\ UNCHANGED <<paidAt, tradeNo, ledgerVars, outsideVars, creating>>

AcquireMissed(w, o) ==
    /\ At(w, o, "acquireMissed")
    /\ Return(w, status[o] = "COMPLETED")
    /\ UNCHANGED <<rowVars, ledgerVars, gateway, due, creating>>

\* The lease version is the updated_at read back, not the one written.
ReloadLease(w, o) ==
    /\ At(w, o, "reload")
    /\ IF status[o] = "RECHARGING"
       THEN /\ holders' = [holders EXCEPT ![o] = @ \cup {w}]
            /\ Goto(w, IF o \in SubOrders THEN "checkAssigned" ELSE "lookupCode")
            /\ UNCHANGED acked
       ELSE Return(w, FALSE) /\ UNCHANGED holders
    /\ UNCHANGED <<status, paidAt, tradeNo, stale, ledgerVars, gateway, due,
                   creating>>

-----------------------------------------------------------------------------
(* Delivery                                                                *)

\* Variant with a defect: an existing code counts as redeemed.
LookupTakesUnusedForUsed(w, o) ==
    /\ At(w, o, "lookupCode")
    /\ Goto(w, IF code[o] = "none" THEN "createCode" ELSE "rebate")
    /\ UNCHANGED <<rowVars, ledgerVars, outsideVars, creating>>

\* doBalance: the state of the redeem code says what is left to do.
LookupCode(w, o) ==
    /\ At(w, o, "lookupCode")
    /\ Goto(w, CASE code[o] = "none"   -> "createCode"
                 [] code[o] = "unused" -> "redeem"
                 [] code[o] = "used"   -> "rebate")
    /\ UNCHANGED <<rowVars, ledgerVars, outsideVars, creating>>

\* The code column is unique: a second insert is an error.
CreateCode(w, o) ==
    /\ At(w, o, "createCode")
    /\ IF code[o] = "none"
       THEN /\ code' = [code EXCEPT ![o] = "unused"]
            /\ \E next \in {"redeem", "markFailed"} : Goto(w, next)
       ELSE /\ Goto(w, "markFailed")
            /\ UNCHANGED code
    /\ UNCHANGED <<rowVars, assigned, deliveries, rebate, rebates, outsideVars,
                   creating>>

\* Variant with a defect: the code is marked used without its status guard.
RedeemUnguarded(w, o) ==
    /\ At(w, o, "redeem")
    /\ code' = [code EXCEPT ![o] = "used"]
    /\ deliveries' = [deliveries EXCEPT ![o] = @ + 1]
    /\ \E next \in {"rebate", "markFailed"} : Goto(w, next)
    /\ UNCHANGED <<rowVars, assigned, rebate, rebates, outsideVars, creating>>

\* One transaction marks the code used (WHERE status = 'unused') and credits
\* the balance.  The read after the commit may still fail the call.
Redeem(w, o) ==
    /\ At(w, o, "redeem")
    /\ IF code[o] = "unused"
       THEN /\ code' = [code EXCEPT ![o] = "used"]
            /\ deliveries' = [deliveries EXCEPT ![o] = @ + 1]
            /\ \E next \in {"rebate", "markFailed"} : Goto(w, next)
       ELSE /\ Goto(w, "markFailed")
            /\ UNCHANGED <<code, deliveries>>
    /\ UNCHANGED <<rowVars, assigned, rebate, rebates, outsideVars, creating>>

\* Variant with a defect: the order counts as assigned without a record.
AssignmentAssumed(w, o) ==
    /\ At(w, o, "checkAssigned")
    /\ Goto(w, "invalidateCache")
    /\ UNCHANGED <<rowVars, ledgerVars, outsideVars, creating>>

\* ensurePaymentSubscriptionAssigned reads the audit log first ...
CheckAssigned(w, o) ==
    /\ At(w, o, "checkAssigned")
    /\ Goto(w, IF assigned[o] THEN "invalidateCache" ELSE "assign")
    /\ UNCHANGED <<rowVars, ledgerVars, outsideVars, creating>>

\* Variant with a defect: no unique index stops the second extension.
AssignTwice(w, o) ==
    /\ At(w, o, "assign")
    /\ assigned' = [assigned EXCEPT ![o] = TRUE]
    /\ deliveries' = [deliveries EXCEPT ![o] = @ + 1]
    /\ \E next \in {"invalidateCache", "markFailed"} : Goto(w, next)
    /\ UNCHANGED <<rowVars, code, rebate, rebates, outsideVars, creating>>

\* ... and commits the extension with its audit row, or hits the unique
\* index on (order_id, action), rolls back and goes on with the other
\* worker's assignment.
AssignSubscription(w, o) ==
    /\ At(w, o, "assign")
    /\ IF assigned[o]
       THEN /\ Goto(w, "invalidateCache")
            /\ UNCHANGED <<assigned, deliveries>>
       ELSE /\ assigned' = [assigned EXCEPT ![o] = TRUE]
            /\ deliveries' = [deliveries EXCEPT ![o] = @ + 1]
            /\ \E next \in {"invalidateCache", "markFailed"} : Goto(w, next)
    /\ UNCHANGED <<rowVars, code, rebate, rebates, outsideVars, creating>>

InvalidateCache(w, o) ==
    /\ At(w, o, "invalidateCache")
    /\ Goto(w, "rebate")
    /\ UNCHANGED <<rowVars, ledgerVars, outsideVars, creating>>

\* One transaction claims the rebate audit row, accrues the rebate of the
\* inviter if there is one, and records which of the two it was.
ApplyAffiliateRebate(w, o) ==
    /\ At(w, o, "rebate")
    /\ IF rebate[o] = "none"
       THEN /\ \/ /\ rebate' = [rebate EXCEPT ![o] = "applied"]
                  /\ rebates' = [rebates EXCEPT ![o] = @ + 1]
               \/ /\ rebate' = [rebate EXCEPT ![o] = "skipped"]
                  /\ UNCHANGED rebates
            /\ \E next \in {"markCompleted", "markFailed"} : Goto(w, next)
       ELSE /\ Goto(w, "markCompleted")
            /\ UNCHANGED <<rebate, rebates>>
    /\ UNCHANGED <<rowVars, code, assigned, deliveries, outsideVars, creating>>

\* status = RECHARGING and updated_at = lease.version
HoldsLease(w, o) == status[o] = "RECHARGING" /\ w \in holders[o]

MarkCompleted(w, o) ==
    /\ At(w, o, "markCompleted")
    /\ IF HoldsLease(w, o)
       THEN SetStatus(o, "COMPLETED") /\ Return(w, TRUE)
       ELSE Goto(w, "completeMissed") /\ UNCHANGED <<status, stale, holders, acked>>
    /\ UNCHANGED <<paidAt, tradeNo, ledgerVars, gateway, due, creating>>

CompleteMissed(w, o) ==
    /\ At(w, o, "completeMissed")
    /\ IF status[o] = "COMPLETED"
       THEN Return(w, TRUE) /\ ReleaseLease(w)
       ELSE Goto(w, "markFailed") /\ UNCHANGED <<holders, acked>>
    /\ UNCHANGED <<status, paidAt, tradeNo, stale, ledgerVars, gateway, due,
                   creating>>

MarkFailed(w, o) ==
    /\ At(w, o, "markFailed")
    /\ IF HoldsLease(w, o)
       THEN SetStatus(o, "FAILED")
       ELSE ReleaseLease(w) /\ UNCHANGED <<status, stale>>
    /\ Return(w, FALSE)
    /\ UNCHANGED <<paidAt, tradeNo, ledgerVars, gateway, due, creating>>

-----------------------------------------------------------------------------
(* Failing calls and crashes                                               *)

\* A call before delivery returns an error and changes nothing: the handler
\* returns it.  After AcquireLease this leaves the order RECHARGING.
ReturnsError(w, o) ==
    /\ \E label \in PaidLabels \cup {"confirm", "cancel"} : At(w, o, label)
    /\ Return(w, FALSE)
    /\ UNCHANGED <<rowVars, ledgerVars, gateway, due, creating>>

\* confirmPayment and alreadyProcessed answer a failed read with success.
LosesRead(w, o) ==
    /\ "lost_read" \in Disturbances
    /\ \E label \in {"confirm", "alreadyProcessed"} : At(w, o, label)
    /\ Return(w, TRUE)
    /\ UNCHANGED <<rowVars, ledgerVars, gateway, due, creating>>

\* A call of doBalance or doSub returns an error and changes nothing.
DeliveryFails(w, o) ==
    /\ \E label \in DeliverLabels \cup SettleLabels : At(w, o, label)
    /\ Goto(w, "markFailed")
    /\ UNCHANGED <<rowVars, ledgerVars, outsideVars, creating>>

\* The process dies, or the write of markFailed does (its request may have
\* been cancelled): nothing is undone and the lease is not given back.
Crash(w, o) ==
    /\ pc[w] # "idle"
    /\ job[w].order = o
    /\ Return(w, FALSE)
    /\ ReleaseLease(w)
    /\ UNCHANGED <<status, paidAt, tradeNo, stale, ledgerVars, gateway, due,
                   creating>>

-----------------------------------------------------------------------------
(* Specification                                                           *)

Outside(o) ==
    \/ Pay(o)
    \/ TimeOut(o)
    \/ Tick(o)

Creation(o) ==
    \/ CreateOrder(o)
    \/ CreatePayment(o)
    \/ InvokeProvider(o)
    \/ InvokeProviderFails(o)
    \/ CreateOrderDies(o)

Request(w, o) ==
    \/ Notify(w, o)
    \/ CancelOrder(w, o)
    \/ ExpireTimedOutOrder(w, o)
    \/ ReconcilePendingOrder(w, o)
    \/ VerifyOrder(w, o)
    \/ RetryFulfillment(w, o)

CheckPaid(w, o) ==
    \/ QueryOrder(w, o)
    \/ QueryOrderFails(w, o)
    \/ PersistTradeNo(w, o)
    \/ CancelCore(w, o)

Confirm(w, o) ==
    \/ ConfirmPayment(w, o)
    \/ ToPaid(w, o)
    \/ AlreadyProcessed(w, o)

Fulfil(w, o) ==
    \/ ExecuteFulfillment(w, o)
    \/ AcquireLease(w, o)
    \/ AcquireMissed(w, o)
    \/ ReloadLease(w, o)
    \/ LookupCode(w, o)
    \/ CreateCode(w, o)
    \/ Redeem(w, o)
    \/ CheckAssigned(w, o)
    \/ AssignSubscription(w, o)
    \/ InvalidateCache(w, o)
    \/ ApplyAffiliateRebate(w, o)
    \/ MarkCompleted(w, o)
    \/ CompleteMissed(w, o)
    \/ MarkFailed(w, o)

Fault(w, o) ==
    \/ ReturnsError(w, o)
    \/ LosesRead(w, o)
    \/ DeliveryFails(w, o)
    \/ Crash(w, o)

Next ==
    \/ \E o \in Orders : Outside(o) \/ Creation(o)
    \/ \E w \in Workers, o \in Orders :
          Request(w, o) \/ CheckPaid(w, o) \/ Confirm(w, o) \/ Fulfil(w, o) \/ Fault(w, o)

Spec == Init /\ [][Next]_vars

-----------------------------------------------------------------------------
(* Properties                                                              *)

\* However often notifications, retries and sweeps overlap, fail half-way or
\* crash, the balance is credited (or the subscription extended) at most once
\* per order and its inviter gets at most one rebate: resolveRedeemAction,
\* RedeemCode.Use, the SUBSCRIPTION_ASSIGNED and AFFILIATE_REBATE audit rows.
DeliveredAtMostOnce ==
    \A o \in Orders : deliveries[o] <= 1 /\ rebates[o] <= 1

\* Nothing is delivered for an order the provider did not report as paid with
\* the right amount, by whatever path fulfilment was entered: confirmPayment's
\* checks, the paid_at check of RetryFulfillment.
DeliveredOnlyIfPaid ==
    \A o \in Orders : deliveries[o] > 0 => gateway[o] = "paid"

\* An order shows COMPLETED only when its goods were delivered and its rebate
\* was decided, although the worker that completes it need not be the one that
\* delivered: doBalance, doSub, markCompleted.
CompletedIsSettled ==
    \A o \in Orders :
        status[o] = "COMPLETED" => deliveries[o] = 1 /\ rebate[o] # "none"

\* A paid or delivered order is never taken back: no cancel, expiry or failed
\* creation decided on an older read closes it as unpaid, and COMPLETED is final
\* here (cancelCore, CreateOrder, toPaid, markFailed).  The exception: while its
\* CreateOrder is still under way, the unconditional FAILED of a creation that
\* goes wrong after the provider took the order can hide a completion.
PaidIsFinal ==
    [][\A o \in Orders :
          /\ paidAt[o] \/ deliveries[o] > 0 => status'[o] \in PaidStatus
          /\ status[o] = "COMPLETED" /\ o \notin creating => status'[o] = "COMPLETED"]_vars

\* The service implements the promise, whichever worker takes which step.  An
\* order counts as completed once its creation is over as well.
Promise == INSTANCE PaymentPromise WITH
    received  <- [o \in Orders |-> gateway[o] = "paid"],
    delivered <- deliveries,
    completed <- [o \in Orders |-> status[o] = "COMPLETED" /\ o \notin creating]
ImplementsPromise == Promise!PromiseSpec
=============================================================================
