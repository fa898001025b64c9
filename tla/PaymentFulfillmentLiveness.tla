---------------------- MODULE PaymentFulfillmentLiveness ----------------------
(***************************************************************************)
(* PaymentFulfillment with finitely many faults and with the fairness its  *)
(* surroundings give: what must eventually happen to an order.             *)
(***************************************************************************)
EXTENDS PaymentFulfillment

CONSTANT MaxFaults  \* bound on failing calls, crashes and stalls of a behaviour
ASSUME MaxFaultsAssumption == MaxFaults \in Nat

VARIABLE faults     \* how many happened

liveVars == <<vars, faults>>

LiveInit == Init /\ faults = 0

\* Steps of a running handler.
Step(w, o) == CheckPaid(w, o) \/ Confirm(w, o) \/ Fulfil(w, o)

\* A worker is between taking the lease of order o and giving it up.
Leased(o) == \E w \in Workers : pc[w] \in LeaseLabels \cup {"reload"} /\ job[w].order = o

LiveNext ==
    \/ /\ UNCHANGED faults
       /\ \/ \E o \in Orders : Pay(o) \/ TimeOut(o) \/ (~Leased(o) /\ Tick(o)) \/ Creation(o)
          \/ \E w \in Workers, o \in Orders : Request(w, o) \/ Step(w, o)
    \/ /\ faults < MaxFaults
       /\ faults' = faults + 1
       /\ \E o \in Orders : (Leased(o) /\ Tick(o)) \/ \E w \in Workers : Fault(w, o)

\* The provider repeats a notification until it is acknowledged.
Redeliver(o) ==
    /\ ~acked[o]
    /\ \E w \in Workers : Notify(w, o)
    /\ UNCHANGED faults

\* The background service looks at every order that has timed out.
Sweep(o) ==
    /\ \E w \in Workers : ExpireTimedOutOrder(w, o)
    /\ UNCHANGED faults

Fairness ==
    /\ \A w \in Workers : WF_liveVars((\E o \in Orders : Step(w, o)) /\ UNCHANGED faults)
    /\ \A o \in Orders :
          /\ WF_liveVars((TimeOut(o) \/ (~Leased(o) /\ Tick(o))) /\ UNCHANGED faults)
          /\ SF_liveVars(Redeliver(o))
          /\ SF_liveVars(Sweep(o))

LiveSpec == LiveInit /\ [][LiveNext]_liveVars /\ Fairness

\* An order whose payment was accepted, or that a failed creation left FAILED
\* although the provider got the money, is completed in the end while its
\* notification is repeated, whatever failed or crashed on the way: FAILED and
\* abandoned RECHARGING orders are picked up again by alreadyProcessed and the
\* lease's expiry.
PaidIsCompleted ==
    \A o \in Orders :
        /\ paidAt[o] \/ (status[o] = "FAILED" /\ gateway[o] = "paid")
        /\ ~acked[o]
        ~> status[o] = "COMPLETED"

\* No order waits for its payment for ever: the sweep cancels it, expires it
\* or finds it paid - unless the provider reports a wrong amount, which
\* checkPaid answers with already_paid every time.
PendingIsResolved ==
    \A o \in Orders :
        status[o] = "PENDING" ~> status[o] # "PENDING" \/ gateway[o] = "mismatch"
=============================================================================
