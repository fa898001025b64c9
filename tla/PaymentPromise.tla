---------------------------- MODULE PaymentPromise ----------------------------
(***************************************************************************)
(* What the payment service promises for one order, without saying how:    *)
(* money is received, then the goods are delivered exactly once, then the  *)
(* order is closed as completed.  No step is ever undone.                  *)
(***************************************************************************)
EXTENDS Naturals

CONSTANT Orders

VARIABLES
    received,   \* [Orders -> BOOLEAN], the provider holds the right amount
    delivered,  \* [Orders -> Nat], how often the goods were handed out
    completed   \* [Orders -> BOOLEAN], the order is shown as completed

promiseVars == <<received, delivered, completed>>

PromiseInit ==
    /\ received = [o \in Orders |-> FALSE]
    /\ delivered = [o \in Orders |-> 0]
    /\ completed = [o \in Orders |-> FALSE]

Receive(o) ==
    /\ ~received[o]
    /\ received' = [received EXCEPT ![o] = TRUE]
    /\ UNCHANGED <<delivered, completed>>

Deliver(o) ==
    /\ received[o]
    /\ delivered[o] = 0
    /\ delivered' = [delivered EXCEPT ![o] = 1]
    /\ UNCHANGED <<received, completed>>

Complete(o) ==
    /\ delivered[o] = 1
    /\ ~completed[o]
    /\ completed' = [completed EXCEPT ![o] = TRUE]
    /\ UNCHANGED <<received, delivered>>

PromiseNext == \E o \in Orders : Receive(o) \/ Deliver(o) \/ Complete(o)

PromiseSpec == PromiseInit /\ [][PromiseNext]_promiseVars
=============================================================================
