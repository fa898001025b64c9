------------------------ MODULE MCPaymentFulfillment ------------------------
(* Instances of PaymentFulfillment for TLC. *)
EXTENDS PaymentFulfillment, TLC

Symmetry == Permutations(Workers)

\* Orders do not interact: one of them is created, whichever it is.
OneOrder == \A o, p \in Orders : status[o] # "ABSENT" /\ status[p] # "ABSENT" => o = p

\* While an order is being created, one handler at a time works on it.
CreatedAlone ==
    creating # {} => \E w \in Workers : \A v \in Workers \ {w} : pc[v] = "idle"
=============================================================================
