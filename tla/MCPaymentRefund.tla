--------------------------- MODULE MCPaymentRefund ---------------------------
(* Instances of PaymentRefund for TLC. *)
EXTENDS PaymentRefund, TLC

Symmetry == Permutations(Admins)

\* The search goes on after one kind of incident, until it has shown in the
\* books that the user lost more than the order credited.
OneIncident == incidents # IncidentKinds /\ deducted <= Amount
=============================================================================
