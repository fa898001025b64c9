--------------------------- MODULE MCOAuthRefresh ---------------------------
(***************************************************************************)
(* The instances of OAuthRefresh that TLC checks.                          *)
(***************************************************************************)
EXTENDS OAuthRefresh

CONSTANTS i1, i2, r1

\* Bound: a refresher makes its second attempt only where no administrator has acted.
RetriesAlone == granted \cup manual = {1} \/ \A p \in Process : run[p].attempt < MaxAttempts

RequestsAtI1 == [r \in Requests |-> i1]
=============================================================================
