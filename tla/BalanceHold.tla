---------------------------- MODULE BalanceHold ----------------------------
(***************************************************************************)
(* The money side of a batch image job: users.balance,                     *)
(* users.frozen_balance and the rows of usage_billing_dedup that the hold, *)
(* the capture and the release of one job claim (usage_billing_repo.go).   *)
(* frozen_balance is one number for all the jobs of the user: OtherHolds   *)
(* of it belong to other jobs and must stay.                               *)
(***************************************************************************)
EXTENDS Integers, FiniteSets

CONSTANTS
    HoldAmount,       \* what Submit freezes for the job
    InitialBalance,   \* the user's balance
    OtherHolds        \* frozen for the user's other jobs

ASSUME HoldAssumption ==
    /\ HoldAmount \in Nat \ {0}
    /\ InitialBalance \in Nat
    /\ OtherHolds \in Nat

VARIABLES
    balance,   \* users.balance
    frozen,    \* users.frozen_balance
    claims     \* the job's rows of usage_billing_dedup

holdVars == <<balance, frozen, claims>>

Claim == {"hold", "capture", "release"}

HoldTypeOK ==
    /\ balance \in Int
    /\ frozen \in Nat
    /\ claims \subseteq Claim

HoldInit ==
    /\ balance = InitialBalance
    /\ frozen = OtherHolds
    /\ claims = {}

\* Money of this job is frozen.
Outstanding == frozen > OtherHolds

-----------------------------------------------------------------------------
(* Each operation is one transaction, which claims its request id and      *)
(* changes the user's row.  A request id that is already claimed changes   *)
(* nothing and succeeds; CanX says whether the transaction succeeds.       *)

Move(claim, toBalance, fromFrozen) ==
    /\ claims' = claims \cup {claim}
    /\ balance' = balance + toBalance
    /\ frozen' = frozen - fromFrozen

CanReserve == "hold" \in claims \/ balance >= HoldAmount

Reserve ==
    IF "hold" \in claims THEN UNCHANGED holdVars
    ELSE Move("hold", -HoldAmount, -HoldAmount)

CanCapture == "capture" \in claims \/ frozen >= HoldAmount

\* cost is at most HoldAmount: Settle has compared them.
Capture(cost) ==
    IF "capture" \in claims THEN UNCHANGED holdVars
    ELSE Move("capture", HoldAmount - cost, HoldAmount)

CanRelease == "release" \in claims \/ "hold" \notin claims \/ frozen >= HoldAmount

\* Variant with a defect: a release is not deduplicated by its request id.
ReleaseNotDeduplicated ==
    IF "hold" \notin claims THEN UNCHANGED holdVars
    ELSE Move("release", HoldAmount, HoldAmount)

\* Variant with a defect: a release does not ask whether the job has a hold.
ReleaseWithoutHold ==
    IF "release" \in claims THEN UNCHANGED holdVars
    ELSE Move("release", HoldAmount, HoldAmount)

\* A release of a job that has no hold is claimed as well, without effect.
Release ==
    IF "release" \in claims THEN UNCHANGED holdVars
    ELSE LET held == IF "hold" \in claims THEN HoldAmount ELSE 0
         IN Move("release", held, held)
=============================================================================
